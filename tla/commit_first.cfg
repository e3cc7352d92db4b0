\* A FastAPI that commits before it responds (0.115 to 0.117).
SPECIFICATION Spec
CONSTANTS
    c1 = c1
    c2 = c2
    c3 = c3
    c4 = c4
    w1 = w1
    w2 = w2
    alice = alice
    bob = bob
    plain = plain
    padded = padded
    k1 = k1
    k2 = k2
    None = None
    Calls = {c1, c2, c3, c4}
    Workspaces = {w1, w2}
    Users = {alice, bob}
    Texts = {plain, padded}
    Keys = {k1, k2}
    PoolSize = 4
    ExitAfterResponse = FALSE
    Strip <- MCStrip
    Inputs <- MCRaceInputs
INVARIANTS
    AcknowledgedIsDurable
    SameKeySameAnswer
PROPERTIES
    ReadsFollowAnswers
