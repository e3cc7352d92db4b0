SPECIFICATION LedgerSpec
CONSTANTS
    n1 = n1
    n2 = n2
    n3 = n3
    w1 = w1
    alice = alice
    bob = bob
    t1 = t1
    None = None
    Calls = {n1, n2, n3}
    Workspaces = {w1}
    Users = {alice, bob}
    Texts = {t1}
INVARIANTS
    LedgerTypeOK
    LogExplainsState
    LogSaysNothingElse
    TrailsAgree
    DecidersEntitled
PROPERTIES
    ImplementsIndex
\* The service rests when nobody calls any more; here, when the identifiers
\* of the instance are used up.
CHECK_DEADLOCK FALSE
