\* Commit before response: three clients, two failures or timeouts.
SPECIFICATION FairClientSpec
CONSTANTS
    a1 = a1
    a2 = a2
    a3 = a3
    a4 = a4
    b1 = b1
    b2 = b2
    b3 = b3
    b4 = b4
    d1 = d1
    d2 = d2
    d3 = d3
    d4 = d4
    creator = creator
    approver = approver
    canceller = canceller
    w1 = w1
    alice = alice
    bob = bob
    plain = plain
    k1 = k1
    k2 = k2
    k3 = k3
    None = None
    Calls = {a1, a2, a3, a4, b1, b2, b3, b4, d1, d2, d3, d4}
    Workspaces = {w1}
    Users = {alice, bob}
    Texts = {plain}
    Keys = {k1, k2, k3}
    PoolSize = 12
    ExitAfterResponse = FALSE
    Strip <- MCStrip
    Inputs <- MCInputs
    Clients = {creator, approver, canceller}
    Attempts <- MCAttempts
    MaxFaults = 2
INVARIANTS
    ClientTypeOK
PROPERTIES
    ImplementsExactlyOnce
    EveryClientIsTold
