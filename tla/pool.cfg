\* Two calls, which may keep their connections for ever, and two probes; two outages.
SPECIFICATION ProbeSpec
CONSTANTS
    None = None
    Calls = {c1, c2}
    Probes = {p1, p2}
    Slots = {s1, s2}
    MaxOutages = 2
INVARIANTS
    PoolTypeOK
    ReadyMeansReachable
    LostConnectionsFailOnce
PROPERTIES
    EveryProbeIsAnswered
