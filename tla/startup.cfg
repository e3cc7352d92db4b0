\* Three containers on one database, each started up to twice, two failures.
\* When all serve or have stopped for good, nothing happens any more.
SPECIFICATION FairSpec
CONSTANTS
    None = None
    Containers = {c1, c2, c3}
    Objects <- MCObjects
    MaxStarts = 2
    MaxFailures = 2
INVARIANTS
    StartupTypeOK
    TurnedAwayByAWholeSchema
    WaitingContainersHoldNothing
PROPERTIES
    EveryStartEnds
    ImplementsMigration
CHECK_DEADLOCK FALSE
