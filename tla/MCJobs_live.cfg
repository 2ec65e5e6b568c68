CONSTANTS
    j1 = j1
    j2 = j2
    NoKey = NoKey
    Jobs = {j1, j2}
    KeyOf <- OneOfTwo
    ReplicationRuns = {j2}
    Concurrency = 1
    Faults = {"tx", "redis"}
    MaxStops = 2
SPECIFICATION FairSpec
INVARIANTS
    RunningHasHandler
    QueuedNotForgotten
PROPERTIES
    RunningEnds
    AcceptedIsTried
CHECK_DEADLOCK FALSE
