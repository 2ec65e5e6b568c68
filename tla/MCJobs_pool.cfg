CONSTANTS
    j1 = j1
    j2 = j2
    NoKey = NoKey
    Jobs = {j1, j2}
    KeyOf <- PoolKeys
    ReplicationRuns = {}
    Concurrency = 2
    Faults = {}
    MaxStops = 0
SPECIFICATION Spec
INVARIANT
    OneJobPerPool
CHECK_DEADLOCK FALSE
