CONSTANTS
    j1 = j1
    j2 = j2
    NoKey = NoKey
    Jobs = {j1}
    KeyOf <- Unkeyed
    ReplicationRuns = {}
    Concurrency = 1
    Faults = {}
    MaxStops = 0
SPECIFICATION StreamSpec
INVARIANT
    SubscribeFirstClosesRace
CHECK_DEADLOCK FALSE
