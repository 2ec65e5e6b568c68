CONSTANTS
    j1 = j1
    j2 = j2
    NoKey = NoKey
    Jobs = {j1}
    KeyOf <- Unkeyed
    ReplicationRuns = {}
    Concurrency = 1
    Faults = {"tx", "decode"}
    MaxStops = 2
SPECIFICATION StreamSpec
INVARIANTS
    StreamTypeOK
    TailCanLearn
    StreamTellsTruth
PROPERTIES
    TailEnds
CHECK_DEADLOCK FALSE
