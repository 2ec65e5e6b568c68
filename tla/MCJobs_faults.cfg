CONSTANTS
    j1 = j1
    j2 = j2
    NoKey = NoKey
    Jobs = {j1, j2}
    KeyOf <- SameKey
    ReplicationRuns = {}
    Concurrency = 2
    Faults = {"tx", "redis", "db", "decode", "timeout", "recover"}
    MaxStops = 2
SPECIFICATION Spec
SYMMETRY Symmetric
INVARIANTS
    TypeOK
    UniqueKeyExclusive
    OncePerDelivery
PROPERTIES
    RowsFollowLifecycle
CHECK_DEADLOCK FALSE
