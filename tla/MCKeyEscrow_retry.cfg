SPECIFICATION SequentialSpec
CONSTANTS
    c1 = c1
    c2 = c2
    c3 = c3
    d1 = d1
    d2 = d2
    None = None
    Calls = {c1, c2}
    Datasets = {d1}
    Target <- Retried
    Faults = {}
    MaxBoots = 0
PROPERTY RollbackSparesExisting
CHECK_DEADLOCK FALSE
