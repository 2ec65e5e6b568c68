SPECIFICATION Spec
CONSTANTS
    c1 = c1
    c2 = c2
    c3 = c3
    d1 = d1
    d2 = d2
    None = None
    Calls = {c1, c2, c3}
    Datasets = {d1, d2}
    Target <- TwoAndOne
    Faults = {"secrets", "tpm", "zfs", "mount", "disconnect"}
    MaxBoots = 2
INVARIANT TypeOK
INVARIANT KeyIsEscrowed
INVARIANT BootUnlocks
CHECK_DEADLOCK FALSE
