SPECIFICATION Spec
CONSTANTS
    k1 = k1
    k2 = k2
    k3 = k3
    t1 = t1
    t2 = t2
    Keys = {k1, k2, k3}
    Threads = {t1, t2}
    None = None
    Sizes = {1, 2}
    MaxBytes = 3
    MaxTicks = 4
    MaxFaults = 2
SYMMETRY MCSymmetry
CHECK_DEADLOCK FALSE
INVARIANTS
    Consistent
PROPERTIES
    EvictsLeastRecentlyUsed
    KeepsContract
