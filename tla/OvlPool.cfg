CONSTANTS
    PoolSlots = {p1, p2}
    OvlSlots = {o1, o2, o3}
    NoOvl = NoOvl
    NoPool = NoPool
    MaxCount = 2
    MaxInits = 2
    FreeUnused = FALSE
    SlowCancel = TRUE
    AllocFails = TRUE
SPECIFICATION Spec
CHECK_DEADLOCK FALSE
SYMMETRY Symmetry
INVARIANTS PoolConsistent NoReuseUncancelled
