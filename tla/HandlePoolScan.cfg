SPECIFICATION Spec
CONSTANTS
    Threads = {t1, t2}
    NoThread = NoThread
    HandleCount = 2
    LateCalls = TRUE
SYMMETRY Symmetry
INVARIANTS TypeOK SoloScanComplete
