SPECIFICATION FairSpec
CONSTANTS
    Threads = {t1, t2, t3}
    NoThread = NoThread
    HandleCount = 1
    LateCalls = FALSE
INVARIANTS RefExact NoCleanupWhileReferenced
PROPERTIES FreedSlotReturns ImplementsLifetime
