SPECIFICATION FairSpec
CONSTANTS
    u1 = u1
    u2 = u2
    Users <- TwoUsers
    MaxPendingIO = 2
    MaxTransferSize = 2
    Setups <- MCSetups
    MaxLength = 2
    MaxBytes = 2
INVARIANTS StreamConsistent InOrder FreedIsStopped
PROPERTY StopEnds
\* The stream may be freed, and everything stopped.
CHECK_DEADLOCK FALSE
