SPECIFICATION Spec
CONSTANTS
    MaxPacket = 2
    MaxTransfer = 5
    MaxLength = 6
    MaxBytes = 5
    Policies = {"AllowPartialReads", "AutoFlush", "IgnoreShortPackets", "AutoClearStall", "ResetPipeOnResume"}
INVARIANTS BuffersKept StreamExact ShortReadHasReason StallFailsOnce
