CONSTANTS
    Calls = {c1, c2, c3}
    Uses <- MCUses
SPECIFICATION FairSpec
INVARIANTS QueueConsistent OneStagedTransfer NoUseAfterDelete PipeServes
PROPERTIES PurgeEnds
