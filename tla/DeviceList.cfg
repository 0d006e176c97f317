CONSTANTS
    NumDevices = 2
    Filters = {2}
    NumLists = 2
    NumInfos = 4
    Patterns <- MCPatterns
    Masks <- MCMasks
    MaxMine = 1
    MaxSteps = 7
SPECIFICATION ListSpec
CHECK_DEADLOCK FALSE
INVARIANTS ListsConsistent InfosCounted
PROPERTIES SyncTellsNews SyncHonoursMask
