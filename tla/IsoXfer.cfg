SPECIFICATION Spec
CONSTANTS
    MPS = 2
    Intervals = {2}
    Lengths = {5, 17}
    FixedPackets = {0, 2, 8}
    Latency = 1
    MaxPacketsHS = 16
    MaxPacketsFS = 3
    MaxInFlight = 2
    MaxTime = 2
    MaxFrame = 12
INVARIANTS TransfersWellFormed FramesContiguous ReadInOrder
PROPERTIES StartsAhead
