CONSTANTS
    a1 = a1
    a2 = a2
    d1 = d1
    d2 = d2
    h1 = h1
    h2 = h2
    h3 = h3
    Apps = {a1, a2}
    Devices = {d1}
    Handles = {h1, h2, h3}
    Pattern <- MCPattern
    PlugAll <- MCPlugAll
    PassDupe <- MCPassDupe
    NoHandle = NoHandle
    MaxItems = 2
    MaxEvents = 2
    StartFails = TRUE
    WindowFails = TRUE
    CallsAfterEnd = FALSE
SPECIFICATION Spec
CHECK_DEADLOCK FALSE
ACTION_CONSTRAINT OneCaller
INVARIANTS CountsExact MonitorIntact HandlesServed
PROPERTIES CallsReturn ListConverges ArrivalsAreTold
