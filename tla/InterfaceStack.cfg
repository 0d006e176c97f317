SPECIFICATION Spec
CONSTANTS
    Threads = {t1, t2}
    Handles = {h1, h2, h3}
    Devs = {d1, d2}
    NoHandle = NoHandle
    NoDev = NoDev
    Drivers = {"libusbK", "libusb0"}
    Configs <- MCConfigs
    FirstConfig <- MCFirst
    Alts = {0, 1}
    Targets = {2}
    MaxLost = 1
    ConfigAlone = TRUE
SYMMETRY Symmetry
INVARIANTS RefsConsistent ClaimsExact AltCacheExact
CHECK_DEADLOCK FALSE
