SPECIFICATION FairSpec
CONSTANTS
    Packets = {p1, p2}
    Sizes = {2}
    Limits <- SomeLimits
    MinBurst = 1
    MaxBurst = 2
    BurstShare = 2
    MaxConfigs = 2
    MaxTicks = 1
    MaxBatches = 2
CHECK_DEADLOCK FALSE
INVARIANTS
    TypeOK
    WithinRate
    CurrentIsLive
    DropsOnlyWhenClosed
PROPERTIES
    NoneLeftBehind
    CloseDrains
