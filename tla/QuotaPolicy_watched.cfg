SPECIFICATION FairSpec
CONSTANTS
    Policies <- SomePolicies
    ThrottleRate = 2
    MaxResets = 3
    MaxTraffic = 0
    MaxChanges = 0
    MaxFaults = 0
    MaxToggles = 1
CHECK_DEADLOCK FALSE
INVARIANTS
    AlwaysWatched
