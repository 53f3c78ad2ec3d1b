SPECIFICATION FairSpec
CONSTANTS
    Policies <- SomePolicies
    ThrottleRate = 2
    MaxResets = 2
    MaxTraffic = 1
    MaxChanges = 1
    MaxFaults = 1
    MaxToggles = 1
CHECK_DEADLOCK FALSE
INVARIANTS
    TypeOK
    LimitsAreCurrent
PROPERTIES
    GuardEnforced
