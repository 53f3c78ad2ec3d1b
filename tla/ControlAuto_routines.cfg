SPECIFICATION FairSpec
CONSTANTS
    MaxCalls = 3
CHECK_DEADLOCK FALSE
INVARIANTS
    TypeOK
PROPERTIES
    RoutinesServe
    ShutdownReturns
