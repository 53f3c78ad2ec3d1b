SPECIFICATION FairSpec
CONSTANTS
    MaxTicks = 3
    MaxFaults = 3
    CrashPoints <- EveryPoint
    LateDelivery = FALSE
INVARIANTS
    TypeOK
    NoLockout
    SuccessIsCommitted
PROPERTIES
    FileFollowsServer
    StagedBeforeChange
    RecoveredUnlessEmpty
