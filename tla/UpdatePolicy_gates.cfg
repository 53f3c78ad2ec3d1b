SPECIFICATION Spec
CONSTANTS
    MaxRevision = 4
    MaxVersion = 3
    MaxFaults = 2
    MaxOps = 2
    Modes <- AllModes
    CrashWhileStopping = TRUE
INVARIANTS
    TypeOK
    ForcedMeansDown
    StoppedCanResume
PROPERTIES
    NoRollback
