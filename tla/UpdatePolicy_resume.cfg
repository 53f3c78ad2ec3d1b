SPECIFICATION FairSpec
CONSTANTS
    MaxRevision = 3
    MaxVersion = 2
    MaxFaults = 3
    MaxOps = 2
    Modes <- Unmanaged
    CrashWhileStopping = FALSE
PROPERTIES
    ResumeCompletes
    DaemonServes
