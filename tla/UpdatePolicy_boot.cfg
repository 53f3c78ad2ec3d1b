SPECIFICATION FairSpec
CONSTANTS
    MaxRevision = 2
    MaxVersion = 2
    MaxFaults = 1
    MaxOps = 1
    Modes <- ManagedDesktop
    CrashWhileStopping = FALSE
PROPERTIES
    DaemonServes
