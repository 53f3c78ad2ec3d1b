SPECIFICATION FairSpec
CONSTANTS
    MaxFileSize = 0
    MaxBatch = 2
    MaxLines = 3
    RawLines = {3}
    UpAtStart = FALSE
    MaxRestarts = 1
    MaxFlaps = 1
CHECK_DEADLOCK FALSE
INVARIANTS
    TypeOK
PROPERTIES
    ImplementsStream
    LoggedLeaves
    ShutdownEnds
