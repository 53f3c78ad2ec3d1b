SPECIFICATION Spec
CONSTANTS
    Servers = {A, B}
    Default = A
    NoURL = NoURL
    Handlers = {h1, h2}
    MaxRequests = 2
    MaxOps = 2
    EditURL = TRUE
    Linger = TRUE
SYMMETRY HandlerSymmetry
CHECK_DEADLOCK FALSE
INVARIANTS
    TypeOK
    NoCredentialOutlivesClear
    SentOnlyToOrigin
PROPERTIES
    LatestRequestWins
