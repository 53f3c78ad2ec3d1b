SPECIFICATION FairSpec
CONSTANTS
    a1 = a1
    a2 = a2
    a3 = a3
    w = w
    alice = alice
    peer = peer
    None = None
    Conns = {a1, a2, a3, w}
    Keys <- MCKeys
    KeyOf <- MCKeyOf
    CanMesh = {w}
    MaxHistory = 2
    MaxQueue = 2
INVARIANTS
    TypeOK
    SetsMatch
    WatcherInSync
PROPERTIES
    UpdatesArrive
