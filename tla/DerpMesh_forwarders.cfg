SPECIFICATION FairSpec
CONSTANTS
    Peers = {p1, p2, p3}
    Keys = {alice}
    Self = self
    None = None
    IdxMod = 256
    MaxWire = 2
    MaxChanges = 2
    MaxBreaks = 1
INVARIANTS
    TypeOK
    MeshMatches
PROPERTIES
    StickyForwarder
    MeshConverges
