SPECIFICATION Spec
CONSTANTS
    h1 = h1
    h2 = h2
    z1 = z1
    z2 = z2
    Horizons = {h1, h2}
    InitialHorizons = {h1, h2}
    ZoneIds = {z1, z2}
    NilId = NilId
    NoZone = NoZone
    Unread = Unread
    Fallible = {"NS"}
    Apexes <- MCApexes
    Records <- MCRecords
    Payloads <- MCPayloads
    Wanted <- MCWanted
    Folded <- MCFolded
SYMMETRY Symmetry
INVARIANTS
  Coherent
  ZonesAgree
