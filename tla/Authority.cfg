SPECIFICATION MCSpec
CONSTANTS
    h1 = h1
    z1 = z1
    z2 = z2
    Horizons = {h1}
    InitialHorizons = {h1}
    ZoneIds = {z1, z2}
    NilId = NilId
    NoZone = NoZone
    Unread = Unread
    Recursive = {}
    Fallible = {"NS"}
    Apexes <- MCApexes
    Records <- MCRecords
    Payloads <- MCPayloads
    Wanted <- MCWanted
    Folded <- MCFolded
    Databases <- MCDatabases
    Questions <- MCQuestions
INVARIANTS
    ChainsLeadToTheAnswers
    DenialsAreTrue
    ReferralsAreToACut
    RepliesIgnoreTheCache
