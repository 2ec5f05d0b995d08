\* One part at a time; the bounds are those of each part.  A part may stop: its
\* messages, operations, queries or connections are bounded, or the program ends.
SPECIFICATION PartsSpec
CONSTANTS
    Backends = {"sqlite", "mysql", "postgres", "mongodb"}
    Versions = {1, 2}
    None = None
    Null = Null
    Thrown = Thrown
    Garbage = Garbage
    MAX_LABEL_LENGTH = 16
    StandardSize = 60
    Bad = Bad
    Unprintable = {20}
    MaxSize = 400
    MaxSends = 2
    StartBackends = {"sqlite", "mongodb"}
    Databases = {"sqlite", "mysql", "mongodb"}
    MaxOperations = 2
    Ips = {1,2}
    NumParallel = 1
    UdpTicks = 2
    MaxBuffer = 1
    MaxQueries = 2
    Threads = {1, 2}
    MaxBatch = 2
INVARIANTS
    DeletesOnlyTheirs
    Unaltered
    MessagesComeBack
    ServesWhole
    ListsWhole
    
    GivenToTheLiving
PROPERTIES
    RowsComeBack
    ImplementsTable
    QueryEnds
    EndsWhenTold
CHECK_DEADLOCK FALSE
