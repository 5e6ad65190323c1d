SPECIFICATION PartSpec
CONSTANTS
    None = None
    Documents <- MCDocuments
    FirstDocument <- MCFirstDocument
    OwnKey = "own"
    OwnPrefix = "o"
    LearnedEndpoints = {"e2"}
    Subscribers = {"c1", "c2"}
    StreamDepth = 1
    EventRoom = 1
    MaxEdits = 2
    MaxLearned = 1
    MaxQueries = 2
    Callers = {k1, k2}
    Conns = {c1, c2}
    MaxConnections = 1
    Burst = 1
    MaxReloads = 3
    Keys = {k1, k2}
    Endpoints = {e1, e2}
    MaxPending = 1
    Backlog = 1
    QueueDepth = 2
    MaxSegments = 5
    MaxMoves = 1
    Hosts = {"h1", "h2"}
    ClientKey <- MCClientKey
    Slots = 2
    MaxExchanges = 2
    Opens = {"o1", "o2"}
    Others = {"r1"}
    MaxStops = 2
    Parts = {"local", "remote", "admission", "net", "dhcp", "cuse"}
INVARIANTS
    ChangesReachHolders
    RelaysServed
    NeverLockedOut
    StreamsAttributed
    LeasesExclusive
    TornDownCleanly
CHECK_DEADLOCK FALSE
