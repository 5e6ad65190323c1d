\* Lookups by key, with removals, refusals, evictions and lost connections.
SPECIFICATION PartSpec
CONSTANTS
    None = None
    NotFound = NotFound
    Failed = Failed
    k1 = k1
    Parts = {"host", "device"}
    PeerKeys = {k1, k2}
    InnerAddrs = {}
    Owner <- OneOwner
    RequestIds = {i1, i2}
    PeerSlots = 1
    CommandDepth = 1
    MaxVersion = 1
    MaxFaults = 1
    Removals = TRUE
    Refusals = TRUE
    Remotes = {r1, r2, r3}
    TablePeers = 2
    ChannelDepth = 2
    MaxAsks = 2
    MaxPublished = 1
    MaxLinkFaults = 1
SYMMETRY Symmetry
INVARIANTS AnsweredAndFresh
PROPERTIES StaysInStep
CHECK_DEADLOCK FALSE
