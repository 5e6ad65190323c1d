\* A record looked up by its address, and removed in the registry.
SPECIFICATION PartSpec
CONSTANTS
    None = None
    NotFound = NotFound
    Failed = Failed
    k1 = k1
    Parts = {"host"}
    PeerKeys = {k1}
    InnerAddrs = {a1}
    Owner <- OneOwner
    RequestIds = {i1, i2}
    PeerSlots = 1
    CommandDepth = 1
    MaxVersion = 1
    MaxFaults = 0
    Removals = TRUE
    Refusals = FALSE
    Remotes = {r1, r2, r3}
    TablePeers = 2
    ChannelDepth = 2
    MaxAsks = 3
    MaxPublished = 0
    MaxLinkFaults = 0
INVARIANTS HeldIsWatched
CHECK_DEADLOCK FALSE
