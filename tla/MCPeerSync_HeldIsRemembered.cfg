\* A table that is full, and no fault at all.
SPECIFICATION PartSpec
CONSTANTS
    None = None
    NotFound = NotFound
    Failed = Failed
    k1 = k1
    Parts = {"device"}
    PeerKeys = {k1}
    InnerAddrs = {}
    Owner <- OneOwner
    RequestIds = {i1, i2}
    PeerSlots = 1
    CommandDepth = 1
    MaxVersion = 0
    MaxFaults = 1
    Removals = FALSE
    Refusals = FALSE
    Remotes = {r1, r2, r3}
    TablePeers = 2
    ChannelDepth = 2
    MaxAsks = 3
    MaxPublished = 0
    MaxLinkFaults = 0
INVARIANTS HeldIsRemembered
CHECK_DEADLOCK FALSE
