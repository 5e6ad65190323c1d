\* A network that delivers or loses every datagram before a timer fires.
SPECIFICATION FairPartSpec
CONSTANTS
    None = None
    Parts = {"handshake", "resolver", "gate", "sync"}
    a = a
    b = b
    Nodes = {a, b}
    Other <- MCOther
    Persistent = {}
    Timely = TRUE
    MaxTs = 6
    MaxResp = 6
    MaxEvents = 4
    Keys = {k1}
    Addrs = {a1}
    Ids = {i1, i2}
    MaxPeers = 1
    DynamicRoutes = 1
    LazyReserve = 0
    MaxInflight = 2
    MaxInitiations = 1
    GateAddrs = {"a1", "a2"}
    CookieRefreshTime = 3
    HandshakesPerSec = 1
    MaxNames = 5
    MaxWire = 2
    MaxLosses = 1
    Loaded = {"i", "r"}
    Verdicts = {TRUE}
    Prompt = TRUE
    NotFound = NotFound
    Failed = Failed
    PeerKeys = {r1}
    InnerAddrs = {x1}
    Owner <- OneOwner
    RequestIds = {q1, q2}
    PeerSlots = 1
    CommandDepth = 2
    MaxVersion = 1
    MaxFaults = 1
    Removals = FALSE
    Refusals = FALSE
PROPERTIES StaysInStep StaleIsReconciled Heals Quiesces LookupsSettle GetsThrough
CHECK_DEADLOCK FALSE
