\* Any network: datagrams may arrive late, twice, out of order or never.
SPECIFICATION PartSpec
CONSTANTS
    None = None
    Parts = {"handshake", "gate", "resolver"}
    a = a
    b = b
    Nodes = {a, b}
    Other <- MCOther
    Persistent = {a, b}
    Timely = FALSE
    MaxTs = 2
    MaxResp = 2
    MaxEvents = 3
    Keys = {k1, k2}
    Addrs = {a1}
    Ids = {i1, i2, i3}
    MaxPeers = 2
    DynamicRoutes = 2
    LazyReserve = 1
    MaxInflight = 2
    MaxInitiations = 1
    GateAddrs = {"a1", "a2"}
    CookieRefreshTime = 2
    HandshakesPerSec = 1
    MaxNames = 2
    MaxWire = 2
    MaxLosses = 1
    Loaded = {"r"}
    Verdicts = {TRUE}
    Prompt = FALSE
    NotFound = NotFound
    Failed = Failed
    PeerKeys = {r1}
    InnerAddrs = {x1}
    Owner <- OneOwner
    RequestIds = {q1, q2}
    PeerSlots = 1
    CommandDepth = 2
    MaxVersion = 2
    MaxFaults = 1
    Removals = FALSE
    Refusals = FALSE
SYMMETRY Symmetry
INVARIANTS DataHasReader AddressProofIsFresh LookupsOwned
PROPERTIES SessionAgreed AdmissionKept
CHECK_DEADLOCK FALSE
