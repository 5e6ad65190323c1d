SPECIFICATION PartSpec
CONSTANTS
    None = None
    WordBits = 2
    ReplayWords = 3
    MaxCounter = 8
    Counters <- MCCounters
    RoutePeers = {p, q}
    Cidrs <- MCCidrs
    Addresses <- MCAddresses
    MaxRoutes = 3
    MaxPrefixes = 3
    MaxOrder = 4
    FwPeers = {x, y, z}
    OutPackets <- MCOut
    InPackets <- MCIn
    MaxEntries = 3
    MaxPerPeer = 2
    Timeout <- MCTimeout
    MaxFwTime = 3
    RateSources <- MCSources
    PerSec = 1
    CostMt = 3
    BurstOps = 2
    MaxBuckets = 2
    Interval = 3
    Burst = 2
    MaxRateTime = 4
    KeepaliveTimeout = 1
    RekeyTimeout = 1
    Jitter = {0}
    RekeyAttemptTime = 2
    RejectAfterTime = 2
    PersistentKeepalive = 1
    ResolveTimeout = 1
    NegativeTtl = 2
    MaxTimerTime = 2
    Slots = {s1, s2, s3}
    PeerIdx = {p1, p2}
    Indices = {i1, i2, i3}
    Keys = {pin, dyn, other}
    Pinned = {pin}
    RelayedKeys = {dyn}
    RelayOf <- MCRelayOf
    Parts = {"replay", "routes", "firewall", "rate", "timers", "sessions"}
INVARIANTS
    RoutesExact
    NeverLate
    TablesAgree
    RightPeer
PROPERTIES
    ImplementsAntiReplay
    ImplementsRouteCache
    Pinholes
    SharedFairly
    ImplementsBudgets
    PinnedKept
SYMMETRY Symmetry
VIEW View
CHECK_DEADLOCK FALSE
