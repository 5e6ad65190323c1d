SPECIFICATION PartSpec
CONSTANTS
    None = None
    Servers = {"rfc2217", "shell"}
    Bauds = {1, 2}
    MaxRequests = 4
    Payload = {"x", "IAC", "SE"}
    SbCap = 1
    MaxBody = 2
    MaxItems = 2
    DeferredRx = 2
    FifoSize = 3
    MaxSerialData = 3
    MaxBursts = 3
    MaxErrors = 1
    MaxSerialOps = 5
    TxLimit = 2
    RxLimit = 2
    IoChunk = 2
    Inputs <- MCInputs
    Ports <- MCPorts
    Unsupported = 2
    MaxCalls = 3
    Frames <- MCFrames
    MaxFrames = 3
    BufferLen = 3
    MaxControl = 1
    KeyLen = 2
    MaxPushes = 1
    FileBlocks = 6
    Modulus = 5
    StartRetries = 2
    MaxRetries = 1
    MaxLate = 4
    MaxMangled = 2
    Containers <- MCContainers
    SigningKey = "k"
    Vid = "v"
    Cid = "c"
    MinVersion = 2
    MaxImage = 2
    MaxProtected = 8
    Word <- MCWord
    Sector = 4
    Capacity <- MCCapacity
    SlotLen <- MCSlotLen
    DescAt = 1
    DescLen = 2
    Lengths = {2, 5, 8, 9}
    NewImages <- MCNewImages
    MaxSeq = 6
    MaxLosses = 3
    StmImages <- MCStmImages
    MaxResets = 3
    Parts = {"esp"}
INVARIANT PowerFailSafe
CHECK_DEADLOCK FALSE
