SPECIFICATION BridgeSpec
CONSTANTS
    None = None
    DeferredRx = 2
    FifoSize = 3
    MaxSerialData = 3
    MaxBursts = 3
    MaxErrors = 1
    MaxSerialOps = 5
INVARIANT XoffHonoured
CHECK_DEADLOCK FALSE
