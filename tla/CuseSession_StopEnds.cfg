SPECIFICATION CuseFairSpec
CONSTANTS
    None = None
    Opens = {}
    Others = {"r1"}
    MaxStops = 1
PROPERTY StopEnds
CHECK_DEADLOCK FALSE
