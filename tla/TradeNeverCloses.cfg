SPECIFICATION FairSpec
CONSTANTS
    None = None
    Position = {p1}
    Pending = {}
    Size = 2
    Overlap = 0
    ColdStart = 2
    Skew = 0
    MaxTime = 2
    MaxFaults = 0
CHECK_DEADLOCK FALSE
PROPERTIES
    GoneTradeCloses
