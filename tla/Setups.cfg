SPECIFICATION Spec
CONSTANTS
    None = None
    Anchor <- LevelAndAverage
    Day = {1, 2}
    LastCandle = 7
    Calendar <- Days
    Expiry = 2
    MaxFaults = 2
CHECK_DEADLOCK FALSE
INVARIANTS
    OneOpenPerDirection
    OnlyContinuationIsRefused
