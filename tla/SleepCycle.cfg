SPECIFICATION SleepSpec
CONSTANTS
    None = None
    Symbol = {gold, silver}
    Day = 8
    OpenTime = 7
    CloseTime = 6
    Preopen = 1
    Lead = 1
    Confirm = 1
    Winter = 0
    Summer = 2
    Start <- FridayNoon
    LastTick <- SecondOpen
    MaxFaults = 1
    MaxRestarts = 1
CHECK_DEADLOCK FALSE
INVARIANTS
    CloseIsReviewed
PROPERTIES
    ParksOncePerClose
