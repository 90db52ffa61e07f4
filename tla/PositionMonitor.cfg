SPECIFICATION FairSpec
CONSTANTS
    None = None
    Position = {p1}
    Pending = {p1}
    Size = 2
    Overlap = 1
    ColdStart = 3
    Skew = 1
    MaxTime = 3
    MaxFaults = 2
CHECK_DEADLOCK FALSE
INVARIANTS
    ClosedIsGone
    NoExitCountedTwice
PROPERTIES
    ProgressIsKept
    OneExitCloses
