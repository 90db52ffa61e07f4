SPECIFICATION FairSpec
CONSTANTS
    None = None
    LastCandle = 4
    Detection <- Three
    At <- TwoOnFirst
    Opposite <- ThirdEndsFirst
    Batch = 1
    Reach = 2
    Horizon = 2
    Tolerance = 0
    MaxRestarts = 1
    MaxOutages = 1
    MaxFaults = 1
CHECK_DEADLOCK FALSE
INVARIANTS
    OnlyTheWindowLoses
    CleanStopLeavesNothing
    CompleteIsContiguous
PROPERTIES
    NeverDrops
    OutcomeIsFrozen
    QueuedIsDelivered
