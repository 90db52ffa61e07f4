SPECIFICATION FairWatchSpec
CONSTANTS
    None = None
    Executor = {e1}
    Request = {r1}
    Kinds = {"market", "pending"}
    Volume = 2
    Ttl = 1
    LeaseTime = 1
    Grace = 1
    MaxTime = 1
    MaxCrashes = 1
    ReadsMayMiss = FALSE
    StoreMayFail = TRUE
    PromptDelivery = TRUE
    Overlap = 0
    ColdStart = 0
    Skew = 0
CHECK_DEADLOCK FALSE
INVARIANTS
    OutcomeIsTrue
    NotFoundMeansNoOrder
PROPERTIES
    ListedOrderIsReallyGone
    GoneOrderIsSettled
