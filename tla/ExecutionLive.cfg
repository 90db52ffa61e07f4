SPECIFICATION FairSpec
CONSTANTS
    None = None
    Executor = {e1}
    Request = {r1, r2}
    Kinds = {"market"}
    Volume = 1
    Ttl = 1
    LeaseTime = 1
    Grace = 1
    MaxTime = 1
    MaxCrashes = 0
    ReadsMayMiss = FALSE
    StoreMayFail = FALSE
    PromptDelivery = FALSE
CHECK_DEADLOCK FALSE
PROPERTIES
    ConfirmedIsDecided
