SPECIFICATION Spec
CONSTANTS
    None = None
    Executor = {e1, e2}
    Request = {r1}
    Kinds = {"market", "pending"}
    Volume = 2
    Ttl = 2
    LeaseTime = 1
    Grace = 2
    MaxTime = 3
    MaxCrashes = 1
    ReadsMayMiss = TRUE
    StoreMayFail = TRUE
    PromptDelivery = FALSE
CHECK_DEADLOCK FALSE
SYMMETRY Symmetry
INVARIANTS
    AtMostOneOrder
    OnlyAuthorisedOrders
    FailureMeansNoOrder
PROPERTIES
    SettledStays
    ImplementsOneOrder
