SPECIFICATION FairSpec
CONSTANTS
    ActivationMove = 2
    MinimumLock = 0
    TrailPercent = 45
    TightenPercent = 70
    TightenGiveback = 1
    EmergencyGiveback = 2
    ExecutableBuffer = 0
    InitialStop <- Minus1
    Executor = {e1, e2}
    LowestMove <- Minus1
    HighestMove = 2
    MaxFaults = 1
CHECK_DEADLOCK FALSE
INVARIANTS
    CompletedCloseIsTrue
PROPERTIES
    ImplementsAtMostOnce
    StopNeverLoosens
    ExitIsFinal
    RequestedExitIsDone
