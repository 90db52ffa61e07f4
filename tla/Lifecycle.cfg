SPECIFICATION FairSpec
CONSTANTS
    Services = 2
    Version <- Versions
    Good <- Sound
    MaxTick = 1
    MaxAsks = 1
    MaxLaunches = 2
    MaxExits = 2
    MaxInterrupts = 1
    MaxFailures = 1
CHECK_DEADLOCK FALSE
INVARIANTS
    NoOrphans
    StaleRestartOnce
    RegisterIsTrue
PROPERTIES
    RequestIsServed
