SPECIFICATION FairSpec
CONSTANTS
    None = None
    Alert = {a1}
    Observer = {o1}
    Ttl = 1
    d1 = d1
    d2 = d2
    j1 = j1
    Detection = {d1, d2}
    Setup = {s1}
    Journey = {j1}
    Bot = {b1, b2}
    JourneyOf <- Journeys
    Window = 3
    LastVersion = 2
    MaxLoad = 2
    Weight <- Weights
    MaxTroubles = 1
CHECK_DEADLOCK FALSE
INVARIANTS
    ReminderIsTrue
    NewIsAnnounced
    CardShowsLast
PROPERTIES
    ImplementsAtMostOnce
    SweepsGoOn
