SPECIFICATION FairSpec
CONSTANTS
    Confirmation <- SlowEnter
    CooldownSeconds = 1
    NoState = NoState
    TimerIds = {t1, t2}
    NoTimer = NoTimer
    NoTransition = NoTransition
    Budget <- Calm
    MaxQueue = 1
    MaxGeneration = 2
    Together <- Anything
    MaxTime = 3
    p0 = p0
    p1 = p1
    p2 = p2
    p3 = p3
    p4 = p4
    Points = {p0, p1, p2, p3, p4}
    Metres <- Apart
    ExitMargin = 2
    MaxAccuracy = 1
    Missing = Missing
    Malformed = Malformed
    Instants = {0, 1, 2, 3}
    Lengths = {0, 1, 2}
INVARIANTS
    ReadingDecides
PROPERTIES
    PendingResolves
