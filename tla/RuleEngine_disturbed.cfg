SPECIFICATION Spec
CONSTANTS
    Confirmation <- SlowEnter
    CooldownSeconds = 2
    NoState = NoState
    TimerIds = {t1, t2}
    NoTimer = NoTimer
    NoTransition = NoTransition
    Budget <- Everything
    MaxQueue = 1
    MaxGeneration = 2
    MaxTime = 2
    Together <- Pairs
SYMMETRY TimerSymmetry
INVARIANTS
    EventsFollowGenerations
    EventsWaitForDeadline
PROPERTIES
    SuspendedIsQuiet
    EventsNeedDefiniteReading
