SPECIFICATION Spec
CONSTANTS
    Confirmation <- SlowEnter
    CooldownSeconds = 2
    NoState = NoState
    TimerIds = {t1, t2, t3}
    NoTimer = NoTimer
    NoTransition = NoTransition
    Budget <- Cancelled
    MaxQueue = 1
    MaxGeneration = 2
    Together <- Anything
    MaxTime = 3
SYMMETRY TimerSymmetry
PROPERTIES
    DuplicateEndsEpisode
