SPECIFICATION Spec
CONSTANTS
    Confirmation <- SlowEnter
    CooldownSeconds = 2
    NoState = NoState
    TimerIds = {t1, t2, t3}
    NoTimer = NoTimer
    NoTransition = NoTransition
    Budget <- Crashes
    MaxQueue = 1
    MaxGeneration = 3
    Together <- Anything
    MaxTime = 4
SYMMETRY TimerSymmetry
INVARIANTS
    TypeOK
    CooldownSeparatesEvents
    RowRemembersEvents
    MemoryIsPersisted
    PendingIsTimed
    PublishedOnce
PROPERTIES
    KeepsJournalPromise
