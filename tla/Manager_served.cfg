SPECIFICATION FairSpec
CONSTANTS
    Rules = {1}
    Calls = {c1, c2}
    Start = Start
    Stop = Stop
    Nobody = Nobody
    Requests <- SomeBodies
    Budget <- Troubled
CHECK_DEADLOCK FALSE
INVARIANTS
    EntryLeavesNothing
PROPERTIES
    RebuildRestores
    CallsAreServed
    TeardownEnds
