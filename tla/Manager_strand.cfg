SPECIFICATION Spec
CONSTANTS
    Rules = {1, 2}
    Calls = {c1, c2}
    Start = Start
    Stop = Stop
    Nobody = Nobody
    Requests <- Bodies
    Budget <- Stranding
CHECK_DEADLOCK FALSE
INVARIANTS
    GoneEntriesDoNotListen
