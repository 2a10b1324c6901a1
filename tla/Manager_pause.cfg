SPECIFICATION Spec
CONSTANTS
    Rules = {1, 2}
    Calls = {c1, c2}
    Start = Start
    Stop = Stop
    Nobody = Nobody
    Requests <- SomeBodies
    Budget <- Unsteady
CHECK_DEADLOCK FALSE
SYMMETRY CallSymmetry
INVARIANTS
    TypeOK
    PauseIsQuiet
    OneEnginePerRule
    ObservationResumes
    StopSilencesEngines
    ErrorsAreRefusals
