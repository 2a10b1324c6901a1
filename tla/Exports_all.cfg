SPECIFICATION FairSpec
CONSTANTS
    Ids = {e1, e2}
    Lifetime = 2
    NoFile = NoFile
    Budget <- Everything
CHECK_DEADLOCK FALSE
INVARIANTS
    TypeOK
    ResetErases
    AnsweredUrlsResolve
PROPERTIES
    AnsweredFilesAreRemoved
