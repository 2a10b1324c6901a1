SPECIFICATION FairSpec
CONSTANTS
    Ids = {e1}
    Lifetime = 1
    NoFile = NoFile
    Budget <- Erased
CHECK_DEADLOCK FALSE
PROPERTIES
    ExportFilesAreRemoved
