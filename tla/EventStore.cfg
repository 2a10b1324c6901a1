SPECIFICATION Spec
CONSTANTS
    EventIds = {e1, e2}
    Journals = {j1, j2}
    Rules = {r1}
    Bases = {base}
    None = None
    MaxQueue = 2
    MaxRevisions = 2
    MaxTime = 1
    MaxDisturbed = 1
SYMMETRY RowSymmetry
INVARIANTS
    TypeOK
    TrailExplainsStatus
    TrailInOrder
    EnginesCanSave
PROPERTIES
    PurgeIsComplete
    KeepsAuditPromise
