SPECIFICATION FairSpec
CONSTANTS
    Keys = {k1}
    NoTx = NoTx
    Budget <- Everything
    MaxCalls = 3
INVARIANTS
    TypeOK
    AcknowledgedWritesLast
    CloseIsFinal
    BootstrapIsAtomic
    OperationsTakeTurns
PROPERTIES
    KeepsAtomicPromise
    CallsReturn
CHECK_DEADLOCK FALSE
