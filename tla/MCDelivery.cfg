SPECIFICATION Spec
CONSTANTS
    NumGroups = 2
    Size <- MCSize
    Proactive <- MCProactive
    MaxInstances = 2
    MaxAdverse = 1
INVARIANTS
    TypeOK
    NoBlindResend
    CancelledIsSilent
    GroupReflectsChunks
    CompletedTurnDelivered
    OwnEchoNeverHuman
PROPERTIES
    KeepsPromise
CHECK_DEADLOCK FALSE
