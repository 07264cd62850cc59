SPECIFICATION Spec
CONSTANTS
    Callers = {C1, C2}
    MaxLifecycle = 2
    MaxRequests = 2
INVARIANTS
    TypeOK
    StoredIsCurrent
    OneRefreshPerGeneration
    NoPortLeftOpen
PROPERTIES
    EveryoneAnswered
CHECK_DEADLOCK FALSE
