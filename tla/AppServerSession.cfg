SPECIFICATION Spec
CONSTANTS
    Leases = {L1}
    MaxClients = 2
    MaxEvents = 2
INVARIANTS
    TypeOK
    NoEventLost
    EveryLeaseHearsExit
    DisposedForGood
PROPERTIES
    CallsReturn
CHECK_DEADLOCK FALSE
