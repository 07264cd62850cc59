SPECIFICATION Spec
CONSTANTS
    Ops = {O1, O2, O3}
    MaxLoads = 2
    MaxClears = 1
INVARIANTS
    TypeOK
    NoModelsFromBeforeClear
    OneLoadInFlight
PROPERTIES
    DisposeReturns
CHECK_DEADLOCK FALSE
