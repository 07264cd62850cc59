SPECIFICATION Spec
CONSTANTS
    Calls = {K1, K2, K3}
    MaxGen = 3
INVARIANTS
    TypeOK
    ChildOwned
    OpenClientIsLive
PROPERTIES
    NoThirdTry
    StopStops
    CallsReturn
CHECK_DEADLOCK FALSE
