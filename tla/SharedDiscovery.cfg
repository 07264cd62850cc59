SPECIFICATION Spec
CONSTANTS
    Ops = {O1, O2}
    MaxLoads = 2
    MaxClears = 0
INVARIANT CancelsOnlyItself
CHECK_DEADLOCK FALSE
