SPECIFICATION Spec
CONSTANTS
    Callers = {C1}
    MaxLifecycle = 1
    MaxRequests = 1
PROPERTY RefreshesEnd
CHECK_DEADLOCK FALSE
