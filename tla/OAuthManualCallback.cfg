SPECIFICATION Spec
CONSTANTS
    Callers = {C1}
    MaxLifecycle = 1
    MaxRequests = 1
INVARIANT ManualCallbackSignsIn
CHECK_DEADLOCK FALSE
