SPECIFICATION Spec
CONSTANTS
    G1 = G1
    G2 = G2
    G3 = G3
    C1 = C1
    C2 = C2
    R1 = R1
    Gens = {G1, G2}
    Starters = {G1, G2}
    ToolCalls <- MCToolCallsOfTwo
    CallIds = {C1, C2}
    RpcIds = {R1}
    NoGen = NoGen
    NoCall = NoCall
    MaxNotes = 1
    HasProcessExit = TRUE
INVARIANT WaitingCallsAnswerable
CHECK_DEADLOCK FALSE
