SPECIFICATION Spec
CONSTANTS
    L1 = L1
    L2 = L2
    T1 = T1
    T2 = T2
    C1 = C1
    C2 = C2
    S1 = S1
    S2 = S2
    R1 = R1
    Requests <- MCRequests
    Leases = {L1, L2}
    Turns = {T1, T2}
    CallIds = {C1, C2}
    RpcIds = {R1}
    Signals = {S1, S2}
    MaxResults = 2
    NoRequest = NoRequest
    NoSignal = NoSignal
    AnyLease = AnyLease
    NoChain = NoChain
INVARIANTS
    TypeOK
    MapsAgree
    TimersAndListenersOwned
    WaitingUnanswered
PROPERTIES
    RecordedOnlyForOwner
    EveryCallSettles
CHECK_DEADLOCK FALSE
