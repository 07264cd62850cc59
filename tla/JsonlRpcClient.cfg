SPECIFICATION Spec
CONSTANTS
    Calls = {c1, c2}
    ServerIds = {s1}
    MaxLines = 3
    NoId = NoId
    Idle = Idle
INVARIANTS
    TypeOK
    NoStrandedWrite
    ConversationIsSound
    DeliveredInOrder
PROPERTIES
    RequestsSettle
CHECK_DEADLOCK FALSE
