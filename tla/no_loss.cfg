SPECIFICATION Spec
CONSTANTS
    m1 = m1
    m2 = m2
    m3 = m3
    p1 = p1
    p2 = p2
    Messages <- ThreeMessages
    Producers <- OneProducer
    Capacity = 1
    DlqConfigured = TRUE
    MaxReceiveCount = 2
    MaxTime = 1
    U32Max = 3
    Usage = {"send", "send_at", "receive", "try_receive", "ack", "nack"}
SYMMETRY Symmetry
INVARIANTS
    NoSilentLoss
PROPERTIES
    KeepsContract
CHECK_DEADLOCK FALSE
