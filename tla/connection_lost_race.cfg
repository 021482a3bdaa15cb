SPECIFICATION Spec
CONSTANTS
    m1 = m1
    m2 = m2
    m3 = m3
    p1 = p1
    p2 = p2
    Messages <- OneMessage
    Producers <- OneProducer
    Capacity = 1
    DlqConfigured = TRUE
    MaxReceiveCount = 2
    MaxTime = 0
    U32Max = 3
    Usage = {"send", "receive", "drop_producer", "ack"}
PROPERTIES
    NothingSentIsLeft
CHECK_DEADLOCK FALSE
