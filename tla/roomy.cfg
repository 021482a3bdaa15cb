SPECIFICATION FairSpec
CONSTANTS
    m1 = m1
    m2 = m2
    m3 = m3
    p1 = p1
    p2 = p2
    Messages <- TwoMessages
    Producers <- OneProducer
    Capacity = 2
    DlqConfigured = TRUE
    MaxReceiveCount = 2
    MaxTime = 1
    U32Max = 3
    Usage = {"send", "send_at", "try_receive", "ack", "nack"}
INVARIANTS
    NeverBlocked
PROPERTIES
    EventuallySettled
CHECK_DEADLOCK FALSE
