SPECIFICATION FairSpec
CONSTANTS
    m1 = m1
    m2 = m2
    m3 = m3
    p1 = p1
    p2 = p2
    Messages <- ThreeMessages
    Producers <- TwoProducers
    Capacity = 2
    DlqConfigured = TRUE
    MaxReceiveCount = 2
    MaxTime = 0
    U32Max = 3
    Usage = {"send", "receive", "ack", "clone_producer", "drop_producer"}
PROPERTIES
    AcceptedIsReceived
    ReceiveEndsWithProducers
    QueueMovesOn
CHECK_DEADLOCK FALSE
