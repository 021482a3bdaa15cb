SPECIFICATION Spec
CONSTANTS
    m1 = m1
    m2 = m2
    m3 = m3
    p1 = p1
    p2 = p2
    Messages <- TwoMessages
    Producers <- TwoProducers
    Capacity = 1
    DlqConfigured = TRUE
    MaxReceiveCount = 2
    MaxTime = 1
    U32Max = 3
    Usage <- AllCalls
SYMMETRY Symmetry
INVARIANTS
    TypeOK
    LockDiscipline
    NoDuplicate
    DeliveryCountHonest
    AttemptsBounded
    AttemptsAccounted
    NeverStalls
    NeverEarly
    ConnectionLostIsFinal
PROPERTIES
    FlushInDeadlineOrder
    LossesExplained
    DeadlocksStay
    KeepsContract
CHECK_DEADLOCK FALSE
