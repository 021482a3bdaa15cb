SPECIFICATION FairSpec
CONSTANTS
    m1 = m1
    m2 = m2
    Messages <- TwoMessages
    MaxTime = 1
    MaxAttempts = 2
    MayLose = TRUE
    MaxBatch = 2
    Backends <- BareAndMemory
INVARIANTS
    TypeOK
    ScheduleHonoured
    AtMostOneAfterShutdown
PROPERTIES
    BatchPrefix
    BatchBounds
    StrandedExplained
    
    GracefulStops
CHECK_DEADLOCK FALSE
