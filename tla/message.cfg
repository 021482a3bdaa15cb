SPECIFICATION Spec
CONSTANTS
    None = None
    HeaderKeys <- SomeKeys
    BadKeys <- SomeBad
    Values <- SomeValues
    MaxCalls = 4
    MaxAttempts = 3
    MaxTime = 2
INVARIANTS
    TypeOK
    EveryMessageValid
    LastCallWins
    RejectionJustified
    DeliveredAsBuilt
PROPERTIES
    FirstDeliveryStable
CHECK_DEADLOCK FALSE
