CONSTANTS
    NumFacts = 2
    Instances = {i1, i2}
    BatchSize = 2
    MaxAttempts = 2
    MaxCrashes = 1
    MaxEarly = 1
SPECIFICATION FairSpec
INVARIANTS
    TypeOK
    DeadLetterEarned
    AttemptsExact
    OverlapNeedsExpiry
    SettledOneWay
PROPERTIES
    ImplementsDelivery
    EventuallySettled
CHECK_DEADLOCK FALSE
