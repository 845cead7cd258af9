SPECIFICATION FairSpec
CONSTANTS
    a = a
    b = b
    Records = {1, 2}
    Relays = {a, b}
    BatchSize = 2
    MaxAttempts = 2
    LeaseMayLapse = TRUE
    MaxFaults = 1
INVARIANTS
    SentWasPublished
    ParkedAfterMaxAttempts
PROPERTY
    EventuallySettled
CHECK_DEADLOCK FALSE
