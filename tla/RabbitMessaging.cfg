SPECIFICATION MessagingSpec
CONSTANTS
    m1 = m1
    m2 = m2
    Messages = {m1, m2}
    Configurations <- MCConfigurations
INVARIANTS
    NeverLost
    DeadAfterRetries
    ClosingHidesNothing
PROPERTIES
    EmitsReturn
    EventuallySettled
CHECK_DEADLOCK FALSE
