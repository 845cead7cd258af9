SPECIFICATION OutboxSpec
CONSTANTS
    a = a
    b = b
    c1 = c1
    c2 = c2
    t1 = t1
    t2 = t2
    None = None
    Records = {1, 2}
    Relays = {a, b}
    BatchSize = 2
    MaxAttempts = 2
    LeaseMayLapse = FALSE
    MaxFaults = 1
    Contexts = {c1, c2}
    Transactions = {t1, t2}
    Structured = TRUE
INVARIANTS
    OneRelayPerRecord
    CommittedIsKept
    PublishedOnlyIfCommitted
PROPERTY
    ImplementsDelivery
SYMMETRY Symmetry
CHECK_DEADLOCK FALSE
