SPECIFICATION ConsumerSpec
CONSTANTS
  h1 = h1
  h2 = h2
  None = None
  Handlers = {h1, h2}
  MaxConnections = 3
  MaxFaults = 2
  Reconnects = TRUE
  CloseMayFail = FALSE
INVARIANTS
  ConsumersAreRegistrations
  ExitedIsClosed
PROPERTIES
  EventuallyConsumed
  ExitReturns
  ImplementsChannel
CHECK_DEADLOCK FALSE
