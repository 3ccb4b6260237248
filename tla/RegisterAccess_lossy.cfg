SPECIFICATION MCSpec
CONSTANTS
  c1 = c1
  c2 = c2
  port = port
  Clients = {c1, c2, port}
  PortWorker = port
  Interruptible = {}
  RxUrbs = 2
  MaxCalls = 3
  MaxEvents = 1
  Unreliable = TRUE
  TimeoutsHappen = TRUE
INVARIANTS LockedByOne ReadReturnsOwnAnswer QuietWhenUnlocked
