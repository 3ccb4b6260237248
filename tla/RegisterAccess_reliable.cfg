SPECIFICATION MCFairSpec
CONSTANTS
  c1 = c1
  c2 = c2
  port = port
  Clients = {c1, c2, port}
  PortWorker = port
  Interruptible = {}
  RxUrbs = 1
  MaxCalls = 2
  MaxEvents = 2
  Unreliable = FALSE
  TimeoutsHappen = FALSE
INVARIANTS NoSpuriousFailure
PROPERTIES PortEventsServed
