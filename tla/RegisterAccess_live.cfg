SPECIFICATION MCFairSpec
CONSTANTS
  c1 = c1
  c2 = c2
  port = port
  Clients = {c1, c2, port}
  PortWorker = port
  Interruptible = {c2}
  RxUrbs = 1
  MaxCalls = 2
  MaxEvents = 0
  Unreliable = TRUE
  TimeoutsHappen = TRUE
PROPERTY CallsReturn
