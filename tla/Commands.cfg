CONSTANTS
  Clients = {c1, c2}
  None = None
  Room = 3
  MaxCmds = 4
  Kinds = {"sync", "stop", "reset"}
  Smp = FALSE
  MaxUrbs = 2
  TdsPerUrb = 2
  MaxStalls = 2
  MaxMissed = 0
  EventsOverlap = FALSE
SPECIFICATION MCFairSpec
INVARIANTS TimerCoversHead CommandsMatch ReturnedOnce CancelCovered RecoveryIsRight
PROPERTIES CommandsAnswered WatchdogNotEarly 
CHECK_DEADLOCK FALSE
