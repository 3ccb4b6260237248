SPECIFICATION MissedSpec
CONSTANTS
  MaxUrbs = 3
  TdsPerUrb = 1
  MaxStalls = 0
  MaxMissed = 1
  EventsOverlap = FALSE
INVARIANTS ReturnedOnce
CHECK_DEADLOCK FALSE
