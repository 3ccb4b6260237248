CONSTANTS
  Clients = {c1, c2, c3}
  None = None
  Room = 3
  MaxCmds = 3
  Kinds = {"sync"}
  Smp = TRUE
SPECIFICATION Spec
INVARIANTS TimerCoversHead
CHECK_DEADLOCK FALSE
