CONSTANTS
  Clients = {c1, c2, c3}
  None = None
  Room = 3
  MaxCmds = 3
  Kinds = {"sync", "stop"}
  Smp = FALSE
SPECIFICATION FairSpec
PROPERTIES CommandsReturn
CHECK_DEADLOCK FALSE
