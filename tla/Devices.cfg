SPECIFICATION MCFairSpec
CONSTANTS
  Hubs = {"h1", "h2"}
  MaxSlots = 2
  MaxDevices = 4
  MaxFailures = 2
  Serial = TRUE
  Eps = {1, 2}
  IsocEps = {2}
  MaxChanges = 3
  Faults = {"memory", "refused", "reset", "death"}
  Ports = {1}
  MaxPlugs = 3
  MaxSuspends = 2
  MaxWakes = 2
  MaxSlow = 1
  Overlap = FALSE
  NumBlocks = 3
  Isoc = {"u1", "u2"}
  Needs <- MCNeeds
  FirstContexts = 1
  GrowBy = 2
  MaxContexts = 3
  MaxSegments = 1
  MaxFaults = 1
  ReplyUrbs = 4
  Outstanding = 2
  MaxLag = 2
  EventPipe = "bulk"
  MaxReads = 6
  MaxTransfers = 2
  LoopUrbs = 2
  Fails = {"configure", "memory", "alloc"}
  EventOutlasts = FALSE
  MaxMessages = 3
  MaxDeviceSuspends = 2
INVARIANTS     RunsItsOwnData RequestsRight EventsFindHost PoolsOutlive  
PROPERTIES   IsocUrbsServed 
CHECK_DEADLOCK FALSE
