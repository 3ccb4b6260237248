SPECIFICATION MCSpec
CONSTANTS
  PerSeg = 3
  InitSegs = 2
  MaxUrb = 5
  MaxTotal = 12
  Smp = FALSE
  Segs = 3
  WalkPerSeg = 4
  MaxTrbs = 3
  MaxLen = 3
  MaxNoops = 1
  CtrlNoops = 0
  Boundary = 4
  Block = 2
  MaxPacket = 2
  SizeCap = 3
  Unit = 2
  MaxBytes = 9
  MaxStart = 5
  Misaligned = 0
  NumPorts = 4
  MaxUsb2 = 3
  MaxUsb3 = 2
  MaxCaps = 3
  Width = 16
  Numbers = {1, 15}
  Sizes = {1, 64, 1024}
INVARIANTS FreeCount StaysOutOfDequeueSegment RoomKept WalksAreRight  LayoutIsRight PortsRight ParamsRight
CHECK_DEADLOCK FALSE
