CONSTANTS
  PerSeg = 2
  InitSegs = 2
  CacheBlocks = 4
  UrbShapes <- LongUrbs
  MaxTrbs = 9
SPECIFICATION Spec
INVARIANTS ExecutesInOrder
CHECK_DEADLOCK FALSE
