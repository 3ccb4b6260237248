CONSTANTS
  PerSeg = 2
  InitSegs = 2
  CacheBlocks = 4
  UrbShapes <- MixedUrbs
  MaxTrbs = 8
SPECIFICATION FairKeepsUpSpec
INVARIANTS ExecutesInOrder RingsAgree
PROPERTIES ImplementsAccounting UrbsComplete
CHECK_DEADLOCK FALSE
