CONSTANTS
  t1 = t1
  t2 = t2
  Thread <- TwoThreads
  NumSegments = 3
  SegmentBlocks = 4
  MaxToken = 2
  SmallLimit = 3
  SizeInterval = 1
  MaxAdjacent = 8
  MinMovable = 2
  Workloads <- AllWorkloads
SPECIFICATION Spec
INVARIANTS OneOwner FreeSpaceListed RecordsFound
PROPERTIES AllocateReturns
CHECK_DEADLOCK FALSE
