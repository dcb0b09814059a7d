CONSTANTS
  Thread <- TwoThreads
  NumKeys = 3
  NumOffsets = 5
  NumElems = 2
  Deleted = {2}
  LockOf <- FourLocks
  Workloads <- HashWorkloads
  Rebuilder = "hash"
  MaxCalls = 2
  MaxCrashes = 2
  None = None
SPECIFICATION Spec
INVARIANTS ListWhole IndexMatchesList CollectionKept
PROPERTIES Settles
CHECK_DEADLOCK FALSE
