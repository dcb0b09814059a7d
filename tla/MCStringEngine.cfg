CONSTANTS
  t1 = t1
  t2 = t2
  c1 = c1
  None = None
  Thread <- TwoThreads
  Cleaner <- OneCleaner
  SlotOf <- OwnSlots
  NumSlots = 2
  Batcher <- Nobody
  Snapshotter <- TwoThreads
  MaxSnapshots = 1
  MaxAdvance = 1
  kMaxTimestamp = 4
  NumKeys = 1
  MaxRecords = 3
  Workloads <- AllWorkloads
  TSO = FALSE
SPECIFICATION Spec
INVARIANTS NoUseAfterFree OnePlace SnapshotViewKept CrashRecovers
CHECK_DEADLOCK FALSE
