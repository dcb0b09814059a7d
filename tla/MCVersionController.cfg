CONSTANTS
  t1 = t1
  t2 = t2
  c1 = c1
  c2 = c2
  Thread <- TwoThreads
  Cleaner <- OneCleaner
  SlotOf <- TwoSlots
  NumSlots = 2
  Batcher <- OnlyFirst
  Snapshotter <- TwoThreads
  MaxSnapshots = 2
  MaxAdvance = 1
  kMaxTimestamp = 3
SPECIFICATION VCSpec
INVARIANTS LocalOldestPromise SnapshotWaitsForBatch GlobalOldestCovers
PROPERTIES SnapshotCreated
CHECK_DEADLOCK FALSE
