CONSTANTS
  Thread = {1, 2}
  Worker = {1, 2}
  Name = {1, 2}
  MaxTime = 12
  MaxId = 4
  MaxNow = 1
  MaxFetch = 2
  Workloads <- AllWorkloads
SPECIFICATION Spec
INVARIANTS NoFreedCollection LiveCollectionsFound
PROPERTIES RecoveryRestores OutdatedAreFreed
CHECK_DEADLOCK FALSE
