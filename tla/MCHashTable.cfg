CONSTANTS
  t1 = t1
  t2 = t2
  t3 = t3
  k1 = k1
  k2 = k2
  k3 = k3
  k4 = k4
  None = None
  Thread <- Threads
  Key <- FourKeys
  num_hash_buckets_ = 4
  num_buckets_per_slot_ = 2
  kNumEntryPerBucket = 2
  BucketOf <- Buckets
  MaxEntries = 4
  Unwritten <- Zeros
  Workloads <- AllWorkloads
SPECIFICATION Spec
INVARIANTS OneEntryPerKey SearchesAreCurrent
CHECK_DEADLOCK FALSE
