CONSTANTS
  t1 = t1
  t2 = t2
  t3 = t3
  s = s
  e = e
  None = None
  Thread <- Threads
  NumSlots = 3
  SlotOf <- OwnSlots
  StringKey <- OneString
  ElemKey <- OneElem
  MaxId = 2
  LockOf <- Locks
  Workloads <- AllWorkloads
SPECIFICATION Spec
INVARIANTS PublishedUnderLock
PROPERTIES CollectionsStay Serializable CallsReturn
CHECK_DEADLOCK FALSE
