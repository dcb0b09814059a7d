SPECIFICATION Spec
CONSTANTS
  t1 = t1
  t2 = t2
  t3 = t3
  o1 = o1
  o2 = o2
  o3 = o3
  None = None
  kNullPMemOffset = kNullPMemOffset
  Thread <- ThreeThreads
  SlotOf <- TwoSlots
  CallsOf <- ThreeBatches
  NumSlots = 2
  NumKeys = 2
  Offset <- ThreeOffsets
  MaxTs = 2
  MaxCrashes = 1
PROPERTIES ImplementsAtomicStore CallReturns
CHECK_DEADLOCK FALSE
