SPECIFICATION Spec
CONSTANTS
  t1 = t1
  t2 = t2
  t3 = t3
  o1 = o1
  o2 = o2
  o3 = o3
  None = None
  kNullPMemOffset = kNullPMemOffset
  Thread <- TwoThreads
  SlotOf <- OwnSlots
  CallsOf <- BatchAndSingle
  NumSlots = 2
  NumKeys = 2
  Offset <- ThreeOffsets
  MaxTs = 3
  MaxCrashes = 2
SYMMETRY OffsetSymmetry
INVARIANTS NoDirtyRead SpaceInOnePlace
PROPERTIES ImplementsAtomicStore
CHECK_DEADLOCK FALSE
