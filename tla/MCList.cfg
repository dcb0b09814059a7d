CONSTANTS
  alpha = alpha
  beta = beta
  NumLists = 2
  MaxOffset = 8
  Elem <- Elems
  Workloads <- AllWorkloads
SPECIFICATION Spec
INVARIANTS DequeMatchesList EachRecordInOnePlace IteratorSeesSnapshot
PROPERTIES ListsAreAtomic
CHECK_DEADLOCK FALSE
