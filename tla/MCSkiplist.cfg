CONSTANTS
  Thread = {1, 2, 3}
  Key = {1, 2, 3, 4}
  MaxHeight = 2
  MaxOffset = 8
  MaxNode = 8
  Workloads <- AllWorkloads
SPECIFICATION Spec
INVARIANTS IndexSound   RecoveryRestores
PROPERTIES CallsReturn
CHECK_DEADLOCK FALSE
