CONSTANTS
  Hash <- MCHash
  K = 1
  FinalityDepth = 4
  None = None
  Genesis = 2
  Removable = {}
  MaxPending = 1
  MaxRemoved = 1
SPECIFICATION Spec
INVARIANTS
  OrderingAgreed
CHECK_DEADLOCK FALSE
