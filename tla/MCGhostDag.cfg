CONSTANTS
  Hash <- MCHash
  K = 1
  FinalityDepth = 4
  None = None
  Genesis = 2
  Removable = {3}
  MaxPending = 2
  MaxRemoved = 1
SPECIFICATION Spec
INVARIANTS
  TypeOK
  LinksMirrored
  Acyclic
  TipsAreSinks
  OrderingTopological
  LabelsCurrent
  VirtualBlocksAgree
PROPERTIES
  PassSettles
CHECK_DEADLOCK FALSE
