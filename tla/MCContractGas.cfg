CONSTANTS
  s1 = s1
  s2 = s2
  Slot <- MCSlot
  Limits = {2, 4, 12, 24}
  PayloadCosts = {1, 2}
  OpCosts = {1}
  CallCost = 1
  INTRINSIC_GAS = 3
  STATE_READ_COST = 2
  STATE_WRITE_NEW_COST = 6
  STATE_WRITE_UPDATE_COST = 3
  SELF_DESTRUCT_REFUND = 2
  None = None
SPECIFICATION Spec
INVARIANTS
  GasAccounted
PROPERTIES
  RunsAtomic
CHECK_DEADLOCK FALSE
