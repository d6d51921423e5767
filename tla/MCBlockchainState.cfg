CONSTANTS
  Transactions <- MCTransactions
  OutPoint <- MCOutPoint
  Blocks <- MCBlocks
  Markable <- MCMarkable
  MaxValue = 3
  Epoch = {1, 2}
  None = None
SPECIFICATION Spec
INVARIANTS
  TypeOK
  RollbackSucceeds
PROPERTIES
  RejectedBlockLeavesNoTrace
  PaymentsCreateNoValue
CHECK_DEADLOCK FALSE
