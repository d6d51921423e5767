CONSTANTS
  KeySize = 3
  Byte <- MCByte
  Data <- MCData
  BurnData <- MCBurnData
  NoValue = NoValue
  Absent = Absent
  TotalSupplyKey <- ForwardSupplyKey
  MaxSupply = 3
  Output <- MCOutput
  OutPoint <- MCOutPoint
  Transactions <- ForwardTransactions
  KeyOf <- ForwardKeyOf
  ContractKeys <- OwnKeys
  ContractData = {bytes}
  Fees = {1}
  Epoch = {0, 1}
  Markable <- Paid
  None = None
  Blocks <- ForwardBlocks
  Calls = {"validate_and_apply_block", "prune"}
  MaxHeight = 4
  bytes = bytes
SPECIFICATION Spec
INVARIANTS
  CoinsCommitted
CHECK_DEADLOCK FALSE
