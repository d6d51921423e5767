CONSTANTS
  KeySize = 2
  Byte <- MCByte
  Data <- MCData
  BurnData <- MCNone
  NoValue = NoValue
  Absent = Absent
  TotalSupplyKey <- MCSupplyKey
  MaxSupply = 1
  Output <- MCOutput
  OutPoint <- MCOutPoint
  Transactions <- MCTransactions
  KeyOf <- MCKeyOf
  ContractKeys <- MCContractKeys
  ContractData = {bytes}
  Fees = {1}
  Epoch = {}
  Markable <- MCNone
  None = None
  Blocks <- MCBlocks
  Calls = {"apply_block"}
  MaxHeight = 1
  bytes = bytes
  Pools <- MCPools
  Slots <- MCSlots
  WriteOnly <- MCWriteOnly
  IdOrder <- MCIdOrder
SPECIFICATION SchedulerSpec
PROPERTIES
  FailedPlanKeepsRoot
CHECK_DEADLOCK FALSE
