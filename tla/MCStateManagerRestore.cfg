CONSTANTS
  KeySize = 2
  Byte <- MCByte
  Data <- MCData
  BurnData <- MCBurnData
  NoValue = NoValue
  Absent = Absent
  TotalSupplyKey <- RawSupplyKey
  MaxSupply = 1
  Output <- MCOutput
  OutPoint <- RawOutPoint
  Transactions <- RawTransactions
  KeyOf <- RawKeyOf
  ContractKeys <- AnyKeys
  ContractData = {bytes}
  Fees = {1}
  Epoch = {0, 1}
  Markable <- RawOutPoint
  None = None
  Blocks <- RawBlocks
  Calls = {"apply_block", "restore_from_snapshot"}
  MaxHeight = 2
  bytes = bytes
SPECIFICATION Spec
PROPERTIES
  RestoredEntire
CHECK_DEADLOCK FALSE
