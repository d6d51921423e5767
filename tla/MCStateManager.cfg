CONSTANTS
  KeySize = 2
  Byte <- MCByte
  Data <- MCData
  BurnData <- MCBurnData
  NoValue = NoValue
  Absent = Absent
  TotalSupplyKey <- RawSupplyKey
  MaxSupply = 1
  Output <- MCOutput
  OutPoint <- RawOutPoint
  Transactions <- RawTransactions
  KeyOf <- RawKeyOf
  ContractKeys <- AnyKeys
  ContractData = {bytes}
  Fees = {1}
  Epoch = {0, 1}
  Markable <- RawOutPoint
  None = None
  Blocks <- RawBlocks
  Calls = {"apply_block", "rollback_state", "rollback", "restore_from_snapshot", "prune"}
  MaxHeight = 2
  bytes = bytes
SPECIFICATION Spec
INVARIANTS
  TypeOK
  SnapshotsAligned
  SnapshotsReplayable
  SupplyLocked
  CoinsAgree
PROPERTIES
  ImplementsLedger
CHECK_DEADLOCK FALSE
