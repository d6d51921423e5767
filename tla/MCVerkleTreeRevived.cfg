CONSTANTS
  KeySize = 3
  Byte <- MCByte
  Data <- MCData
  BurnData <- MCBurnData
  NoValue = NoValue
  Absent = Absent
  TotalSupplyKey <- MCTotalSupplyKey
  MaxSupply = 1
  Keys <- MCKeys
  Batch <- MCBatch
  Supply = {1, 2}
  None = None
  d1 = d1
  burn = burn
SPECIFICATION Spec
INVARIANTS
  StoredLeavesCommitted
CHECK_DEADLOCK FALSE
