CONSTANTS
  KeySize = 3
  Byte <- MCByte
  Data = {d1, d2}
  BurnData <- MCNone
  NoValue = NoValue
  Absent = Absent
  TotalSupplyKey <- MCTotalSupplyKey
  MaxSupply = 1
  Keys <- MCKeys
  UtxoSets <- MCUtxoSets
  None = None
  d1 = d1
  d2 = d2
SPECIFICATION Spec
INVARIANTS
  RootBinds
  ProofsVerify
PROPERTIES
  PruningKeepsRoot
CHECK_DEADLOCK FALSE
