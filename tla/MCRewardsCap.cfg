CONSTANTS
  Transactions <- MCTransactions
  OutPoint <- MCOutPoint
  MaxValue = 5
  BaseReward = 3
  HalvingInterval = 2
  U32 = 3
  MinReward = 1
  MaxSupply = 10
  Bodies <- MCBodies
  Miners <- MCMiners
  Pools <- MCPools
  NodeCounts = {0, 1}
  MaxHeight = 6
  MaxShared = 0
  MaxSkipped = 0
  MaxPending = 2
  NoPool = NoPool
  Err = Err
SPECIFICATION RewardsSpec
INVARIANTS
  NeverAboveCap
CHECK_DEADLOCK FALSE
