CONSTANTS
  Transactions <- MCTransactions
  OutPoint <- MCOutPoint
  MaxValue = 5
  BaseReward = 3
  HalvingInterval = 2
  U32 = 3
  MinReward = 1
  MaxSupply = 9
  Bodies <- MCBodies
  Miners <- MCMiners
  Pools <- MCPools
  NodeCounts = {0, 1}
  MaxHeight = 7
  MaxShared = 1
  MaxSkipped = 1
  MaxPending = 2
  NoPool = NoPool
  Err = Err
SPECIFICATION RewardsSpec
INVARIANTS
  BooksBalance
  CoinbaseAccepted
CHECK_DEADLOCK FALSE
