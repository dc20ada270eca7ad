\* A V3 pool whose price moves once.
SPECIFICATION Spec
CONSTANTS
  Weth = 5
  Scale = 256
  Width = 16384
  Word = 1048576
  MaxTrade = 10
  PerBar = 2
  Retention = 3
  Period = 2
  Contracts <- MCContracts
  Fork = 15
  Alien = 16
  Markets = {13, 14}
  Rungs = 3
  PoolAt <- MCPoolAt
  Flash = 3
  MaxBlock = 2
  MaxEvents = 2
INVARIANTS PriceBeforeTrade
