\* Both DEXes, WETH on either side, up to four events in six blocks.
SPECIFICATION Spec
CONSTANTS
  Weth = 5
  Scale = 256
  Width = 16384
  Word = 1048576
  MaxTrade = 10
  PerBar = 2
  Retention = 3
  Period = 2
  Contracts <- MCContracts
  Fork = 15
  Alien = 16
  Markets = {11, 12, 13, 14}
  Rungs = 3
  PoolAt <- MCPoolAt
  Flash = 3
  MaxBlock = 6
  MaxEvents = 4
INVARIANTS TypeOK SameTradesUnfiltered TickFollowsPool ChartShowsBars HonestRoundTrip SimulatesTransactions
PROPERTIES DecidesOnMarket
