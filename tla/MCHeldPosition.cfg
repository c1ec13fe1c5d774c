SPECIFICATION PositionSpec
CONSTANTS
  FeeBps = 100
  CreatorTaxBps = 0
  StartBps = 6000
  WindowSecs = 2
  SlippageBps = 2000
  NewCurve <- MCCurve
  Threshold = 240
  Offers = {60, 120}
  Sibling = 60
  EthPerBuy = 60
  Gas = 1
  Rungs <- MCRungs
  StaleSec = 2
  StaleMinPct = 30
  TakeProfitPct = 150
  StopLossPct = 60
  TrailingPct = 40
  MaxHoldSec = 3
  PoolPrice = {1, 2, 3}
  MaxTrades = 4
  MaxMarks = 4
  MaxTime = 3
CHECK_DEADLOCK FALSE
INVARIANTS BooksBalance TrailingNeedsFall MinOutHolds
