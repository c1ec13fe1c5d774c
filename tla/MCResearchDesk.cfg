SPECIFICATION FairSpec
CONSTANTS
  StartingEquity = 10
  MaxCommitmentBps = 4000
  MaxDrawdownBps = 3000
  MaxOpenPositions = 2
  EntryGas = 1
  ExitGas = 1
  Launch = {t1, t2}
  Price = {0, 2}
  t1 = t1
  t2 = t2
  Tokens <- MCTokens
  QueueSize = 1
  EntrySlots = 2
  ByHand = {t1}
  MaxFaults = 1
CHECK_DEADLOCK FALSE
INVARIANTS DeskTypeOK BooksAgree
PROPERTIES EntryWithinLimits DrawdownFinal LiquidationCompletes
