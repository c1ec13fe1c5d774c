SPECIFICATION ClockSpec
CONSTANTS
  Step = 250
  Delay = 250
  LaunchedAt = 2
  EntrySecond = 2
  LeadMs = 250
  WakeTolerance = 25
  Deferral = 100
  MaxAge = 2000
  MaxJitter = 1500
  MaxWait = 2000
  Starts = {1000, 1500, 2250, 3500}
  MaxTime = 4750
  MaxDrops = 2
CHECK_DEADLOCK FALSE
INVARIANT SentInWindow
