SPECIFICATION FairSpec
CONSTANTS
  Event = {launch, curve_launch, curve_log, old_launch, graduation}
  MaxHeight = 4
  MaxForks = 1
  MaxDepth = 1
  MaxFailures = 1
  FeedLaunch = {launch}
  Url = {u1}
  PollSpan = 1
  SeenCapacity = 1
  Launch = curve_launch
  CurveLog = {curve_log}
  Launched = {old_launch}
  Graduation = graduation
  Graduating = old_launch
  Window = 1
  GradMargin = 0
  GradReach = 1
  MaxRestarts = 1
  Seen = {s1, s2}
  Size <- MCSize
  MaxBytes = 8
  Reserve = 2
  ManifestSize = 1
  MaxIoFaults = 2
CHECK_DEADLOCK FALSE
INVARIANTS SentOncePerSighting NothingMissed FlowCanonicalUnlessTorn HistoryComplete 
PROPERTIES LaunchArrives  IsDataset
