SPECIFICATION Spec
CONSTANTS
  Token = {t1}
  Lot = 2
  MaxReorgs = 0
  CanonicalityDepth = 64
  Attempts = 1
  Fallback = FALSE
  MaxOps = 3
  MaxFaults = 1
CHECK_DEADLOCK FALSE
INVARIANTS TypeOK  ExitGasNeverTwice SnapshotCurrent
