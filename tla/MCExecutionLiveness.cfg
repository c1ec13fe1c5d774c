SPECIFICATION FairSpec
CONSTANTS
  Token = {t1}
  Lot = 2
  MaxReorgs = 1
  CanonicalityDepth = 64
  Attempts = 1
  Fallback = FALSE
  MaxOps = 2
  MaxFaults = 1
CHECK_DEADLOCK FALSE
PROPERTIES  ChangedReceiptHalts
