CONSTANTS
  Workers = {w1, w2}
  MaxRecursion = 1
  MaxSyncs = 1
SPECIFICATION SyncFairSpec
PROPERTIES SyncReturns
CHECK_DEADLOCK FALSE
