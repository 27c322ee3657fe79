CONSTANTS
  Workers = {w1, w2}
  MaxRecursion = 1
  MaxSyncs = 2
SPECIFICATION SyncSpec
INVARIANTS SyncIsolates
CHECK_DEADLOCK FALSE
