CONSTANTS
  Workers = {w1, w2}
  MaxRecursion = 1
  MaxSyncs = 2
SPECIFICATION SyncFairSpec
INVARIANTS SyncTypeOK SyncRendezvous OneSyncRpc
PROPERTIES PairCompletes
CHECK_DEADLOCK FALSE
