CONSTANTS
  Workers = {w1, w2, w3}
  MaxRecursion = 2
SPECIFICATION BootSpec
INVARIANTS TypeOK BarrierExclusion NoStaleDispatch ReforkBeforeReturn
PROPERTIES SyncCompletes ReleaseCompletes WaitOneLoopReturns BootCompletes
