CONSTANTS
  Workers = {w1, w2}
  MaxRecursion = 1
SPECIFICATION BootThenRunSpec
INVARIANTS BarrierExclusion
