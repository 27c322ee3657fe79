CONSTANTS
  Short = {s1}
  Long = {l1, l2}
  Chunks <- LongAndShort
  Length <- OneOrTwo
  Null = null
  Size = 4
  MinAlloc = 1
  Modulus = 20
  FirstAlloc = 1
  MaxAlloc = 2
  LargestSize = 4
  Roles = {"rx", "tx"}
SPECIFICATION Spec
SYMMETRY Interchangeable
INVARIANTS PeekReturns
