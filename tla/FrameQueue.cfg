CONSTANTS
  Threads = {t1, t2, t3}
  Routes <- Chain
  Nelts = 2
  FrameSize = 2
  CheckLimit = 1
  Dropping = {t1}
  WithAux = FALSE
  MaxPackets <- ChainPackets
  t1 = t1
  t2 = t2
  t3 = t3
SPECIFICATION FairSpec
INVARIANTS TypeOK ClaimExclusive Conserved InOrder
PROPERTIES RingsDrained HandOffReturns
