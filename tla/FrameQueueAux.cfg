CONSTANTS
  Threads = {t1, t2}
  Routes <- AllRoutes
  Nelts = 2
  FrameSize = 2
  CheckLimit = 1
  Dropping = {t1, t2}
  WithAux = TRUE
  MaxPackets <- TwoEach
  t1 = t1
  t2 = t2
  t3 = t3
SPECIFICATION Spec
INVARIANTS Conserved
