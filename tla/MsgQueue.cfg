CONSTANTS
  io = io
  ctrl = ctrl
  Producers = {p1, p2}
  Consumer = consumer
  Maxsize = 2
  Rings = {io, ctrl}
  Nitems <- WorkerRings
  Waits = {TRUE, FALSE}
  Modes = {"nowait", "wait", "timed", "batch"}
  MaxBatch = 2
  MaxHeld = 2
  Spurious = {"producer", "wait"}
  MaxMsgs = 2
  MaxCrashes = 0
SPECIFICATION FairSpec
INVARIANTS TypeOK SubNotEmpty FreesInOrder
PROPERTIES FifoRefinement MessagesReceived
CHECK_DEADLOCK FALSE
