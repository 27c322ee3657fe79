CONSTANTS
  io = io
  ctrl = ctrl
  Producers = {p1, p2}
  Consumer = consumer
  Maxsize = 2
  Rings = {io}
  Nitems <- WorkerRings
  Waits = {FALSE}
  Modes = {"nowait", "batch"}
  MaxBatch = 2
  MaxHeld = 2
  Spurious = {}
  MaxMsgs = 3
  MaxCrashes = 1
SPECIFICATION Spec
INVARIANTS NoOverrun
CHECK_DEADLOCK FALSE
