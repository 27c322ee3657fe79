CONSTANTS
  io = io
  ctrl = ctrl
  Producers = {p1}
  Consumer = consumer
  Maxsize = 2
  Rings = {io}
  Nitems <- WorkerRings
  Waits = {TRUE}
  Modes = {"wait"}
  MaxBatch = 1
  MaxHeld = 1
  Spurious = {}
  MaxMsgs = 4
  MaxCrashes = 0
SPECIFICATION FairSpec
PROPERTIES ProducerWakes
CHECK_DEADLOCK FALSE
