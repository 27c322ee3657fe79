CONSTANTS
  io = io
  ctrl = ctrl
  Producers = {p1}
  Consumer = consumer
  Maxsize = 2
  Rings = {io}
  Nitems <- AmpleRings
  Waits = {TRUE}
  Modes = {"batch"}
  MaxBatch = 2
  MaxHeld = 2
  Spurious = {}
  MaxMsgs = 4
  MaxCrashes = 0
SPECIFICATION FairSpec
PROPERTIES ProducerWakes
CHECK_DEADLOCK FALSE
