CONSTANTS
  vpp = vpp
  app = app
  Procs = {vpp, app}
  NumLists = 3
  MinSize = 8
  Header = 1
  BatchSize = 2
  TagMod = 32
  IntMod = 16
  WordMod = 1024
  Starts <- Exhausted
  MaxChunks = 8
  MaxCalls = 5
  Null = null
CHECK_DEADLOCK FALSE
SPECIFICATION Spec
INVARIANT BatchNotEmpty
