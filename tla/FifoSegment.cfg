CONSTANTS
  vpp = vpp
  app = app
  Procs = {vpp, app}
  NumLists = 3
  MinSize = 8
  Header = 1
  BatchSize = 2
  TagMod = 32
  IntMod = 16
  WordMod = 1024
  Starts <- Passing
  MaxChunks = 8
  MaxCalls = 5
  Null = null
CHECK_DEADLOCK FALSE
SPECIFICATION FairSpec
INVARIANTS TypeOK ChunksConserved AllocsFit BytesSettle
PROPERTIES CallsReturn
