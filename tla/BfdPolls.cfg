CONSTANTS
  a = a
  b = b
  Peers = {a, b}
  DefaultTx = 3
  EchoRx = 3
  FirstParams <- Both
  ParamChoices <- BothChange
  EchoSources = {}
  MaxFlight = 2
  MaxEvents = 2
SPECIFICATION Spec
INVARIANT DetectionCovers
