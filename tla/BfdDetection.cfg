CONSTANTS
  a = a
  b = b
  Peers = {a, b}
  DefaultTx = 3
  EchoRx = 3
  FirstParams <- Both
  ParamChoices <- SenderChanges
  EchoSources = {}
  MaxFlight = 2
  MaxEvents = 1
SPECIFICATION Spec
INVARIANT DetectionCovers
