CONSTANTS
  a = a
  b = b
  Peers = {a, b}
  DefaultTx = 3
  EchoRx = 3
  FirstParams <- Both
  ParamChoices <- ReceiverChanges
  EchoSources = {a}
  MaxFlight = 2
  MaxEvents = 3
SPECIFICATION FairSpec
INVARIANTS TypeOK DetectionCovers
PROPERTIES Settles PollsEnd
