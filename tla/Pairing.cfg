SPECIFICATION FairSpec
CONSTANTS
  p1 = p1
  p2 = p2
  Null = Null
  Pairings <- TwoPairings
  Events <- AllEvents
  MaxCodes = 1
  CodesCap = 1
  RotCap = 1
  MaxEvents = 2
INVARIANTS OneFinal CurrentLives LinkIsReported
PROPERTIES PairingEnds
CHECK_DEADLOCK FALSE
