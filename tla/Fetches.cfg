SPECIFICATION FairSpec
CONSTANTS
  Null = Null
  NumCmds = 3
  Kinds <- AllKinds
  MaxFetches = 2
  AvatarInterval = 2
  MinPinInterval = 1
  MaxPinsInWindow = 2
  PinWindow = 3
  LastTick = 2
INVARIANTS TypeOK SlotsHeld AvatarPaced PinsLimited FilesAnnounced
PROPERTIES CommandsEnd
CHECK_DEADLOCK FALSE
