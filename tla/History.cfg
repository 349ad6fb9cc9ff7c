SPECIFICATION FairSpec
CONSTANTS
  a = a
  b = b
  Null = Null
  Chats <- TwoChats
  Parts <- MixedParts
  WindowSize = 2
  MaxPerChat = 3
  MaxBatchMessages = 2
  MaxParts = 2
INVARIANTS WindowHolds CountsAreSent
PROPERTIES QueueDrains DoneComes
CHECK_DEADLOCK FALSE
