SPECIFICATION Spec
CONSTANTS
  a = a
  b = b
  Null = Null
  Chats <- OneChat
  Parts <- SmallParts
  WindowSize = 1
  MaxPerChat = 3
  MaxBatchMessages = 1
  MaxParts = 1
INVARIANT UnknownAckIgnored
CHECK_DEADLOCK FALSE
