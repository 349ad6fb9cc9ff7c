SPECIFICATION FairSpec
CONSTANTS
  c1 = c1
  c2 = c2
  c3 = c3
  o1 = o1
  o2 = o2
  Null = Null
  Cmds <- TwoCmds
  Ids <- TwoIds
  Kinds <- BothKinds
  OutboxKeep = 2
  MaxSendsInWindow = 2
  SendWindow = 2
  MinSendInterval = 0
  Faults <- AllFaults
  JumpsBack <- OneJump
  MaxReal = 0
  MaxCrashes = 1
  MaxJumps = 1
INVARIANTS TypeOK OneSlot AtMostOnce EndsCleanly
PROPERTIES BusyOnlyWhileSending RefinesOutbox Answered
CHECK_DEADLOCK FALSE
