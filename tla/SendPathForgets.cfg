SPECIFICATION Spec
CONSTANTS
  c1 = c1
  c2 = c2
  c3 = c3
  o1 = o1
  o2 = o2
  Null = Null
  Cmds <- ThreeCmds
  Ids <- TwoIds
  Kinds <- TextOnly
  OutboxKeep = 1
  MaxSendsInWindow = 2
  SendWindow = 2
  MinSendInterval = 1
  Faults <- NoFaults
  JumpsBack <- Jumps
  MaxReal = 2
  MaxCrashes = 0
  MaxJumps = 1
SYMMETRY Symmetry32
INVARIANT RemembersLast
CHECK_DEADLOCK FALSE
