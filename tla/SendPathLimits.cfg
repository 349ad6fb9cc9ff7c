SPECIFICATION Spec
CONSTANTS
  c1 = c1
  c2 = c2
  c3 = c3
  o1 = o1
  o2 = o2
  Null = Null
  Cmds <- ThreeCmds
  Ids <- TwoIds
  Kinds <- TextOnly
  OutboxKeep = 1
  MaxSendsInWindow = 1
  SendWindow = 2
  MinSendInterval = 1
  Faults <- RefusalFaults
  JumpsBack <- OneJump
  MaxReal = 4
  MaxCrashes = 1
  MaxJumps = 1
SYMMETRY Symmetry32
INVARIANTS RateWindow RemembersSteady RefusalLeavesIdUnused
PROPERTY BackstopHasCause
CHECK_DEADLOCK FALSE
