SPECIFICATION Spec
CONSTANTS
  Null = Null
  Events <- LinkEvents
  InitOutcomes <- Opens
  WaitExpires = FALSE
  MaxCommands = 1
  MaxEvents = 2
INVARIANT StatusIsCurrent
