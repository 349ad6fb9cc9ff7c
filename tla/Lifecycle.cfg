SPECIFICATION FairSpec
CONSTANTS
  Null = Null
  Events <- AllEvents
  InitOutcomes <- AnyOutcome
  WaitExpires = TRUE
  MaxCommands = 2
  MaxEvents = 2
INVARIANTS StoreGuarded FinalOrder LogoutCarriedOut ExitCodeIsTrue
PROPERTIES ProcessEnds
