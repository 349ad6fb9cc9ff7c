SPECIFICATION Spec
CONSTANTS
  alice = alice
  aliceLid = aliceLid
  team = team
  w1 = w1
  w2 = w2
  Null = Null
  Lids <- OneLid
  Groups <- OneGroup
  PhoneOf <- OnePhone
  Workers <- TwoWorkers
  Faults <- NoFaults
  MaxJobs = 3
  MaxCrashes = 1
INVARIANTS AliasOnce
CHECK_DEADLOCK FALSE
