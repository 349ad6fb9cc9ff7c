SPECIFICATION FairSpec
CONSTANTS
  alice = alice
  aliceLid = aliceLid
  team = team
  w1 = w1
  w2 = w2
  Null = Null
  Lids <- OneLid
  Groups <- OneGroup
  PhoneOf <- OnePhone
  Workers <- TwoWorkers
  Faults <- AllFaults
  MaxJobs = 3
  MaxCrashes = 1
INVARIANTS AliasOncePerRun Remembered
PROPERTIES GroupComes
CHECK_DEADLOCK FALSE
