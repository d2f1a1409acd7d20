SPECIFICATION FairSpec
CONSTANTS
  Workers = {w1, w2}
  Jobs = {j1}
  NoJob = NoJob
  Concurrency = 1
  MaxDeliveries = 1
  MaxCrashes = 1
  Poison = {j1}
  CrashBudget = 1
  FaultBudget = 2
  LapseBudget = 0
  DeliveryCap = 6
CHECK_DEADLOCK FALSE
INVARIANTS
  PoisonIsContained
PROPERTIES
  TerminalIsStable
  EveryJobIsClosed
