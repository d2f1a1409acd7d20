SPECIFICATION Spec
CONSTANTS
  Workers = {w1, w2}
  Jobs = {j1}
  NoJob = NoJob
  Concurrency = 1
  MaxDeliveries = 1
  MaxCrashes = 1
  Poison = {}
  CrashBudget = 2
  FaultBudget = 0
  LapseBudget = 1
  DeliveryCap = 4
CHECK_DEADLOCK FALSE
SYMMETRY WorkerSymmetry
INVARIANTS
  Inv
  OutcomeIsComplete
  LiveIsLeftAlone
PROPERTIES
  TakenFromTheDead
  KeepsPromise
