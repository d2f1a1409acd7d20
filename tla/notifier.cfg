SPECIFICATION Spec
CONSTANTS
  Notifiers = {n1, n2}
  Callbacks = {c1}
  Deliveries = {d1}
  Copies = {d1}
  NoTask = NoTask
  MaxAttempts = 2
  CrashBudget = 1
  FaultBudget = 1
CHECK_DEADLOCK FALSE
INVARIANTS
  NotifierInv
  NothingIsForgotten
SYMMETRY NotifierSymmetry
