SPECIFICATION Spec
CONSTANTS
  Notifiers = {n1}
  Callbacks = {c1}
  Deliveries = {d1}
  Copies = {d1}
  NoTask = NoTask
  MaxAttempts = 2
  CrashBudget = 0
  FaultBudget = 0
CHECK_DEADLOCK FALSE
INVARIANTS
  GivenUpHasLetter
