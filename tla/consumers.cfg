SPECIFICATION ConsumersSpec
CONSTANTS
  scanA = scanA
  scanB = scanB
  tenW = tenW
  EntryCount = 4
  ScanOf <- MCScanOf
  TenantOf <- MCTenantOf
  Scans = {scanA, scanB}
  Tenants = {tenW}
  Unreadable = {2}
  BatchSize = 2
  ReadCount = 2
  KillBudget = 1
  StopBudget = 1
  RaiseBudget = 1
  Notifiers = {n1}
  Callbacks = {c1}
  Deliveries = {d1}
  Copies = {d1}
  NoTask = NoTask
  MaxAttempts = 2
  CrashBudget = 1
  FaultBudget = 1
CHECK_DEADLOCK FALSE
INVARIANTS
  WriterInv
  RowShowsTheLatest
PROPERTIES
  TakenIsStored
  EveryTaskIsClosed
