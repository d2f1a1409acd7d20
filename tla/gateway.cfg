SPECIFICATION BusySpec
CONSTANTS
  reqA = reqA
  reqB = reqB
  reqC = reqC
  reqD = reqD
  tenA = tenA
  tenB = tenB
  fileA = fileA
  fileB = fileB
  Requests <- Four
  Tenants = {tenA}
  Contents = {fileA, fileB}
  TenantOf <- OneTenant
  ContentOf <- TwoFiles
  Limit = 1
  NoScan = NoScan
  NoTenant = NoTenant
  LapseBudget = 1
CHECK_DEADLOCK FALSE
INVARIANTS
  Inv
  WakeupIsNotLost
  FileIsScannedOnce
  RunningIsCounted
  AcceptedHasJob
SYMMETRY Symmetry
