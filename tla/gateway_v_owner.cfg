SPECIFICATION Spec
CONSTANTS
  reqA = reqA
  reqB = reqB
  reqC = reqC
  reqD = reqD
  tenA = tenA
  tenB = tenB
  fileA = fileA
  fileB = fileB
  Requests <- Three
  Tenants = {tenA, tenB}
  Contents = {fileA}
  TenantOf <- TwoTenants
  ContentOf <- OneFile
  Limit = 1
  NoScan = NoScan
  NoTenant = NoTenant
  LapseBudget = 0
CHECK_DEADLOCK FALSE
INVARIANTS
  ClientOwnsItsScan
