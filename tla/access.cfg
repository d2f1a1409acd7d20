SPECIFICATION AccessSpec
CONSTANTS
  Gateways = {"g1", "g2"}
  Calls = {"c1", "c2"}
  KeyIds = {"root", "k"}
  Owners = {"a", "b"}
  Casts <- MCCasts
  Wants <- MCWants
  KeyFiles <- MCFiles
  FilePolicies <- MCPolicies
  MaxChanges = 1
  MaxFailures = 1
CHECK_DEADLOCK FALSE
INVARIANTS
  AccessInv
PROPERTIES
  EveryReplicaConverges
