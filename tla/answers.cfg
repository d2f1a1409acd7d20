SPECIFICATION AnswersSpec
CONSTANTS
  Tenants = {"tenA", "tenB", "tenC"}
  PolicyOf <- MCPolicyOf
  OverridesOf <- MCOverridesOf
  ClaimsOf <- MCClaimsOf
  Structure = {"PDF_RICHMEDIA"}
  WeightsOf <- MCWeightsOf
  MatchedBy <- MCMatchedBy
  Switchable = "YARA:medium"
  KnownFrom = 2
  AskedBy <- MCAskedBy
  MaxChanges = 2
  MaxFaults = 1
  Files <- MCFiles
  Profiles <- MCProfiles
  Elements <- MCElements
  MaxStory = 5
  MaxDepth = 1
  MaxEntries = 6
CHECK_DEADLOCK FALSE
INVARIANTS
  CacheInv
  CachedAnswerIsFullVerdict
  RebuiltIsWhole
  DeliveredIsQuiet
  OrdinaryIsDelivered
  FieldsAreStripped
PROPERTIES
  StaleVersionsFade
