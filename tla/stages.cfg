SPECIFICATION StagesSpec
CONSTANTS
  Upload = "up"
  Entries <- MCEntries
  Depth <- MCDepth
  Jobs <- MCJobs
  Reports <- MCReports
  EntryKinds <- MCEntryKinds
  MaxArchiveDepth = 1
  MaxArchiveEntries = 2
  MaxUnpacked = 3
  MaxMember = 1
  BombRatio = 4
  Faults = 1
  Scanners = {t1}
  Contents = {"first", "second", "bad"}
  Broken = {"bad"}
  RulesIn <- MCRulesIn
  Candidates = {"second", "bad"}
  NoSet = NoSet
  Parts = 2
  MaxEdits = 3
CHECK_DEADLOCK FALSE
INVARIANTS
  PipelineInv
  CleanMeansChecked
  StoppedMeansBlocked
  PublishedIsExplained
  RuleSetInv
  StaleSetIsNoticed
PROPERTIES
  ChangesAreApplied
