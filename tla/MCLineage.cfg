SPECIFICATION Spec
CONSTANTS
  None = None
  Junk = Junk
  NoKey = NoKey
  EmptyKey = EmptyKey
  Foreign = Foreign
  Unknown = "unknown"
  Effort = {"hard"}
  RunnerLanguage <- Implied
  Siblings <- Shared
  Manifests <- Found
  MaxRecordsPerRun = 3
  HintCap = 1
  Runs = {1, 2, 3}
  Context <- Bars
  Lessons = {"a", "hard"}
  MaxRecontracts = 1
  MaxAuthorings = 2
  Scenarios <- Worlds
INVARIANTS
  HintsCountRuns
  SeedSurvivesResume
  RepairsAreReal
CHECK_DEADLOCK FALSE
