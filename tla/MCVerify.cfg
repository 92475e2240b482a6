SPECIFICATION Spec
CONSTANTS
  None = "none"
  Files = {"source", "bar", "output"}
  Contents = {"a", "b"}
  Excluded = {}
  Floor = 1
  Source = "source"
  Bar = "bar"
  Output = "output"
  MaxTurns = 2
  MaxFaults = 1
  Scenarios <- AllScenarios
INVARIANTS
  ApproverSeesWholeChange
  JudgeSeesTheWork
  VotesDecide
CHECK_DEADLOCK FALSE
