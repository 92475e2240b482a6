SPECIFICATION Spec
CONSTANTS
  None = "none"
  Files = {"source", "bar", "output"}
  Contents = {"a", "b"}
  Excluded = {}
  Floor = 1
  Source = "source"
  Bar = "bar"
  Output = "output"
  MaxTurns = 2
  MaxFaults = 1
  Scenarios <- RaisedOnResume
INVARIANTS
  ApproverSeesWholeChange
CHECK_DEADLOCK FALSE
