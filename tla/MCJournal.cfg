CONSTANTS
  Absent = Absent
  NoContract = NoContract
  RunStart = RunStart
  h1 = h1
  h2 = h2
  f1 = f1
  Scenarios <- JournalScenarios
SPECIFICATION Spec
INVARIANTS
  MemoryMatchesLog
  ResumeContinues
  SpendWithinCap
PROPERTIES
  ImplementsReducer
CHECK_DEADLOCK FALSE
