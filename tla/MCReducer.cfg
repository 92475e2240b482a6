CONSTANTS
  Absent = Absent
  NoContract = NoContract
  h1 = h1
  h2 = h2
  f1 = f1
  Scenarios <- AllScenarios
SPECIFICATION FairSpec
INVARIANTS
  TypeOK
  BackstopsHold
  IterationsWithinCap
  NoTurnOverBudget
  PhasesInOrder
PROPERTIES
  Terminates
  KeepsPromise
