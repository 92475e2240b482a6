SPECIFICATION WaveFairSpec
CONSTANTS
  f1 = f1
  f2 = f2
  v0 = v0
  v1 = v1
  v2 = v2
  p1 = p1
  p2 = p2
  Nothing = Nothing
  Members = {0, 1, 2}
  Cap = 2
  BaseTree <- Tree0
  Waves <- WaveScenarios
INVARIANTS
  MergeIsSound
  OneTurnPastCap
  NoWorktreeLeft
PROPERTIES
  WaveEnds
CHECK_DEADLOCK FALSE
