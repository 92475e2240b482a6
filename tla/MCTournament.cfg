SPECIFICATION FairSpec
CONSTANTS
  t0 = t0
  t1 = t1
  t2 = t2
  n1 = n1
  Absent = Absent
  NoContract = NoContract
  Unmetered = Unmetered
  SentinelPrev = SentinelPrev
  SentinelPost = SentinelPost
  Nothing = Nothing
  RunStart <- HeadTree
  Scenarios <- TournamentScenarios
INVARIANTS
  SelectionSound
  VerifierSeesWinner
PROPERTIES
  FanOutEnds
CHECK_DEADLOCK FALSE
