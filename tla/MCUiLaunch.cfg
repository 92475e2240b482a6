CONSTANTS
  v1 = v1
  Pages = {v1}
  Watched <- MCWatched
  q1 = q1
  q2 = q2
  t1 = t1
  s1 = s1
  s2 = s2
  s3 = s3
  main = main
  tree1 = tree1
  Nobody = Nobody
  Main = main
  Requests <- MCRequests
  Terminals <- MCTerminals
  Scenarios <- MCScenarios
SPECIFICATION FollowSpec
INVARIANTS
  GatesMeetTheirHuman
  TreesAreExclusive
  LocksAreDriven
PROPERTIES
  WaitsEnd
CHECK_DEADLOCK FALSE
