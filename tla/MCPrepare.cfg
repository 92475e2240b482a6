SPECIFICATION PrepareFairSpec
CONSTANTS
  f = f
  g = g
  Files = {f, g}
  Worlds <- PrepareWorlds
INVARIANTS
  SealedIsOnDisk
  ControlsAreOfTheBar
  SteerReachesTheAuthor
PROPERTIES
  AuthoringEnds
