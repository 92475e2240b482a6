CONSTANTS
  d1 = d1
  d2 = d2
  d3 = d3
  ui = ui
  p1 = p1
  p2 = p2
  pUi = pUi
  NoFile = NoFile
  NoPid = NoPid
  Drivers = {d1, d2, d3, ui}
  Resident = {pUi}
  Overlap = FALSE
  Pid <- PidOf
SPECIFICATION LockSpec
INVARIANTS
  AtMostOneDriver
  DriverHoldsFile
  RefusedOnlyByRivals
