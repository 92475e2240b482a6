SPECIFICATION PrepareSpec
CONSTANTS
  f = f
  g = g
  Files = {f, g}
  Worlds <- BareRepairs
INVARIANTS
  RepairIsJudgedOrSaid
