SPECIFICATION QualificationSpec
CONSTANTS
  p1 = p1
  p2 = p2
  Releases <- MCReleases
  First = "r1"
  Commands <- MCCommands
  Freshness = 2
  DayLength = 2
  MinTicks = 1
  MinUptime = 50
  MinOrders = 1
  ValidTicks = 1
  MaxTime = 2
  MaxCalls = 5
  MaxSwitches = 1
  MaxOrders = 1
  Horizon = 5
INVARIANTS AdmissionIsBound CoverageIsExact
SYMMETRY MCSymmetry
CHECK_DEADLOCK FALSE
