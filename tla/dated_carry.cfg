SPECIFICATION FairSpec
CONSTANTS
  Qty = 2
  Minimum = 1
  Tolerance = 1
  Expiry = 3
  MaxEntry = 2
  MaxFailure = 1
INVARIANTS VariationsExact NeverNakedShort
PROPERTIES CorrectionNoticed HalfOpenCompensated
CHECK_DEADLOCK FALSE
