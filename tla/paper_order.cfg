SPECIFICATION Spec
CONSTANTS
  MaxBar = 2
  MaxSeq = 2
  MaxLot = 2
  MaxCrash = 2
  MaxFault = 1
INVARIANTS BookIsLedger
PROPERTY DurableFillIsFinalised
CHECK_DEADLOCK FALSE
