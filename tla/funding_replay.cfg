SPECIFICATION FundingSpec
CONSTANTS
  MaxSlot = 2
  MaxLot = 2
  MaxFill = 2
  MaxCrash = 2
  MaxFault = 1
  Burst = 1
INVARIANTS LedgerIsExact
PROPERTY PaymentsAreSettled
CHECK_DEADLOCK FALSE
