SPECIFICATION FairSpec
CONSTANTS
    Lot = 2
    MaxStop = 3
    MaxCrash = 2
    Burst = 2
INVARIANTS AtMostOnePlacement NeverTradesNaked NoOrphanStop
PROPERTY AcceptedStopPromoted
CHECK_DEADLOCK FALSE
