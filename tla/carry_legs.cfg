SPECIFICATION FairSpec
CONSTANTS
    Qty = 2
    MaxSlot = 3
    MaxEntry = 2
    MaxFailure = 1
INVARIANTS StateMatchesLegs FundingExact
PROPERTY TransitionsTaken
CHECK_DEADLOCK FALSE
