SPECIFICATION FairSpec
CONSTANTS
    p1 = p1
    Instance = {p1}
    NoInstance = NoInstance
    Lot = 2
    MaxBar = 2
    MaxSeq = 2
    MaxCrash = 2
    MaxFault = 0
INVARIANTS SoleExposedOrder
PROPERTIES ImplementsPromise CommittedOrderConcludes
CHECK_DEADLOCK FALSE
