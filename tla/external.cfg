SPECIFICATION Spec
CONSTANTS
    p1 = p1
    p2 = p2
    Instance = {p1, p2}
    NoInstance = NoInstance
    Lot = 2
    MaxBar = 2
    MaxSeq = 2
    MaxCrash = 1
    MaxFault = 1
INVARIANTS AtMostOneSubmission ExactAccounting BookMatchesVenue
PROPERTY LatchedEngineIsSilent
SYMMETRY
    InstanceSymmetry
CHECK_DEADLOCK FALSE
