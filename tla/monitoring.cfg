SPECIFICATION FairSpec
CONSTANTS
    Conditions <- MCConditions
    Warning = {"slippage"}
    Recorded = {"reconciliation"}
    Profile = {"trend"}
    Checks <- MCChecks
    Evidence <- MCEvidence
    MaxChange = 2
    MaxFault = 1
INVARIANTS ToldWhenOpened VerdictIsSafe
PROPERTIES IncidentFollowsCondition ReadinessReturns
