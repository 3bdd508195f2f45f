SPECIFICATION FairSpec
CONSTANTS
    Jobs = {"monthly", "pending"}
    InitialCash <- MCInitialCash
    Amounts = {0, 20}
    Gains = {10}
    MaxTrade = 1
INVARIANTS CapitalAccounted
PROPERTY EnginesComeBack
