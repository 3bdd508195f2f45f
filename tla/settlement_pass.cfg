SPECIFICATION PassSpec
CONSTANTS
  Payloads <- MCPayloads
  Requested = 2
  MaxPass = 3
INVARIANTS SettlementIsJust
PROPERTY ConflictNeverForgotten
CHECK_DEADLOCK FALSE
