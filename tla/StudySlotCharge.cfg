SPECIFICATION SlotSpec
CONSTANTS
  Total = 4
  InitialCharge = 1
  Tolerance = 1
  MaxTime = 5
  MaxRecords = 7
  Stages <- MCStages
  Outcomes <- MCOutcomes
  ErrorStatuses = {"tool_error", "timeout", "campaign_deadline", "evidence_error", "mismatch"}
  AugmentReserve = 2
  NativeMargin = 1
INVARIANTS ValidChargedWithinBudget
CHECK_DEADLOCK FALSE
