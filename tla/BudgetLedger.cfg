SPECIFICATION LedgerSpec
CONSTANTS
  Total = 3
  InitialCharge = 1
  Tolerance = 1
  MaxTime = 5
  MaxRecords = 4
  Stages = {"native"}
  Outcomes = {"completed", "skipped"}
  ErrorStatuses = {"tool_error", "campaign_deadline"}
INVARIANTS NothingChargedTwice OverrunEndsCampaign CompletedInBudget
CHECK_DEADLOCK FALSE
