SPECIFICATION FairSlotSpec
CONSTANTS
  a = a
  b = b
  NoQuery = none
  Total = 3
  InitialCharge = 0
  Tolerance = 1
  MaxTime = 4
  MaxRecords = 5
  Stages <- MCStages
  Outcomes <- MCOutcomes
  ErrorStatuses <- MCErrors
  OneQueues <- MCOneQueues
  TwoQueues <- MCTwoQueues
  Reports <- MCReports
  MinQuery = 1
  Reserve = 1
  MaxDecisions = 3
  MaxFeedback = 2
  AugLimit = 2
  MaxQueries = 2
  MaxCandidates = 2
  NativeMargin = 1
INVARIANTS HeardBeforeAsked ValidSurvivesAudit ConfirmedIsImported
PROPERTIES SlotEnds
CHECK_DEADLOCK FALSE
