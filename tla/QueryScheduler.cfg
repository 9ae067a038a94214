SPECIFICATION SchedulerSpec
CONSTANTS
  a = a
  b = b
  c = c
  d = d
  NoQuery = none
  OneQueues <- MCOneQueues
  TwoQueues <- MCTwoQueues
  Reports <- MCReports
  MinQuery = 1
  Reserve = 1
  MaxDecisions = 4
  MaxFeedback = 3
INVARIANTS QuietAfterConfirmation TwoCallsEarned
CHECK_DEADLOCK FALSE
