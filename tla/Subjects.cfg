SPECIFICATION SubjectsSpec
CONSTANTS
  Observable <- MCObservable
  MaxObserved = 4
  Limit = 2
  SuffixCalls <- MCSuffixCalls
  MaxPlans = 3
  Hash <- MCHash
  Drafts <- MCDrafts
  Changes <- MCChanges
  ProfileChanges <- MCProfileChanges
  Identifiers <- MCIdentifiers
  SeedBound = 100
  MaxEdits = 2
INVARIANTS PlansAnswerForWarmup AcceptedStudiesCompare
\* Warmups that were reported and edited studies stop.
CHECK_DEADLOCK FALSE
