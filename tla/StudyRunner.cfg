SPECIFICATION FairSpec
CONSTANTS
  p1 = p1
  p2 = p2
  Profiles <- MCProfiles
  NumBlocks = 2
  MaxAborts = 2
  MaxInvalid = 1
INVARIANTS CompleteMeansWhole
PROPERTIES KeepsPromise EventuallyComplete
CHECK_DEADLOCK FALSE
