SPECIFICATION FairSpec
CONSTANTS
  one = one
  two = two
  Arms <- MCArms
  NumBlocks = 2
  ExpectedSlots = 4
  SmokeChoices = {0, 1}
  MaxAborts = 3
  MaxInvalid = 1
INVARIANTS TypeOK CompleteUnlessGap ManifestBacked AttemptsAccounted
PROPERTIES EvidenceKept FinishedBlocksStay EventuallyComplete
CHECK_DEADLOCK FALSE
