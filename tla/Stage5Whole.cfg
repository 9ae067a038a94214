SPECIFICATION Spec
CONSTANTS
  one = one
  two = two
  Arms <- MCArms
  NumBlocks = 1
  ExpectedSlots = 2
  SmokeChoices = {0}
  MaxAborts = 3
  MaxInvalid = 0
INVARIANTS CompleteMeansWhole
CHECK_DEADLOCK FALSE
