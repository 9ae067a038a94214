SPECIFICATION ToolsSpec
CONSTANTS
  Launcher = launcher
  Descendants = {solver1, solver2, solver3}
  Capacity = 6
  Amounts <- MCAmounts
  MaxPrefix = 3
  Calls <- MCCalls
  MaxSteps = 2
  Imports <- MCImports
  Tests = 3
  NumPrefixes = 2
  MaxCandidates = 2
  AttemptLimit = 2
  Boundary <- MCBoundary
  Random <- MCRandom
  Identities = {"warm", "x", "y"}
  Warm = {"warm"}
  SolverTests <- MCSolverTests
  Worlds <- MCWorlds
  MaxAttempts = 2
INVARIANTS
  NothingSurvivesTimeout RepairedKeepsProperty TestsAgree LineageHolds FinishedIsReadable ReturnedIsFinished
  AugmentationAnswers SolverIsUnderstood
PROPERTIES ViolationStays ControlComesBack
\* Contracts whose last call was made stop.  A tool that was waited for has nothing left to do.
CHECK_DEADLOCK FALSE
