SPECIFICATION JudgementsSpec
CONSTANTS
  MaxSuffix = 2
  MaxPrefixes = 2
  MaxPlans = 1
  MaxCandidates = 2
  Blocks <- MCBlocks
  Order <- MCOrder
  Total = 3
  CommonLimit = 1
  Reserve = 1
  Margin = 1
  Calls = {"a", "b"}
  Plans <- MCPlans
  Warmups <- MCWarmups
  Seeds <- MCSeeds
  Endings = {"not_applicable", "timeout", "no_candidate"}
  Budget = 2
  MaxRecords = 3
  Holds <- MCHolds
  RepairedHolds <- MCRepairedHolds
  Proposals = {"one", "two", "none", "both"}
  PrefixLength = 1
  Warmups5 <- MCWarmups5
  Generated = {"p", "w", "two"}
  Total5 = 4
  EvidenceReserve = 1
  CleanupTolerance = 0
  MaxQueries = 2
  MaxRecords5 = 3
INVARIANTS
  ConfirmedIsReal SearchReportsAreTrue
  BenchmarkComparesArms SlotAuditIsTrue Stage5RowIsTrue
\* Every conclusion is final.
CHECK_DEADLOCK FALSE
