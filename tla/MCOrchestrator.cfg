SPECIFICATION BatchSpec
CONSTANTS
  NumElfs = 3
  NumPcs = 2
  CoreCounts <- MCCoreCounts
  Verdicts <- MCVerdicts
INVARIANTS
  BatchIsAPrefix
  SuccessMeansPrograms
PROPERTIES
  OnlyVerifiedProgramsAreWritten
  EveryBatchEnds
CHECK_DEADLOCK FALSE
