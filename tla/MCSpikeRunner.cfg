SPECIFICATION FairRunnerSpec
CONSTANTS
  NumPcs = 3
  NumFregs = 2
  PipeSize = 2
  Deadline = 3
  Verdicts <- MCVerdicts
INVARIANTS
  CompleteRunsAreDelivered
  NothingIsLeftBehind
PROPERTIES
  ImplementsOracle
  DeathBeatsTheDeadline
  FullPipeDrains
  EveryCallReturns
CHECK_DEADLOCK FALSE
