SPECIFICATION FairHartSpec
CONSTANTS
  XLEN = 4
  NumX = 6  NumF = 1
  X5 = 3  X6 = 4
  Csrs <- MCCsrs
  MSCRATCH = "mscratch"
  Targets <- MCTargets
  Workloads <- MCWorkloads
  Draws <- MCDraws
  CodeBases <- MCAligned
  Causes <- MCCauses
  Faults <- MCFaults
  Tohost = {3}
  MISMATCH = {1, 2}
  DIVERGENCE = {0, 1, 2}
  NONE = NONE
INVARIANTS
  StimulusStartsAsDrawn
  CheckIsExact
  ReportTellsTheCause
PROPERTIES
  EveryRunReports
CHECK_DEADLOCK FALSE
