SPECIFICATION BuilderSpec
CONSTANTS
  x1 = x1  x2 = x2  x3 = x3  a1 = a1
  ZERO = ZERO
  Regs <- MCRegs
  WorkInstrs <- MCWorkInstrs
  Addresses <- MCAddresses
  Options <- MCOptions
  MAX_PEEK = 1
  NumInstrs = 3
  MinBlock = 2
  MaxBlock = 3
INVARIANTS
  BuilderTypeOK
  FreshIsPending
  GuardsCheckAllPending
  UncheckedIsBounded
  SitesReadPending
  JumpsSparePending
  SitesTileTheCode
CHECK_DEADLOCK FALSE
