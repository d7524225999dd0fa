SPECIFICATION BuilderSpec
CONSTANTS
  x1 = x1  x2 = x2  x3 = x3  a1 = a1
  ZERO = ZERO
  Regs <- MCRegs
  WorkInstrs <- MCStdInstrs
  Addresses <- MCAddresses
  Options <- MCOptions
  MAX_PEEK = 1
  NumInstrs = 2
  MinBlock = 1
  MaxBlock = 2
INVARIANTS
  EveryWriteIsChecked
CHECK_DEADLOCK FALSE
