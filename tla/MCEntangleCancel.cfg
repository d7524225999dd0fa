SPECIFICATION Spec
CONSTANTS
  x1 = x1  x2 = x2  x3 = x3
  ZERO = ZERO  REST = REST  FAIL = FAIL  TRAP = TRAP  WILD = WILD
  XLEN = 7
  Regs <- MCRegs
  WorkInstrs <- MCFaultWork
  Addresses <- MCAddresses
  Options <- MCFaultOptions
  MAX_PEEK = 1
  NumInstrs = 3
  MinBlock = 2
  MaxBlock = 3
  Eval <- MCEval
  CodeAddr <- MCCodeAddr
  BootRegs <- MCDeviceBoot
  Noise <- MCNoise
  FixupValue <- MCFixup
  Faults <- MCFaults
INVARIANTS
  GuardsNoticeAnyWrongValue
CHECK_DEADLOCK FALSE
