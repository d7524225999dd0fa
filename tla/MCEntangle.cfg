SPECIFICATION FairSpec
CONSTANTS
  x1 = x1  x2 = x2  x3 = x3
  ZERO = ZERO  REST = REST  FAIL = FAIL  TRAP = TRAP  WILD = WILD
  XLEN = 7
  Regs <- MCRegs
  WorkInstrs <- MCWorkInstrs
  Addresses <- MCAddresses
  Options <- MCOptions
  MAX_PEEK = 2
  NumInstrs = 2
  MinBlock = 2
  MaxBlock = 2
  Eval <- MCEval
  CodeAddr <- MCCodeAddr
  BootRegs <- MCBootRegs
  Noise <- MCNoise
  FixupValue <- MCFixup
  Faults <- MCNoFaults
INVARIANTS
  AccessesAreConfined
PROPERTIES
  ImplementsReplay
CHECK_DEADLOCK FALSE
