SPECIFICATION Spec
CONSTANTS
  x1 = x1  x2 = x2  x3 = x3
  ZERO = ZERO  REST = REST  FAIL = FAIL  TRAP = TRAP  WILD = WILD
  XLEN = 7
  Regs <- MCRegs
  WorkInstrs <- MCDeviceWork
  Addresses <- MCAddresses
  Options <- MCFaultOptions
  MAX_PEEK = 1
  NumInstrs = 2
  MinBlock = 1
  MaxBlock = 2
  Eval <- MCEval
  CodeAddr <- MCCodeAddr
  BootRegs <- MCDeviceBoot
  Noise <- MCNoise
  FixupValue <- MCFixup
  Faults <- MCFaults
INVARIANTS
  GuardsSeeTheSum
  JumpsSeeTheSum
  NoFalseAlarm
PROPERTIES
  OnlyWrongOperandsDivert
CHECK_DEADLOCK FALSE
