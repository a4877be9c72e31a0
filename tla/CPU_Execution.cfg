CONSTANTS
  Half = 4
  AndBits <- AndOf
  OrBits <- OrOf
  XorBits <- XorOf
  Base = 8
  kCarry = 1
  kIntDisable = 2
  kBreak = 4
  Code <- MCCode
  Inputs = {1}
  NmiVector = 32
  ResetVector = 7
  IrqVector = 48
  Room = 8
SPECIFICATION ExecutionSpec
INVARIANTS RotationsInvert OpenedByProgram
PROPERTIES ArithmeticIsExact FlagsDescribe CallsImplemented
