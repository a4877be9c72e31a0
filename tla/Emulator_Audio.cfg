CONSTANTS
  LastDot = 4
  LastLine = 1
  VBlankLine = 1
  NmiDot = 3
  FrameMod = 2
  OamSize = 1
  LastVisibleLine = 1
  FirstClearDot = 4
  LastClearDot = 5
  Channels = {"triangle"}
  UninitHalted = {"triangle"}
  Lengths <- AllLengths
  SEQ_STEP_1 = 1
  SEQ_STEP_2 = 2
  SEQ_STEP_3 = 3
  SEQ_STEP_4 = 4
  SEQ_STEP_5 = 5
  CycleMod = 2
  Instr <- AudioProgram
  Breakpoints <- None
  Buttons <- None
SPECIFICATION Spec
PROPERTY ApuImplemented
