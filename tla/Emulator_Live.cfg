CONSTANTS
  LastDot = 6
  LastLine = 2
  VBlankLine = 1
  NmiDot = 4
  FrameMod = 2
  OamSize = 1
  LastVisibleLine = 1
  FirstClearDot = 4
  LastClearDot = 5
  Channels = {}
  UninitHalted = {}
  Lengths <- AllLengths
  SEQ_STEP_1 = 1
  SEQ_STEP_2 = 2
  SEQ_STEP_3 = 3
  SEQ_STEP_4 = 4
  SEQ_STEP_5 = 5
  CycleMod = 2
  Instr <- LiveProgram
  Breakpoints <- None
  Buttons <- AllBreaks
SPECIFICATION FairSpec
PROPERTIES UpdateReturns NmiServed BreakReached
