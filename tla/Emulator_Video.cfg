CONSTANTS
  LastDot = 4
  LastLine = 1
  VBlankLine = 1
  NmiDot = 3
  FrameMod = 2
  OamSize = 1
  LastVisibleLine = 1
  FirstClearDot = 4
  LastClearDot = 5
  Channels = {}
  UninitHalted = {}
  Lengths <- AllLengths
  SEQ_STEP_1 = 1
  SEQ_STEP_2 = 2
  SEQ_STEP_3 = 3
  SEQ_STEP_4 = 4
  SEQ_STEP_5 = 5
  CycleMod = 2
  Instr <- VideoProgram
  Breakpoints <- StopBreakpoint
  Buttons <- CpuBreak
SPECIFICATION Spec
INVARIANTS ThreeDotsPerCycle FrameNotOverrun
PROPERTIES PpuImplemented CpuImplemented
