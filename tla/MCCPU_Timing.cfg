CONSTANTS
  Instr <- MCInstr
  CycleMod = 2
SPECIFICATION MCSpec
INVARIANT IdleTicks
PROPERTIES ExactTiming NmiNotLost
