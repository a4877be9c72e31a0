CONSTANTS
  LastDot = 6
  LastLine = 3
  VBlankLine = 2
  NmiDot = 4
  FrameMod = 2
  MaxCount = 2
SPECIFICATION MCSpec
PROPERTY VBlankIsSet
