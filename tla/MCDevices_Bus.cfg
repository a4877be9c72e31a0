CONSTANTS
  PrgBanks = 3
  ChrBanks = 2
  a = a
  b = b
  c = c
  Games = {a, b, c}
  Batteries = {a, b}
  Top = 2
  Bytes = {0, 1, 26}
  EndOfText = 26
  ButtonCount = 4
  f1 = f1
  f2 = f2
  f3 = f3
  f4 = f4
  Files = {f1, f2, f3, f4}
  recent_file_max = 3
  \* Three lines: the first makes no lookup, the second shows the last one of
  \* the picture before, and the third its own picture's.
  LastColumn = 2
  VisibleLines = 3
  LastLine = 3
  MaxSprites = 2
  Pictures <- ThePictures
  Height = 1
  Opaque <- TheOpaque
SYMMETRY Symmetry
SPECIFICATION DevicesSpec
INVARIANTS TypeOK WholeBank ReadyIsEnough ReportInOrder RecentFirst SpriteZeroHit ReadsBack
PROPERTIES SerialOrder SavesRestored SpritesOfLine
\* A failed assertion ends the program.
CHECK_DEADLOCK FALSE
