CONSTANTS
  TileDots = 1
  Columns = 2
  Rows = 2
  RowValues = 3
  LowRows = 1
  FineRows = 2
  FirstCopyDot = 4
  LastCopyDot = 4
  FirstFetch = 4
  LastDot = 7
  VisibleLines = 2
  LastLine = 2
SPECIFICATION MCSpec
INVARIANTS TypeOK LineScroll PictureScroll
