------------------------------- MODULE Cursor -------------------------------
(***************************************************************************)
(* The video memory cursor of the picture processing unit (ppu.h 245-269): *)
(* the address PPUDATA accesses, which is also the scroll position that    *)
(* bg_eval_ moves over the name tables while a picture is drawn.  The      *)
(* registers change it on any dot, two of them through one write toggle.   *)
(*                                                                         *)
(* The bytes at the cursor, the read buffer and the fine X scroll, which   *)
(* only pixels read, are left out; NameTables.tla has the mirroring.       *)
(***************************************************************************)
EXTENDS Integers

CONSTANTS
  TileDots,     \* dots that draw one tile, 8 in the code
  Columns,      \* tiles across a name table, 32
  Rows,         \* rows of tiles in a name table, 30
  RowValues,    \* values of the row field, 32: the rest are attributes
  LowRows,      \* values of its part in PPUADDR's low byte, 8
  FineRows,     \* lines of a tile, 8
  FirstFetch,   \* the dot before the next line's first tiles, 320
  FirstCopyDot, LastCopyDot,   \* dots that copy the vertical scroll, 280 and 304
  LastDot,      \* 340
  VisibleLines, \* lines that draw, 240
  LastLine      \* 260

VisibleDots == TileDots * Columns

CursorConstants ==
  /\ TileDots \in Nat \ {0} /\ Columns \in Nat \ {0}
  /\ LowRows \in Nat \ {0} /\ RowValues \in Nat \ {0} /\ RowValues % LowRows = 0
  /\ Rows \in 1..RowValues
  /\ FineRows \in Nat /\ FineRows > 0 /\ FineRows % 2 = 0
  /\ FirstFetch \in Nat /\ FirstFetch > VisibleDots + 1 /\ FirstFetch % TileDots = 0
  /\ LastDot \in Nat /\ LastDot > FirstFetch + 2 * TileDots
  /\ FirstCopyDot \in Nat /\ LastCopyDot \in Nat
  /\ VisibleDots + 1 < FirstCopyDot /\ FirstCopyDot <= LastCopyDot /\ LastCopyDot < LastDot
  /\ VisibleLines \in Nat /\ LastLine \in Nat /\ VisibleLines <= LastLine

ASSUME CursorAssumption == CursorConstants

VARIABLES
  v, t,       \* cursor_.v and cursor_.t: the cursor, and what it is loaded from
  w,          \* cursor_.w: the next port write is the second of a pair
  addr_inc,   \* ppuctrl_.addr_inc_
  rendering,  \* ppumask_.render_bg_ || ppumask_.render_fg_
  scanline, dot

ports == <<t, w, addr_inc, rendering>>
clock == <<scanline, dot>>
vars == <<v, ports, clock>>

(* Cursor::VRAM: a tile's column, its row, its name table and a line of it.*)
VRAM == [X : 0..(Columns - 1), Y : 0..(RowValues - 1), NX : {0, 1}, NY : {0, 1},
         y : 0..(FineRows - 1)]

Origin == [X |-> 0, Y |-> 0, NX |-> 0, NY |-> 0, y |-> 0]

TypeOK ==
  /\ v \in VRAM /\ t \in VRAM
  /\ w \in BOOLEAN /\ addr_inc \in BOOLEAN /\ rendering \in BOOLEAN
  /\ scanline \in -1..LastLine /\ dot \in 0..LastDot

Init ==
  /\ v = Origin /\ t = Origin /\ w = FALSE
  /\ addr_inc = FALSE /\ rendering = FALSE
  /\ scanline = -1 /\ dot = 0

-----------------------------------------------------------------------------
(* The cursor as a number, for PPUDATA.                                    *)

Number(c) == c.X + Columns * (c.Y + RowValues * (c.NX + 2 * c.NY + 4 * c.y))

(* A slip: the increment of a wide address loses its carry into y.         *)
FromNumberUnmasked(n) ==
  LET rows == n \div Columns
      tables == rows \div RowValues
  IN  [X |-> n % Columns, Y |-> rows % RowValues, NX |-> tables % 2,
       NY |-> (tables \div 2) % 2, y |-> tables \div 4]

FromNumber(n) ==
  LET rows == n \div Columns
      tables == rows \div RowValues
  IN  [X |-> n % Columns, Y |-> rows % RowValues, NX |-> tables % 2,
       NY |-> (tables \div 2) % 2, y |-> (tables \div 4) % FineRows]

-----------------------------------------------------------------------------
(* bg_eval_ and tick_: what drawing does to the cursor.  Each definition   *)
(* named for a slip is a wrong version of the one that follows it.         *)

(* A slip: the next line after the last row is drawn from the same table.  *)
LowerLineOneTable(c) ==
  IF c.y < FineRows - 1 THEN [c EXCEPT !.y = @ + 1]
  ELSE IF c.Y \in {Rows - 1, RowValues - 1} THEN [c EXCEPT !.y = 0, !.Y = 0]
  ELSE [c EXCEPT !.y = 0, !.Y = @ + 1]

(* One line down: past the last row of tiles is the other name table, past *)
(* the attributes the same one.                                            *)
LowerLine(c) ==
  IF c.y < FineRows - 1 THEN [c EXCEPT !.y = @ + 1]
  ELSE IF c.Y = Rows - 1 THEN [c EXCEPT !.y = 0, !.Y = 0, !.NY = 1 - @]
  ELSE IF c.Y = RowValues - 1 THEN [c EXCEPT !.y = 0, !.Y = 0]
  ELSE [c EXCEPT !.y = 0, !.Y = @ + 1]

NextTile(c) ==
  IF c.X = Columns - 1 THEN [c EXCEPT !.X = 0, !.NX = 1 - @] ELSE [c EXCEPT !.X = @ + 1]

(* A slip: the name table of the line before is kept.                      *)
CopyColumnOnly(c) == [c EXCEPT !.X = t.X]
CopyHorizontal(c) == [c EXCEPT !.X = t.X, !.NX = t.NX]
CopyVertical(c) == [c EXCEPT !.Y = t.Y, !.y = t.y, !.NY = t.NY]

Draws == rendering /\ scanline < VisibleLines

FetchesTile ==
  /\ dot % TileDots = 0
  /\ dot \in 1..VisibleDots \/ dot \in (FirstFetch + 1)..(FirstFetch + 2 * TileDots)

bg_eval_ ==
  CASE Draws /\ dot = VisibleDots -> NextTile(LowerLine(v))
    [] Draws /\ dot = VisibleDots + 1 -> CopyHorizontal(v)
    [] Draws /\ FetchesTile /\ dot # VisibleDots -> NextTile(v)
    [] OTHER -> v

(* The dot that odd frames skip moves nothing: any frame may skip it.      *)
Advance ==
  \E skip \in BOOLEAN :
    /\ skip => rendering /\ scanline = -1 /\ dot = LastDot - 1
    /\ LET line_ends == skip \/ dot = LastDot
       IN  /\ dot' = IF line_ends THEN 0 ELSE dot + 1
           /\ scanline' = IF ~line_ends THEN scanline
                          ELSE IF scanline = LastLine THEN -1 ELSE scanline + 1

CopiesVertical == rendering /\ scanline = -1 /\ dot \in FirstCopyDot..LastCopyDot

step ==
  /\ Advance
  /\ UNCHANGED ports
  /\ v' = IF CopiesVertical' THEN CopyVertical(bg_eval_) ELSE bg_eval_

-----------------------------------------------------------------------------
(* The registers                                                           *)

write_ppuctrl ==
  /\ \E nam_x, nam_y \in {0, 1} : t' = [t EXCEPT !.NX = nam_x, !.NY = nam_y]
  /\ addr_inc' \in BOOLEAN
  /\ UNCHANGED <<v, w, rendering, clock>>

write_ppumask == rendering' \in BOOLEAN /\ UNCHANGED <<v, t, w, addr_inc, clock>>

read_ppustatus == w' = FALSE /\ UNCHANGED <<v, t, addr_inc, rendering, clock>>

(* The column first, then the row.                                         *)
write_ppuscroll ==
  /\ \/ ~w /\ \E column \in 0..(Columns - 1) : t' = [t EXCEPT !.X = column]
     \/ w /\ \E row \in 0..(RowValues - 1), line \in 0..(FineRows - 1) :
               t' = [t EXCEPT !.Y = row, !.y = line]
  /\ w' = ~w
  /\ UNCHANGED <<v, addr_inc, rendering, clock>>

(* The high byte first, whose two top bits are cleared: it holds the line, *)
(* short of its top bit, the name table and the top of the row.  The low   *)
(* byte holds the rest, and loads the cursor.                              *)
PpuAddrHigh ==
  \E line \in 0..(FineRows \div 2 - 1), nam_x, nam_y \in {0, 1},
     high \in 0..(RowValues \div LowRows - 1) :
    t' = [t EXCEPT !.y = line, !.NX = nam_x, !.NY = nam_y,
                   !.Y = high * LowRows + (@ % LowRows)]

PpuAddrLow ==
  \E low \in 0..(LowRows - 1), column \in 0..(Columns - 1) :
    t' = [t EXCEPT !.Y = (@ \div LowRows) * LowRows + low, !.X = column]

write_ppuaddr ==
  /\ \/ ~w /\ PpuAddrHigh /\ UNCHANGED v
     \/ w /\ PpuAddrLow /\ v' = t'
  /\ w' = ~w
  /\ UNCHANGED <<addr_inc, rendering, clock>>

(* A read or a write of PPUDATA moves to the next byte, or a row down.     *)
access_ppudata ==
  /\ v' = FromNumber(Number(v) + (IF addr_inc THEN Columns ELSE 1))
  /\ UNCHANGED <<ports, clock>>

reset ==
  /\ v' = Origin /\ t' = Origin /\ w' = FALSE
  /\ addr_inc' = FALSE /\ rendering' = FALSE
  /\ scanline' = -1 /\ dot' = 0

Ports ==
  \/ write_ppuctrl \/ write_ppumask \/ read_ppustatus
  \/ write_ppuscroll \/ write_ppuaddr \/ access_ppudata

Next == step \/ Ports \/ reset

Spec == Init /\ [][Next]_vars
=============================================================================
