------------------------------ MODULE MCCursor ------------------------------
(***************************************************************************)
(* The cursor with a history of where its line and its picture began.  The *)
(* history only watches: it guards nothing.                                *)
(***************************************************************************)
EXTENDS Cursor

T == INSTANCE NameTables

(* The theorems of Bus_proofs, at the corners of the tables, of     *)
(* their mirrors and of the palettes.                                      *)
Samples == {256 * page + place : page \in 32..62, place \in {0, 16, 255}}

ASSUME MirroringsFold ==
  \A mirroring \in T!Mirrorings :
    /\ \A a, b \in Samples : T!MirroringFolds(mirroring, a, b)
    /\ \A a \in T!Addresses : T!Owner(mirroring, a) # "nobody"

(* The pixel column of tiles and the pixel line, over both name tables.    *)
Column(c) == c.NX * Columns + c.X
Line(c) == (c.NY * Rows + c.Y) * FineRows + c.y

None == -1

VARIABLES
  line_from,    \* the column the current line was started from, or None
  picture_from  \* the line the picture was started from, or None

mc_vars == <<vars, line_from, picture_from>>

MCInit == Init /\ line_from = None /\ picture_from = None

(* What takes the cursor away from the picture: a loaded address, a data   *)
(* access, a reset, rendering switched.  A scroll write does not.          *)
Disturbs == reset \/ (Ports /\ (v' # v \/ rendering' # rendering))

Watch ==
  /\ line_from' = IF Disturbs THEN None
                  ELSE IF step /\ Draws /\ dot = VisibleDots + 1 THEN Column(t)
                  ELSE line_from
  /\ picture_from' = IF Disturbs THEN None
                     ELSE IF step /\ CopiesVertical'
                          THEN IF t.Y < Rows THEN Line(t) ELSE None
                     ELSE picture_from

MCNext == Next /\ Watch

MCSpec == MCInit /\ [][MCNext]_mc_vars

-----------------------------------------------------------------------------
(* Tiles fetched since the line was started, at its end or on the next.    *)
TilesFetched ==
  IF dot = 0 THEN 2
  ELSE IF dot <= VisibleDots + 1 THEN 2 + (dot - 1) \div TileDots
  ELSE IF dot <= FirstFetch THEN 0
  ELSE IF dot <= FirstFetch + 2 * TileDots THEN (dot - 1 - FirstFetch) \div TileDots
  ELSE 2

(* A line draws consecutive columns from the scroll position it was        *)
(* started with (ppu.cpp 264-336), crossing from one name table to the     *)
(* other and back: a scroll written while it is drawn waits for the next   *)
(* line, and a switched name table too.                                    *)
LineScroll ==
  line_from # None /\ scanline < VisibleLines =>
    Column(v) = (line_from + TilesFetched) % (2 * Columns)

(* A picture draws consecutive lines from the vertical scroll copied       *)
(* before it (ppu.cpp 235-262 and 521-527), passing over the attributes    *)
(* that lie between two name tables; a scroll written during the picture   *)
(* waits for the next one.                                                 *)
PictureScroll ==
  picture_from # None /\ scanline \in 0..(VisibleLines - 1) =>
    /\ v.Y < Rows
    /\ Line(v) = (picture_from + scanline + (IF dot > VisibleDots THEN 1 ELSE 0))
                   % (2 * Rows * FineRows)
=============================================================================
