------------------------------ MODULE MCSprites -----------------------------
(***************************************************************************)
(* Sprites with a history of which lookup the line that is drawn shows, and *)
(* of what the first sprite has touched.  The history only watches.        *)
(***************************************************************************)
EXTENDS Sprites

VARIABLES
  emptied,    \* the halves were exchanged at the head of the last line with a lookup
  looked_up,  \* the lookup made since then: none, or what it read and for which line
  shown,      \* the lookup that is shown, where it is one whole lookup
  touched,    \* the first sprite has touched the background in this picture
  mixed       \* a line of this picture shows something else

history == <<emptied, looked_up, shown, touched, mixed>>
mc_vars == <<vars, history>>

MCInit ==
  /\ Init
  /\ emptied = FALSE /\ looked_up = {} /\ shown = {}
  /\ touched = FALSE /\ mixed = FALSE

-----------------------------------------------------------------------------
(* The reference: a sprite is shown on the line below a line it covers     *)
(* unless MaxSprites before it do, and the first one in object memory that *)
(* is opaque is in front.                                                  *)
CoveredBy(lookup, i) ==
  lookup.oam[i].y <= lookup.line /\ lookup.line < lookup.oam[i].y + lookup.height

ShownAt(lookup, col) ==
  {i \in DOMAIN lookup.oam :
     /\ CoveredBy(lookup, i)
     /\ Cardinality({j \in 1..(i - 1) : CoveredBy(lookup, j)}) < MaxSprites
     /\ (col - lookup.oam[i].x) \in
          Opaque[lookup.oam[i].tile][lookup.line - lookup.oam[i].y]}

InFront(lookup, col, i) == i \in ShownAt(lookup, col) /\ ShownAt(lookup, col) \cap 1..(i - 1) = {}

Lookups == {[oam |-> oam, height |-> Tallness, line |-> scanline]}

-----------------------------------------------------------------------------
Touches(opaque_bg) ==
  /\ Draws /\ render_bg /\ render_fg /\ opaque_bg /\ column < LastColumn
  /\ \E lookup \in shown' : InFront(lookup, column, 1)

(* The head of a line with a lookup.                                       *)
Begins == column = 0 /\ scanline \in 1..(VisibleLines - 1)

Watch(opaque_bg) ==
  /\ emptied' = IF Begins THEN Rendering ELSE emptied
  /\ looked_up' = IF Begins THEN {}
                  ELSE IF column = LastColumn /\ Evaluates /\ emptied THEN Lookups
                  ELSE looked_up
  /\ shown' = IF Begins THEN IF Rendering THEN looked_up ELSE {} ELSE shown
  /\ touched' = (~ClearsFlags /\ (touched \/ Touches(opaque_bg)))
  /\ mixed' = (~ClearsFlags /\ (mixed \/ (Draws /\ shown' = {})))

MCstep == \E opaque_bg \in BOOLEAN : step(opaque_bg) /\ Watch(opaque_bg)

(* A reset leaves the flags of the picture it ends.                        *)
MCPorts ==
  /\ Ports
  /\ IF reset
     THEN emptied' = FALSE /\ looked_up' = {} /\ shown' = {} /\ UNCHANGED <<touched, mixed>>
     ELSE UNCHANGED history

MCNext == MCstep \/ MCPorts

MCSpec == MCInit /\ [][MCNext]_mc_vars

-----------------------------------------------------------------------------
(* The line whose lookup a line shows.                                     *)
ShownOn(line) ==
  CASE line \in 2..(VisibleLines - 1) -> line - 1
    [] line = 1 -> VisibleLines - 1
    [] OTHER -> VisibleLines - 2

(* A line shows the sprites found at the end of the line before it, with   *)
(* object memory and the size as they were then, the first eight of them   *)
(* and the first in front (ppu.cpp 339-446); the first two lines still     *)
(* show what the last lines of the picture before found.                   *)
SpritesOfLine ==
  [][\A lookup \in shown' : MCstep /\ Draws =>
       /\ lookup.line = ShownOn(scanline)
       /\ IF Foreground = 0 THEN ~render_fg \/ ShownAt(lookup, column) = {}
          ELSE \E i \in DOMAIN oam \union DOMAIN lookup.oam :
                 /\ InFront(lookup, column, i)
                 /\ read.list[Foreground] =
                      [tile |-> lookup.oam[i].tile, x |-> lookup.oam[i].x,
                       row |-> lookup.line - lookup.oam[i].y]]_mc_vars

(* The hit that programs split the screen by is the first sprite's in      *)
(* front of the background, in this picture: one that was seen is kept to  *)
(* its end and no other sprite makes one, as long as every line drawn is a *)
(* whole lookup's (ppu.cpp 448-454 and 519).                               *)
SpriteZeroHit ==
  (touched => sprite_0_hit) /\ (sprite_0_hit => touched \/ mixed)
=============================================================================
