------------------------------- MODULE Sprites ------------------------------
(***************************************************************************)
(* The sprites of the picture (PPU::fg_eval_ and PPU::render_, ppu.cpp 339 *)
(* to 473): at the end of a line the sprites of the next are looked up and *)
(* put in one half of a double buffer, and at the head of a line the       *)
(* halves are exchanged.  The lookup and the exchange do not happen on     *)
(* line 0, nor while rendering is off.                                     *)
(*                                                                         *)
(* A tile is what a sprite looks like, colours and flips included: the     *)
(* columns where each of its rows is opaque.  The background is opaque or  *)
(* not at any dot.  The left-column masks are left out.  A column is a dot *)
(* 1 to 256; the rest of a line is one dot here.                           *)
(***************************************************************************)
EXTENDS SequencesExt

CONSTANTS
  LastColumn,      \* 255
  VisibleLines,    \* 240
  LastLine,        \* 260
  MaxSprites,      \* 8, of a line
  Pictures,        \* what object memory can hold: sequences of sprites, [y, x, tile]
  Height,          \* 8; a tall sprite's is twice that
  Opaque           \* the columns where a row of a tile is opaque

Hidden == <<>>     \* object memory full of 0xFF: no sprite is on any line

SpriteConstants ==
  /\ {LastColumn, VisibleLines, LastLine, MaxSprites, Height} \subseteq Nat
  /\ VisibleLines > 2 /\ LastLine >= VisibleLines
  /\ Hidden \in Pictures
  /\ \A p \in Pictures : p \in Seq([y : Nat, x : Nat, tile : DOMAIN Opaque])
  /\ \A tile \in DOMAIN Opaque : DOMAIN Opaque[tile] = 0..(2 * Height - 1)

VARIABLES
  scanline, column,      \* column LastColumn + 1 is the rest of the line
  render_bg, render_fg,  \* of ppumask_
  tall,                  \* sprite_size_
  oam,                   \* oam_
  states, selector,      \* secondary_oam_: the halves, and which is read
  sprite_0_hit, sprite_overflow   \* of ppustatus_

memory == <<oam, states, selector>>
flags == <<sprite_0_hit, sprite_overflow>>
vars == <<scanline, column, render_bg, render_fg, tall, memory, flags>>

(* SecondaryOAM::reset                                                     *)
NoSprites == [list |-> <<>>, has_sprite_0 |-> FALSE]

Rendering == render_bg \/ render_fg

Init ==
  /\ scanline = LastLine /\ column = LastColumn + 1
  /\ render_bg = FALSE /\ render_fg = FALSE /\ tall = FALSE
  /\ oam \in Pictures
  /\ states = [half \in BOOLEAN |-> NoSprites] /\ selector = FALSE
  /\ sprite_0_hit = FALSE /\ sprite_overflow = FALSE

-----------------------------------------------------------------------------
(* fg_eval_                                                                *)

Tallness == IF tall THEN 2 * Height ELSE Height

(* A row of the sprite is on this line: it is drawn on the next.           *)
Covers(sprite, line) == line - sprite.y \in 0..(Tallness - 1)

Entry(sprite, line) == [tile |-> sprite.tile, x |-> sprite.x, row |-> line - sprite.y]

OnLine(line) == {i \in DOMAIN oam : Covers(oam[i], line)}

Before(line, i) == Cardinality(OnLine(line) \cap 1..(i - 1))

(* The first of object memory that there is room for.                      *)
Chosen(line, room) ==
  [k \in 1..(IF Cardinality(OnLine(line)) < room THEN Cardinality(OnLine(line)) ELSE room) |->
     CHOOSE i \in OnLine(line) : Before(line, i) = k - 1]

(* load_sprite_ of each.                                                   *)
Evaluated(half) ==
  LET chosen == Chosen(scanline, MaxSprites - Len(half.list))
  IN  [list |-> half.list \o [k \in DOMAIN chosen |-> Entry(oam[chosen[k]], scanline)],
       has_sprite_0 |-> half.has_sprite_0 \/ 1 \in ToSet(chosen)]

Stored == ~selector     \* Latch::store; the half read is the other

Evaluates == Rendering /\ scanline \in 1..(VisibleLines - 1)

(* A slip: the halves are exchanged and the new one is not emptied.        *)
FlipOnly == selector' = ~selector /\ UNCHANGED states

Flip ==
  /\ selector' = ~selector
  /\ states' = [states EXCEPT ![selector] = NoSprites]

Lookup ==
  /\ states' = [states EXCEPT ![Stored] = Evaluated(@)]
  /\ UNCHANGED selector

fg_eval_ ==
  IF Evaluates /\ column = 0 THEN Flip
  ELSE IF Evaluates /\ column = LastColumn THEN Lookup
  ELSE UNCHANGED <<states, selector>>

Overflows ==
  /\ Evaluates /\ column = LastColumn
  /\ Len(states[Stored].list) + Cardinality(OnLine(scanline)) > MaxSprites

-----------------------------------------------------------------------------
(* render_, of the sprites; it reads what fg_eval_ leaves.                 *)

OpaqueAt(entry, col) == col - entry.x \in Opaque[entry.tile][entry.row]

(* The first of the line's sprites that is not transparent here, or 0.     *)
Frontmost(list, col) ==
  LET at == {k \in DOMAIN list : OpaqueAt(list[k], col)}
  IN  IF at = {} THEN 0 ELSE Min(at)

Draws == scanline \in 0..(VisibleLines - 1) /\ column <= LastColumn

read == states'[selector']

Foreground == IF render_fg THEN Frontmost(read.list, column) ELSE 0

(* A slip: any sprite of a line that the first one is on makes the hit.    *)
HitsOfAny(opaque_bg) ==
  /\ Draws /\ Foreground # 0 /\ read.has_sprite_0
  /\ opaque_bg /\ render_bg /\ column < LastColumn

Hits(opaque_bg) ==
  /\ Draws /\ Foreground = 1 /\ read.has_sprite_0
  /\ opaque_bg /\ render_bg /\ column < LastColumn

(* tick_: the flags are cleared as the pre-render line begins.             *)
Advance ==
  IF column <= LastColumn THEN column' = column + 1 /\ UNCHANGED scanline
  ELSE column' = 0 /\ scanline' = IF scanline = LastLine THEN -1 ELSE scanline + 1

ClearsFlags == scanline = LastLine /\ column > LastColumn

Flags(opaque_bg) ==
  /\ sprite_overflow' = (~ClearsFlags /\ (sprite_overflow \/ Overflows))
  /\ sprite_0_hit' = (~ClearsFlags /\ (sprite_0_hit \/ Hits(opaque_bg)))

step(opaque_bg) ==
  /\ fg_eval_ /\ Advance /\ Flags(opaque_bg)
  /\ UNCHANGED <<render_bg, render_fg, tall, oam>>

-----------------------------------------------------------------------------
(* What a program does between two dots                                    *)

write_ppumask ==
  /\ render_bg' \in BOOLEAN /\ render_fg' \in BOOLEAN
  /\ UNCHANGED <<scanline, column, tall, memory, flags>>

write_ppuctrl ==
  /\ tall' \in BOOLEAN
  /\ UNCHANGED <<scanline, column, render_bg, render_fg, memory, flags>>

(* A transfer into object memory.                                          *)
write_oam ==
  /\ oam' \in Pictures
  /\ UNCHANGED <<scanline, column, render_bg, render_fg, tall, states, selector, flags>>

(* Dot 0 of the pre-render line counts as the rest of the line before it.  *)
(* The two halves outlive a reset.                                         *)
reset ==
  /\ scanline' = LastLine /\ column' = LastColumn + 1
  /\ render_bg' = FALSE /\ render_fg' = FALSE /\ tall' = FALSE
  /\ oam' = Hidden
  /\ UNCHANGED <<states, selector, flags>>

Ports == write_ppumask \/ write_ppuctrl \/ write_oam \/ reset

Next == (\E opaque_bg \in BOOLEAN : step(opaque_bg)) \/ Ports

Spec == Init /\ [][Next]_vars
=============================================================================
