----------------------------- MODULE VideoMemory ----------------------------
(***************************************************************************)
(* Video memory as a program sees it through PPUDATA (ppu.cpp 116-119,     *)
(* 159-174 and 180-216): the name tables, folded by the mirroring that the *)
(* mapper sets, and the palette.  A table's byte is answered one read      *)
(* late.  The patterns are the mapper's; where the cursor points is the    *)
(* Cursor module's, and any of a few addresses here.                       *)
(***************************************************************************)
EXTENDS NameTables

CONSTANTS
  Sampled,     \* the addresses used
  Bytes        \* 0..255

VideoConstants == 0 \in Bytes /\ Sampled \subseteq Tables..(Space - 1)

Cells == {mirror_addr_(m, addr) : m \in Mirrorings, addr \in Sampled}

VARIABLES
  cells,         \* memory_ and palette_, by address
  read_buffer_,
  mirroring_,
  answer         \* what the last read answered

vars == <<cells, read_buffer_, mirroring_, answer>>

(* The arrays have no initial value.                                       *)
Init ==
  /\ cells \in [Cells -> Bytes]
  /\ read_buffer_ = 0
  /\ mirroring_ \in Mirrorings
  /\ answer = 0

Cell(addr) == mirror_addr_(mirroring_, addr)

IsPalette(addr) == Palette <= addr

(* A slip: only the palette and not its mirrors is answered at once.       *)
MirrorsLate(addr) == InPalette(addr)

AtOnce(addr) == IsPalette(addr)

(* on_read_cpu at PPUDATA                                                  *)
read_ppudata(addr) ==
  /\ read_buffer_' = cells[Cell(addr)]
  /\ answer' = IF AtOnce(addr) THEN read_buffer_' ELSE read_buffer_
  /\ UNCHANGED <<cells, mirroring_>>

write_ppudata(addr, byte) ==
  /\ cells' = [cells EXCEPT ![Cell(addr)] = byte]
  /\ UNCHANGED <<read_buffer_, mirroring_, answer>>

(* A mapper's control register, or a cartridge that is loaded.             *)
set_mirroring(mirroring) ==
  /\ mirroring_' = mirroring
  /\ UNCHANGED <<cells, read_buffer_, answer>>

(* Memory and mirroring outlive it.                                        *)
reset ==
  /\ read_buffer_' = 0
  /\ UNCHANGED <<cells, mirroring_, answer>>

Next ==
  \/ \E addr \in Sampled : read_ppudata(addr) \/ (\E byte \in Bytes : write_ppudata(addr, byte))
  \/ \E mirroring \in Mirrorings : set_mirroring(mirroring)
  \/ reset

Spec == Init /\ [][Next]_vars
=============================================================================
