-------------------------------- MODULE OAM ---------------------------------
(***************************************************************************)
(* Object memory of the PPU: the OAM array, its address register and the   *)
(* request for a page transfer (src/src/ppu.cpp, src/src/ppu.h).           *)
(*                                                                         *)
(* A cell holds the page its byte was last copied from; that is what the   *)
(* properties of a transfer tell apart.                                    *)
(***************************************************************************)
EXTENDS Integers

CONSTANTS
  OamSize,          \* number of cells, 256 in the code
  LastVisibleLine,  \* last line on which sprites are evaluated, 239
  FirstClearDot,    \* dots of such a line that clear the address, 257
  LastClearDot      \* .. to 320

OAMConstants ==
  /\ OamSize \in 1..256
  /\ LastVisibleLine \in Nat /\ FirstClearDot \in Nat /\ LastClearDot \in Nat

VARIABLES
  oam,            \* oam_
  oamaddr,        \* oamaddr_
  dma_requested,  \* dma_requested_
  dma_page_idx    \* dma_page_idx_

oam_vars == <<oam, oamaddr, dma_requested, dma_page_idx>>

Cells == 0..(OamSize - 1)
Pages == 0..255
Filled == -1      \* a byte of oam_.fill(0xFF)
Written == -2     \* a byte stored through OAMDATA

TypeOK ==
  /\ oam \in [Cells -> Pages \cup {Filled, Written}]
  /\ oamaddr \in Cells
  /\ dma_requested \in BOOLEAN
  /\ dma_page_idx \in Pages

Init ==
  /\ oam = [i \in Cells |-> Filled]
  /\ oamaddr = 0
  /\ dma_requested = FALSE
  /\ dma_page_idx = 0

(* The part of PPU::reset about object memory: the address and the page    *)
(* keep their values.                                                      *)
reset ==
  /\ oam' = [i \in Cells |-> Filled]
  /\ dma_requested' = FALSE
  /\ UNCHANGED <<oamaddr, dma_page_idx>>

(* $2003 and $2004; the address is a byte and wraps.                       *)
write_oamaddr(value) ==
  /\ oamaddr' = value % OamSize
  /\ UNCHANGED <<oam, dma_requested, dma_page_idx>>

write_oamdata ==
  /\ oam' = [oam EXCEPT ![oamaddr] = Written]
  /\ oamaddr' = IF oamaddr = OamSize - 1 THEN 0 ELSE oamaddr + 1
  /\ UNCHANGED <<dma_requested, dma_page_idx>>

(* $4014                                                                   *)
write_oamdma(value) ==
  /\ dma_requested' = TRUE
  /\ dma_page_idx' = value
  /\ UNCHANGED <<oam, oamaddr>>

(* One byte of a transfer.  The cell is the byte's own index: oamaddr_ has *)
(* no part in it.                                                          *)
dma_copy_byte(i) ==
  /\ oam' = [oam EXCEPT ![i] = dma_page_idx]
  /\ UNCHANGED <<oamaddr, dma_requested, dma_page_idx>>

grab_dma_request ==
  /\ dma_requested' = FALSE
  /\ UNCHANGED <<oam, oamaddr, dma_page_idx>>

(* What sprite evaluation does to the address register.                    *)
fg_eval_(line, dot, rendering) ==
  /\ oamaddr' = IF /\ rendering
                   /\ line \in 1..LastVisibleLine
                   /\ dot \in FirstClearDot..LastClearDot
                THEN 0 ELSE oamaddr
  /\ UNCHANGED <<oam, dma_requested, dma_page_idx>>
=============================================================================
