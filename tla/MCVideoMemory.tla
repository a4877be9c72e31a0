---------------------------- MODULE MCVideoMemory ---------------------------
(***************************************************************************)
(* Video memory with a history of what a program knows of it: what it      *)
(* wrote last at each address, with no knowledge of where memory is.       *)
(***************************************************************************)
EXTENDS VideoMemory

VARIABLES
  known,     \* by address: the byte it holds, or none
  buffered,  \* the byte the next late answer gives, or none
  expected   \* what the last answer should be, or none

mc_vars == <<vars, known, buffered, expected>>

MCInit ==
  /\ Init
  /\ known = [addr \in Sampled |-> {}] /\ buffered = {0} /\ expected = {}

(* Two palette entries are one when they are the same modulo 32, and the   *)
(* first of each four is shared by the background's and the sprites'.      *)
SameColour(a, b) == a % 32 = b % 32 \/ (a % 4 = 0 /\ b % 4 = 0 /\ a % 16 = b % 16)

Same(a, b) ==
  IF IsPalette(a) \/ IsPalette(b) THEN IsPalette(a) /\ IsPalette(b) /\ SameColour(a, b)
  ELSE SameTable(mirroring_, Table(a), Table(b)) /\ a % TableSize = b % TableSize

(* A switch of the mirroring moves every table but the first.              *)
Keeps(addr) == IsPalette(addr) \/ Table(addr) = 0

MCread(addr) ==
  /\ read_ppudata(addr)
  /\ buffered' = known[addr]
  /\ expected' = IF IsPalette(addr) THEN known[addr] ELSE buffered
  /\ UNCHANGED known

MCwrite(addr, byte) ==
  /\ write_ppudata(addr, byte)
  /\ known' = [a \in Sampled |-> IF Same(a, addr) THEN {byte} ELSE known[a]]
  /\ UNCHANGED <<buffered, expected>>

MCset_mirroring(mirroring) ==
  /\ set_mirroring(mirroring)
  /\ known' = [a \in Sampled |-> IF Keeps(a) \/ mirroring = mirroring_ THEN known[a] ELSE {}]
  /\ UNCHANGED <<buffered, expected>>

MCNext ==
  \/ \E addr \in Sampled : MCread(addr) \/ (\E byte \in Bytes : MCwrite(addr, byte))
  \/ \E mirroring \in Mirrorings : MCset_mirroring(mirroring)
  \/ reset /\ buffered' = {0} /\ UNCHANGED <<known, expected>>

MCSpec == MCInit /\ [][MCNext]_mc_vars

(* What was written last at any address of the same cell is read back,     *)
(* from the palette at once and from a table by the read after: through    *)
(* every mirror, and past any switch of the mirroring for the first table  *)
(* and the palette (ppu.cpp 159-174 and 595-636).                          *)
ReadsBack == \A byte \in expected : answer = byte
=============================================================================
