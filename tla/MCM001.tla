------------------------------- MODULE MCM001 -------------------------------
(***************************************************************************)
(* The mapper with a history of the bits a program has written and of the  *)
(* character mode it has used, in a machine that can be reset: the reset   *)
(* leaves the mapper as it is, and the program begins again not knowing    *)
(* what is in it.  The history only watches.                               *)
(***************************************************************************)
EXTENDS M001, Sequences

VARIABLES
  sent,       \* the bits written since the last word or reset, in order
  knows,      \* the program has reset the port, or had a fresh one, since it began
  four_kb     \* 4 KiB pages have been selected since the cartridge was loaded

mc_vars == <<vars, sent, knows, four_kb>>

MCInit == Init /\ sent = <<>> /\ knows = TRUE /\ four_kb = FALSE

(* Emulator::reset.                                                        *)
restart ==
  /\ sent' = <<>> /\ knows' = (knows /\ writes = 0)
  /\ UNCHANGED <<vars, four_kb>>

Watched ==
  \/ \E bit \in {0, 1} :
       /\ ShiftIn(bit)
       /\ sent' = IF knows THEN Append(sent, bit) ELSE <<>>
       /\ UNCHANGED <<knows, four_kb>>
  \/ /\ \E op \in Registers, bit \in {0, 1} : Complete(op, bit)
     /\ sent' = <<>> /\ four_kb' = (four_kb \/ control' >= 16) /\ UNCHANGED knows
  \/ (\E op \in Registers : ResetRegister(op)) /\ sent' = <<>> /\ knows' = TRUE /\ UNCHANGED four_kb
  \/ (\E op \in Registers, bit \in {0, 1} : Abort(op, bit)) /\ UNCHANGED <<sent, knows, four_kb>>
  \/ read_rom /\ sent' = <<>> /\ knows' = TRUE /\ four_kb' = FALSE
  \/ restart

MCNext == ~aborted /\ Watched

MCSpec == MCInit /\ [][MCNext]_mc_vars

-----------------------------------------------------------------------------
(* The number whose bits, lowest first, are those sent.                    *)
NumberOf(bits) == bits[1] + 2 * bits[2] + 4 * bits[3] + 8 * bits[4] + 16 * bits[5]

(* What a register is to do with a number: the control register holds it,  *)
(* a character window shows its page or its bank's first, and the program  *)
(* window that moves shows the bank of its low four bits.                  *)
TakesOn(op, number) ==
  LET bank == number % 16
  IN  /\ op = 0 => control' = number
      /\ op = 1 => chr_l' = IF control < 16 THEN 2 * (number \div 2) ELSE number
      /\ op = 2 => chr_h' = IF control < 16 THEN chr_h ELSE number
      /\ op = 3 /\ PrgMode < 2 => prg_l' = 2 * (bank \div 2) /\ prg_h' = prg_l' + 1
      /\ op = 3 /\ PrgMode = 2 => prg_l' = 0 /\ prg_h' = bank
      /\ op = 3 /\ PrgMode = 3 => prg_l' = bank /\ prg_h' = PrgBanks - 1

(* A register takes on the number a program wrote bit by bit, lowest bit   *)
(* first, whatever it wrote before it last reset the port or completed a   *)
(* word (001.cpp 75-130).  A program restarted in the middle of a word     *)
(* (emulator.cpp 95) has to reset the port first.                          *)
SerialOrder ==
  [][\A op \in Registers, bit \in {0, 1} :
       Complete(op, bit) /\ knows => TakesOn(op, NumberOf(Append(sent, bit)))]_mc_vars

(* A program that has only used 8 KiB character banks sees one whole bank, *)
(* never half of one beside half of another.  With the single bank of RAM  *)
(* of post_load it therefore reads back what on_ppu_write stores, always   *)
(* through bank 0 (001.cpp 38-40 and 149-158).                             *)
WholeBank == ~four_kb => chr_l % 2 = 0 /\ chr_h = chr_l + 1
=============================================================================
