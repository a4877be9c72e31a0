-------------------------------- MODULE M001 --------------------------------
(***************************************************************************)
(* The SxROM mapper (src/src/mappers/001.cpp): a program writes its        *)
(* registers one bit at a time through any address of the ROM, and they    *)
(* move the windows the CPU and the PPU see the cartridge through.         *)
(*                                                                         *)
(* A program window is the number of a 16 KiB bank, a character window the *)
(* number of a 4 KiB page, two to a bank; bytes are not modelled.  A bank  *)
(* the cartridge does not have fails the assertion of get_prg_bank or      *)
(* get_chr_bank (cartridge.cpp 93-113), which ends the program.            *)
(***************************************************************************)
EXTENDS Integers

CONSTANTS
  PrgBanks,   \* banks of prg_rom_
  ChrBanks    \* banks of chr_: the ROM's, or one of RAM

M001Constants == PrgBanks \in Nat \ {0} /\ ChrBanks \in Nat \ {0}

ASSUME M001Assumption == M001Constants

VARIABLES
  latch, writes,   \* register_: five bits, and how many have been written
  control,         \* control_
  prg_l, prg_h,    \* the windows at 0x8000 and 0xC000
  chr_l, chr_h,    \* the windows at 0x0000 and 0x1000 of video memory
  mirroring,       \* the PPU's
  aborted          \* an assertion has failed

prg == <<prg_l, prg_h>>
chr == <<chr_l, chr_h>>
vars == <<latch, writes, control, prg, chr, mirroring, aborted>>

Word == 0..31
HeaderMirrorings == {"None", "Horizontal", "Vertical"}

(* The windows are in the cartridge.                                       *)
TypeOK ==
  /\ latch \in Word /\ writes \in 0..4 /\ control \in Word
  /\ prg_l \in 0..(PrgBanks - 1) /\ prg_h \in 0..(PrgBanks - 1)
  /\ chr_l \in 0..(2 * ChrBanks - 1) /\ chr_h \in 0..(2 * ChrBanks - 1)
  /\ mirroring \in HeaderMirrorings \union {"Single"}
  /\ aborted \in BOOLEAN

(* A cartridge that has just been loaded: post_load, and the mirroring of  *)
(* its header.                                                             *)
Init ==
  /\ latch = 0 /\ writes = 0 /\ control = 0
  /\ prg_l = 0 /\ prg_h = PrgBanks - 1
  /\ chr_l = 0 /\ chr_h = 1
  /\ mirroring \in HeaderMirrorings
  /\ aborted = FALSE

-----------------------------------------------------------------------------
(* The fields of the registers                                             *)

Even(n) == n - (n % 2)
PrgMode == (control \div 4) % 4
Mode8KB == control < 16

(* The bit written is the word's highest: four more push it down.  Each    *)
(* definition named for a slip is a wrong version of one that follows it.  *)
ShiftedFromBelow(bit) == ((2 * latch) % 32) + bit
Shifted(bit) == latch \div 2 + 16 * bit

MirroringOf(word) ==
  CASE word % 4 \in {0, 1} -> "Single"
    [] word % 4 = 2 -> "Vertical"
    [] word % 4 = 3 -> "Horizontal"

-----------------------------------------------------------------------------
(* The four registers                                                      *)

control_write(word) ==
  /\ control' = word
  /\ mirroring' = MirroringOf(word)
  /\ UNCHANGED <<prg, chr>>

(* A slip: the low bit of an 8 KiB bank is not ignored.                    *)
chr_low_switch_unmasked(word) ==
  /\ word \in 0..(2 * ChrBanks - 2)
  /\ chr_l' = word
  /\ chr_h' = IF Mode8KB THEN word + 1 ELSE chr_h
  /\ UNCHANGED <<control, prg, mirroring>>

chr_low_switch(word) ==
  LET page == IF Mode8KB THEN Even(word) ELSE word
  IN  /\ page < 2 * ChrBanks
      /\ chr_l' = page
      /\ chr_h' = IF Mode8KB THEN page + 1 ELSE chr_h
      /\ UNCHANGED <<control, prg, mirroring>>

chr_high_switch(word) ==
  /\ IF Mode8KB THEN UNCHANGED chr_h ELSE word < 2 * ChrBanks /\ chr_h' = word
  /\ UNCHANGED <<control, prg, chr_l, mirroring>>

(* A slip: the second bank of a pair is not checked.                       *)
prg_switch_unchecked(word) ==
  LET bank == word % 16
  IN  /\ \/ PrgMode \in {0, 1} /\ Even(bank) < PrgBanks /\ prg_l' = Even(bank) /\ prg_h' = Even(bank) + 1
         \/ PrgMode = 2 /\ bank < PrgBanks /\ prg_l' = 0 /\ prg_h' = bank
         \/ PrgMode = 3 /\ bank < PrgBanks /\ prg_l' = bank /\ prg_h' = PrgBanks - 1
      /\ UNCHANGED <<control, chr, mirroring>>

(* A pair of banks, or one beside the fixed first or last.                 *)
prg_switch(word) ==
  LET bank == word % 16
  IN  /\ \/ /\ PrgMode \in {0, 1} /\ Even(bank) + 1 < PrgBanks
            /\ prg_l' = Even(bank) /\ prg_h' = Even(bank) + 1
         \/ PrgMode = 2 /\ bank < PrgBanks /\ prg_l' = 0 /\ prg_h' = bank
         \/ PrgMode = 3 /\ bank < PrgBanks /\ prg_l' = bank /\ prg_h' = PrgBanks - 1
      /\ UNCHANGED <<control, chr, mirroring>>

Registers == 0..3

Register(op, word) ==
  \/ op = 0 /\ control_write(word)
  \/ op = 1 /\ chr_low_switch(word)
  \/ op = 2 /\ chr_high_switch(word)
  \/ op = 3 /\ prg_switch(word)

-----------------------------------------------------------------------------
(* on_cpu_write: the address selects the register, bit 7 of the value      *)
(* resets, bit 0 is shifted in.                                            *)

(* The first four bits only wait.                                          *)
ShiftIn(bit) ==
  /\ writes < 4
  /\ latch' = Shifted(bit) /\ writes' = writes + 1
  /\ UNCHANGED <<control, prg, chr, mirroring, aborted>>

(* The fifth completes the word.                                           *)
Complete(op, bit) ==
  /\ writes = 4
  /\ Register(op, Shifted(bit))
  /\ latch' = 0 /\ writes' = 0
  /\ UNCHANGED aborted

(* A word that names a bank the cartridge does not have.                   *)
Abort(op, bit) ==
  /\ writes = 4
  /\ LET word == Shifted(bit)
         page == IF Mode8KB THEN Even(word) ELSE word
         bank == word % 16
     IN  \/ op = 1 /\ page >= 2 * ChrBanks
         \/ op = 2 /\ ~Mode8KB /\ word >= 2 * ChrBanks
         \/ op = 3 /\ (IF PrgMode \in {0, 1} THEN Even(bank) + 1 ELSE bank) >= PrgBanks
  /\ aborted' = TRUE
  /\ UNCHANGED <<latch, writes, control, prg, chr, mirroring>>

(* A reset drops the bits.  At the control register it also selects mode 3 *)
(* without moving a window, at the program register it moves the last bank *)
(* back without selecting its mode.                                        *)
ResetRegister(op) ==
  /\ latch' = 0 /\ writes' = 0
  /\ control' = IF op = 0 THEN 16 * (control \div 16) + 12 + (control % 4) ELSE control
  /\ prg_h' = IF op = 3 THEN PrgBanks - 1 ELSE prg_h
  /\ UNCHANGED <<prg_l, chr, mirroring, aborted>>

on_cpu_write ==
  \/ \E bit \in {0, 1} : ShiftIn(bit)
  \/ \E op \in Registers, bit \in {0, 1} : Complete(op, bit) \/ Abort(op, bit)
  \/ \E op \in Registers : ResetRegister(op)

(* Emulator::read_rom makes a new cartridge.                               *)
read_rom ==
  /\ latch' = 0 /\ writes' = 0 /\ control' = 0
  /\ prg_l' = 0 /\ prg_h' = PrgBanks - 1
  /\ chr_l' = 0 /\ chr_h' = 1
  /\ mirroring' \in HeaderMirrorings
  /\ UNCHANGED aborted

Next == ~aborted /\ (on_cpu_write \/ read_rom)

Spec == Init /\ [][Next]_vars
=============================================================================
