------------------------------ MODULE Cartridge ------------------------------
(***************************************************************************)
(* The life of a cartridge: loading a ROM (Emulator::read_rom,             *)
(* Cartridge::load_roms), the memory at 0x6000 (wram_ and the battery's),  *)
(* the save file (src/src/battery.cpp) and the end of the program          *)
(* (exe/main.cpp), cleanly or killed.                                      *)
(*                                                                         *)
(* A game is its ROM's path, so its save file is its own.  Everything here *)
(* happens between two updates of the machine, but for write.  Banks and   *)
(* registers of the mapper are M001's.                                     *)
(***************************************************************************)
EXTENDS Naturals

CONSTANTS
  Games,      \* ROM files that can be loaded
  Batteries,  \* those whose header has has_prg_ram_
  Top,        \* 0x1FFF: the last place of the memory at 0x6000
  Bytes,
  EndOfText   \* 0x1A: ends a file read as text, as load_from reads it

CartridgeConstants ==
  /\ Batteries \subseteq Games /\ Top \in Nat \ {0}
  /\ 0 \in Bytes /\ EndOfText \in Bytes

VARIABLES
  phase,     \* "running", "saving" (the file is open), "stopped"
  cart,      \* cart_: the game loaded, or None
  bus_cart,  \* BUS::cart_: the cartridge of a game, None, or Gone
  memory,    \* the battery's memory_
  wram,      \* wram_
  file,      \* the save file of each game with a battery
  kept       \* a history: what each game's program read at its last complete save,
             \*   but for the last place

vars == <<phase, cart, bus_cart, memory, wram, file, kept>>

None == "none"
Gone == "gone"     \* a cartridge that has been destroyed
Places == 0..Top
Memories == [Places -> Bytes]
Zeros == [p \in Places |-> 0]

(* A file holds the first size bytes of a memory.                          *)
File(n, m) ==
  [exists |-> TRUE, size |-> n, byte |-> [p \in Places |-> IF p < n THEN m[p] ELSE 0]]
NoFile == [exists |-> FALSE, size |-> 0, byte |-> Zeros]

HasBattery == cart \in Batteries

Init ==
  /\ phase = "running" /\ cart = None /\ bus_cart = None
  /\ memory = Zeros /\ wram = Zeros
  /\ file = [g \in Batteries |-> NoFile]
  /\ kept = [g \in Batteries |-> {}]

-----------------------------------------------------------------------------
(* The memory at 0x6000                                                    *)

(* The battery answers for all places but the last: 0x6000 <= addr and     *)
(* addr < 0x7FFF.                                                          *)
Claims(p) == HasBattery /\ p < Top

Read(p) == IF Claims(p) THEN memory[p] ELSE wram[p]

(* A program's store.                                                      *)
write ==
  /\ phase = "running" /\ cart # None
  /\ \E p \in Places, b \in Bytes :
       IF Claims(p) THEN memory' = [memory EXCEPT ![p] = b] /\ UNCHANGED wram
       ELSE wram' = [wram EXCEPT ![p] = b] /\ UNCHANGED memory
  /\ UNCHANGED <<phase, cart, bus_cart, file, kept>>

-----------------------------------------------------------------------------
(* Loading a ROM                                                           *)

(* What load_from leaves in the memory: the file's bytes up to its end or  *)
(* to the first EndOfText, and after them whatever was there.              *)
Loaded(f, m) ==
  \A p \in Places :
    p < f.size /\ (\A q \in 0..p : f.byte[q] # EndOfText) => m[p] = f.byte[p]

(* The battery's constructor: without a file, or with one that cannot be   *)
(* opened or read, the memory is filled.                                   *)
LoadBattery(g, readable) ==
  IF g \in Batteries /\ file[g].exists /\ readable
  THEN \E m \in Memories : Loaded(file[g], m) /\ memory' = m
  ELSE memory' = Zeros

read_rom(g, readable) ==
  /\ phase = "running"
  /\ cart' = g /\ bus_cart' = g
  /\ wram' = Zeros /\ LoadBattery(g, readable)
  /\ UNCHANGED <<phase, file, kept>>

(* A definition named for a slip is a wrong version of the one below it:   *)
(* the cartridge is destroyed and the emulator still has it.               *)
DestroyOnly == UNCHANGED cart

(* cart_.reset() at the head of read_rom.                                  *)
Destroy == cart' = None

(* The file cannot be opened, is no ROM or needs an unknown mapper: the    *)
(* cartridge that was loaded is gone, and the bus is not told.  The dialog *)
(* catches the exception, the list of recent files lets it end main.       *)
read_rom_fails ==
  /\ phase = "running"
  /\ Destroy
  /\ bus_cart' = IF bus_cart = None THEN None ELSE Gone
  /\ memory' = Zeros /\ wram' = Zeros
  /\ phase' \in {"running", "stopped"}
  /\ UNCHANGED <<file, kept>>

-----------------------------------------------------------------------------
(* The end of the program                                                  *)

(* The window is closed.  save_now opens the file, which empties it; when  *)
(* the open fails nothing is written.                                      *)
close ==
  /\ phase = "running"
  /\ \/ /\ HasBattery
        /\ phase' = "saving"
        /\ file' = [file EXCEPT ![cart] = File(0, Zeros)]
        /\ kept' = [kept EXCEPT ![cart] = {}]
     \/ phase' = "stopped" /\ UNCHANGED <<file, kept>>
  /\ UNCHANGED <<cart, bus_cart, memory, wram>>

(* A slip: the fallback memory is saved.                                   *)
SavedWram == wram

Saved == memory

save_now ==
  /\ phase = "saving"
  /\ phase' = "stopped"
  /\ file' = [file EXCEPT ![cart] = File(Top + 1, Saved)]
  /\ kept' = [kept EXCEPT ![cart] = {[p \in 0..(Top - 1) |-> Read(p)]}]
  /\ UNCHANGED <<cart, bus_cart, memory, wram>>

(* The program is killed, maybe with part of the file written.             *)
killed ==
  /\ phase # "stopped"
  /\ phase' = "stopped"
  /\ IF phase = "saving"
     THEN \E n \in Places : file' = [file EXCEPT ![cart] = File(n, Saved)]
     ELSE UNCHANGED file
  /\ UNCHANGED <<cart, bus_cart, memory, wram, kept>>

(* The program is started again.                                           *)
start ==
  /\ phase = "stopped"
  /\ phase' = "running" /\ cart' = None /\ bus_cart' = None
  /\ memory' = Zeros /\ wram' = Zeros
  /\ UNCHANGED <<file, kept>>

Next ==
  \/ write
  \/ \E g \in Games, readable \in BOOLEAN : read_rom(g, readable)
  \/ read_rom_fails \/ close \/ save_now \/ killed \/ start

Spec == Init /\ [][Next]_vars

-----------------------------------------------------------------------------
(* What a program had in its saved memory when the emulator was last       *)
(* closed, it finds there when it is loaded again and its file can be      *)
(* read, whatever other games were loaded, saved or killed since           *)
(* (battery.cpp 9-38, main.cpp 34-35): all places but the last one, which  *)
(* the battery leaves out, up to the first byte that ends a text.  When    *)
(* the file cannot be read it finds zeros, and nothing of another game or  *)
(* of half a read; the next clean end then saves over what it did not      *)
(* find, and that is what kept has from there on.                          *)
SavesRestored ==
  [][\A g \in Batteries, readable \in BOOLEAN :
       read_rom(g, readable) =>
         \A saved \in kept[g], p \in 0..(Top - 1) :
           IF readable THEN (\A q \in 0..p : saved[q] # EndOfText) => Read(p)' = saved[p]
           ELSE Read(p)' = 0]_vars

(* is_ready() is enough to clock the machine (emulator.cpp 106): while the *)
(* emulator has a cartridge, it is the one the bus has.                    *)
ReadyIsEnough == cart # None => bus_cart = cart
=============================================================================
