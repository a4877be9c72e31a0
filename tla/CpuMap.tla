------------------------------- MODULE CpuMap --------------------------------
(***************************************************************************)
(* Where an address of the CPU leads (the bus's CPU side, bus.cpp 14-34):  *)
(* the units are asked in turn until one claims the access, and the        *)
(* cartridge's program is seen through two windows (000.cpp, 001.cpp).     *)
(***************************************************************************)
EXTENDS Integers

CpuAddresses == 0..65535
Mappers == {"M000", "M001"}
Units == {"ppu", "apu", "controller", "cartridge", "ram"}

Window == 16384      \* 0x4000: a window, and a bank
LowWindow == 32768   \* 0x8000
HighWindow == 49152  \* 0xC000
SavedMemory == 24576 \* 0x6000
Expansion == 16416   \* 0x4020: where the cartridge's addresses begin
RamSize == 2048      \* 0x800

(* The PPU's registers and their mirrors.                                  *)
PpuRegister(addr) ==
  IF 8192 <= addr /\ addr < 16384 THEN 8192 + (addr % 8) ELSE addr

PpuReads == {8194, 8196, 8199}
PpuWrites == {8192, 8193, 8195, 8196, 8197, 8198, 8199, 16404}

InCartridge(mapper, addr) ==
  \/ addr >= LowWindow
  \/ mapper = "M001" /\ SavedMemory <= addr /\ addr < LowWindow

ClaimsRead(unit, mapper, addr) ==
  \/ unit = "ppu" /\ PpuRegister(addr) \in PpuReads
  \/ unit = "apu" /\ addr = 16405
  \/ unit = "controller" /\ addr \in {16406, 16407}
  \/ unit = "cartridge" /\ addr >= Expansion /\ InCartridge(mapper, addr)
  \/ unit = "ram" /\ addr < 8192

ClaimsWrite(unit, mapper, addr) ==
  \/ unit = "ppu" /\ PpuRegister(addr) \in PpuWrites
  \/ unit = "apu" /\ addr \in 16384..16407 \ {16404, 16406}
  \/ unit = "controller" /\ addr = 16406
  \/ unit = "cartridge" /\ addr >= Expansion /\ mapper = "M001" /\ InCartridge(mapper, addr)
  \/ unit = "ram" /\ addr < 8192

-----------------------------------------------------------------------------
(* The place an address names in what answers it                           *)

RamIndex(addr) == addr % RamSize

Offset(addr) == addr % Window

(* The bank behind an address, given the banks of the two windows.         *)
Bank(low, high, addr) == IF addr < HighWindow THEN low ELSE high

(* A mapper's map_to_cpu_addr: with one bank, NROM's is at both windows    *)
(* and is shown at the first.                                              *)
MapperAddr(mapper, low, high, addr) ==
  IF mapper = "M000" /\ low = high /\ addr >= HighWindow THEN addr - Window ELSE addr

(* Cartridge::map_to_cpu_addr, what the debugger shows for an address: 0   *)
(* for one below the cartridge's.                                          *)
map_to_cpu_addr(mapper, low, high, addr) ==
  IF addr >= Expansion THEN MapperAddr(mapper, low, high, addr) ELSE 0

-----------------------------------------------------------------------------
(* Nobody asked earlier hides a unit from an access that is its own.       *)
OneClaimant(mapper, addr) ==
  \A one, other \in Units :
    /\ ClaimsRead(one, mapper, addr) /\ ClaimsRead(other, mapper, addr) => one = other
    /\ ClaimsWrite(one, mapper, addr) /\ ClaimsWrite(other, mapper, addr) => one = other

(* An address of the cartridge is shown as one that reads the same byte;   *)
(* where the debugger shows 0 the address is none of the cartridge's.      *)
ShownReadsSame(mapper, low, high, addr) ==
  LET shown == map_to_cpu_addr(mapper, low, high, addr)
  IN  \/ addr < Expansion /\ shown = 0
      \/ /\ Bank(low, high, shown) = Bank(low, high, addr)
         /\ Offset(shown) = Offset(addr)
         /\ shown >= LowWindow <=> addr >= LowWindow

(* NROM's program has one address for each of its bytes: two that read the *)
(* same byte of the same bank are shown as one, and no others, so that the *)
(* debugger finds the line of the program counter at either.               *)
ShownOnce(low, high, one, other) ==
  one >= LowWindow /\ other >= LowWindow =>
    (map_to_cpu_addr("M000", low, high, one) = map_to_cpu_addr("M000", low, high, other)
     <=> Bank(low, high, one) = Bank(low, high, other) /\ Offset(one) = Offset(other))
=============================================================================
