----------------------------- MODULE NameTables -----------------------------
(***************************************************************************)
(* Where an address of video memory leads (PPU::mirror_addr_, ppu.cpp      *)
(* 595-636, and the bus's video side, bus.cpp 36-51): the cartridge has    *)
(* the patterns, the PPU four name tables, of which a mirroring folds some *)
(* together, and a palette, whose background colours are shared.           *)
(***************************************************************************)
EXTENDS Integers

Mirrorings == {"None", "Single", "Horizontal", "Vertical"}

TableSize == 1024          \* 0x400
Tables == 8192             \* 0x2000: the first of four name tables
TableMirrors == 12288      \* 0x3000: mirrors of them, up to the palette
Palette == 16128           \* 0x3F00
PaletteSize == 32          \* 0x20
Space == 16384             \* 0x4000

Addresses == 0..(Space - 1)

InTables(addr) == Tables <= addr /\ addr < TableMirrors
InPalette(addr) == Palette <= addr /\ addr < Palette + PaletteSize

-----------------------------------------------------------------------------
(* The steps of mirror_addr_, in their order                               *)

PaletteMirror(addr) ==
  IF addr >= Palette + PaletteSize THEN Palette + (addr % PaletteSize) ELSE addr

(* 0x3F10, 0x3F14, 0x3F18 and 0x3F1C are the background's.                 *)
BackgroundColour(addr) ==
  IF addr \in {Palette + 16, Palette + 20, Palette + 24, Palette + 28}
  THEN addr - 16 ELSE addr

TableMirror(addr) ==
  IF TableMirrors <= addr /\ addr < Palette THEN addr - 4 * TableSize ELSE addr

Single(addr) ==
  IF Tables + TableSize <= addr /\ addr < TableMirrors
  THEN Tables + (addr % TableSize) ELSE addr

Vertical(addr) ==
  IF Tables + 2 * TableSize <= addr /\ addr < TableMirrors
  THEN addr - 2 * TableSize ELSE addr

Horizontal(addr) ==
  IF \/ Tables + TableSize <= addr /\ addr < Tables + 2 * TableSize
     \/ Tables + 3 * TableSize <= addr /\ addr < TableMirrors
  THEN addr - TableSize ELSE addr

Folded(mirroring, addr) ==
  CASE mirroring = "Single" -> Single(addr)
    [] mirroring = "Vertical" -> Vertical(addr)
    [] mirroring = "Horizontal" -> Horizontal(addr)
    [] mirroring = "None" -> addr

Unmirrored(addr) == TableMirror(BackgroundColour(PaletteMirror(addr)))

mirror_addr_(mirroring, addr) == Folded(mirroring, Unmirrored(addr))

(* Who answers an access: the cartridge's mapper is asked first, and the   *)
(* PPU for the address mirrored; nobody answers the rest.                  *)
Owner(mirroring, addr) ==
  IF addr < Tables THEN "cartridge"
  ELSE IF InTables(mirror_addr_(mirroring, addr)) THEN "memory_"
  ELSE IF InPalette(mirror_addr_(mirroring, addr)) THEN "palette_"
  ELSE "nobody"

-----------------------------------------------------------------------------
(* The reference: a name table is its column and its row in a square of    *)
(* four, and a mirroring forgets one of them, both or neither.             *)
Table(addr) == ((addr - Tables) \div TableSize) % 4

SameTable(mirroring, i, j) ==
  CASE mirroring = "None" -> i = j
    [] mirroring = "Single" -> TRUE
    [] mirroring = "Vertical" -> i % 2 = j % 2
    [] mirroring = "Horizontal" -> i \div 2 = j \div 2

(* Two addresses below the palette are one cell when they are the same     *)
(* place in tables the mirroring folds together.                           *)
MirroringFolds(mirroring, a, b) ==
  (mirror_addr_(mirroring, a) = mirror_addr_(mirroring, b)) <=>
    (SameTable(mirroring, Table(a), Table(b)) /\ a % TableSize = b % TableSize)
=============================================================================
