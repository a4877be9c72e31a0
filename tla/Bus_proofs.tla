----------------------------- MODULE Bus_proofs -----------------------------
(***************************************************************************)
(* What is on the bus: every address of video memory leads to one cell,    *)
(* mirrorings fold the name tables they should, and what is written there  *)
(* is read back; every access of the CPU has one unit that answers it; and *)
(* of the CPU's addresses, what indexing and the stack page do to them.    *)
(***************************************************************************)
EXTENDS MCVideoMemory, CpuMap, Sequences, TLAPS

CONSTANT Base   \* the values of a byte, 256

Ad == INSTANCE Addressing

(* The fixed parts of the map.                                             *)
LEMMA Layout ==
  /\ TableSize = 1024 /\ Tables = 8192 /\ TableMirrors = 12288
  /\ Palette = 16128 /\ PaletteSize = 32 /\ Space = 16384
BY DEF TableSize, Tables, TableMirrors, Palette, PaletteSize, Space

(* Before a mirroring folds tables, the address is in the palette or in a  *)
(* name table, at the place it names there.                                *)
LEMMA UnmirroredKeeps ==
  ASSUME NEW addr \in Addresses, addr >= Tables,
         NEW a, a = Unmirrored(addr)
  PROVE  /\ a \in Nat
         /\ addr < Palette => InTables(a) /\ Table(a) = Table(addr) /\ a % TableSize = addr % TableSize
         /\ addr >= Palette => InPalette(a) /\ a \notin {Palette + 16, Palette + 20, Palette + 24, Palette + 28}
<1> USE Layout DEF Unmirrored
<1>1. addr \in Nat /\ addr < 16384 /\ addr >= 8192
  BY DEF Addresses
<1>2. CASE addr < Palette
  <2>1. PaletteMirror(addr) = addr /\ BackgroundColour(addr) = addr
    BY <1>1, <1>2 DEF PaletteMirror, BackgroundColour
  <2>2. CASE addr < 12288
    BY <1>1, <1>2, <2>1, <2>2 DEF TableMirror, InTables
  <2>3. CASE addr >= 12288
    <3>1. a = addr - 4096
      BY <1>1, <1>2, <2>1, <2>3 DEF TableMirror
    <3>2. ((addr - 8192) \div 1024) % 4 = ((addr - 4096 - 8192) \div 1024) % 4
      BY <1>1, <2>3
    <3> QED
      BY <1>1, <1>2, <2>3, <3>1, <3>2 DEF InTables, Table
  <2> QED
    BY <1>1, <2>2, <2>3
<1>3. CASE addr >= Palette
  <2>1. PaletteMirror(addr) \in 16128..16159
    BY <1>1, <1>3 DEF PaletteMirror
  <2>2. BackgroundColour(PaletteMirror(addr)) \in 16128..16159 \ {16144, 16148, 16152, 16156}
    BY <2>1 DEF BackgroundColour
  <2>3. a = BackgroundColour(PaletteMirror(addr))
    BY <2>2 DEF TableMirror
  <2> QED
    BY <1>1, <1>3, <2>2, <2>3 DEF InPalette
<1> QED
  BY <1>1, <1>2, <1>3

(* A mirroring keeps the place in the table, and picks one table of those  *)
(* it folds together.                                                      *)
LEMMA Fold ==
  ASSUME NEW mirroring \in Mirrorings, NEW a \in Nat, InTables(a)
  PROVE  /\ Folded(mirroring, a) \in Nat /\ InTables(Folded(mirroring, a))
         /\ Folded(mirroring, a) % TableSize = a % TableSize
         /\ Table(Folded(mirroring, a)) =
              CASE mirroring = "None" -> Table(a)
                [] mirroring = "Single" -> 0
                [] mirroring = "Vertical" -> Table(a) % 2
                [] mirroring = "Horizontal" -> 2 * (Table(a) \div 2)
<1> USE Layout
<1>1. a >= 8192 /\ a < 12288
  BY DEF InTables
<1>2. CASE mirroring = "None"
  BY <1>1, <1>2 DEF Folded
<1>3. CASE mirroring = "Single"
  BY <1>1, <1>3 DEF Folded, Single, InTables, Table
<1>4. CASE mirroring = "Vertical"
  BY <1>1, <1>4 DEF Folded, Vertical, InTables, Table
<1>5. CASE mirroring = "Horizontal"
  BY <1>1, <1>5 DEF Folded, Horizontal, InTables, Table
<1> QED
  BY <1>2, <1>3, <1>4, <1>5 DEF Mirrorings

(* Every address has one owner that can hold it: no index is outside the   *)
(* arrays on_read_ppu and on_write_ppu use (ppu.cpp 180-216), and no       *)
(* access is left unanswered.                                              *)
THEOREM EveryAddressOwned ==
  ASSUME NEW mirroring \in Mirrorings, NEW addr \in Addresses
  PROVE  /\ Owner(mirroring, addr) # "nobody"
         /\ Owner(mirroring, addr) = "memory_" <=> addr >= Tables /\ addr < Palette
         /\ Owner(mirroring, addr) = "palette_" <=> addr >= Palette
<1> USE Layout
<1>1. addr \in Nat /\ addr < 16384
  BY DEF Addresses
<1>2. CASE addr < Tables
  BY <1>1, <1>2 DEF Owner
<1>3. CASE addr >= Tables
  <2> DEFINE a == Unmirrored(addr)
  <2>1. /\ a \in Nat
        /\ addr < Palette => InTables(a)
        /\ addr >= Palette => InPalette(a)
    BY <1>3, UnmirroredKeeps
  <2>2. mirror_addr_(mirroring, addr) = Folded(mirroring, a)
    BY DEF mirror_addr_
  <2>3. CASE addr < Palette
    <3>1. InTables(mirror_addr_(mirroring, addr))
      BY <2>1, <2>2, <2>3, Fold
    <3> QED
      BY <1>1, <1>3, <2>3, <3>1 DEF Owner
  <2>4. CASE addr >= Palette
    <3>1. mirror_addr_(mirroring, addr) = a
      BY <2>1, <2>2, <2>4 DEF Folded, Single, Vertical, Horizontal, InPalette, Mirrorings
    <3> QED
      BY <1>1, <1>3, <2>1, <2>4, <3>1 DEF Owner, InTables, InPalette
  <2> QED
    BY <1>1, <2>3, <2>4
<1> QED
  BY <1>1, <1>2, <1>3

(* Where an address below the palette leads.                               *)
LEMMA MirrorKeeps ==
  ASSUME NEW mirroring \in Mirrorings,
         NEW addr \in Addresses, addr >= Tables, addr < Palette,
         NEW m, m = mirror_addr_(mirroring, addr)
  PROVE  /\ m \in Nat /\ InTables(m) /\ m % TableSize = addr % TableSize
         /\ Table(m) = CASE mirroring = "None" -> Table(addr)
                         [] mirroring = "Single" -> 0
                         [] mirroring = "Vertical" -> Table(addr) % 2
                         [] mirroring = "Horizontal" -> 2 * (Table(addr) \div 2)
<1> DEFINE a == Unmirrored(addr)
<1>1. a \in Nat /\ InTables(a) /\ Table(a) = Table(addr) /\ a % TableSize = addr % TableSize
  BY UnmirroredKeeps
<1>2. m = Folded(mirroring, a)
  BY DEF mirror_addr_
<1> HIDE DEF a
<1> QED
  BY <1>1, <1>2, Fold

(* An address in a name table is its table and its place there.            *)
LEMMA TableAndPlace ==
  ASSUME NEW p \in Nat, NEW q \in Nat, InTables(p), InTables(q)
  PROVE  p = q <=> Table(p) = Table(q) /\ p % TableSize = q % TableSize
BY Layout DEF InTables, Table

LEMMA TableRange == ASSUME NEW addr \in Addresses PROVE Table(addr) \in 0..3
BY Layout DEF Table, Addresses

(* Two addresses of name tables are one cell exactly when the mirroring    *)
(* folds their tables and they are the same place there.                   *)
THEOREM MirroringsFold ==
  ASSUME NEW mirroring \in Mirrorings,
         NEW a \in Addresses, a >= Tables, a < Palette,
         NEW b \in Addresses, b >= Tables, b < Palette
  PROVE  MirroringFolds(mirroring, a, b)
<1> DEFINE m == mirror_addr_(mirroring, a)
           n == mirror_addr_(mirroring, b)
<1>1. /\ m \in Nat /\ InTables(m) /\ m % TableSize = a % TableSize
      /\ Table(m) = CASE mirroring = "None" -> Table(a)
                      [] mirroring = "Single" -> 0
                      [] mirroring = "Vertical" -> Table(a) % 2
                      [] mirroring = "Horizontal" -> 2 * (Table(a) \div 2)
  BY MirrorKeeps
<1>2. /\ n \in Nat /\ InTables(n) /\ n % TableSize = b % TableSize
      /\ Table(n) = CASE mirroring = "None" -> Table(b)
                      [] mirroring = "Single" -> 0
                      [] mirroring = "Vertical" -> Table(b) % 2
                      [] mirroring = "Horizontal" -> 2 * (Table(b) \div 2)
  BY MirrorKeeps
<1>3. Table(a) \in 0..3 /\ Table(b) \in 0..3
  BY TableRange
<1> HIDE DEF m, n
<1>4. m = n <=> Table(m) = Table(n) /\ a % TableSize = b % TableSize
  BY <1>1, <1>2, TableAndPlace
<1>5. Table(m) = Table(n) <=> SameTable(mirroring, Table(a), Table(b))
  <2>1. CASE mirroring = "None"
    BY <1>1, <1>2, <2>1 DEF SameTable
  <2>2. CASE mirroring = "Single"
    BY <1>1, <1>2, <2>2 DEF SameTable
  <2>3. CASE mirroring = "Vertical"
    BY <1>1, <1>2, <2>3 DEF SameTable
  <2>4. CASE mirroring = "Horizontal"
    BY <1>1, <1>2, <1>3, <2>4 DEF SameTable
  <2> QED
    BY <2>1, <2>2, <2>3, <2>4 DEF Mirrorings
<1> QED
  BY <1>4, <1>5 DEF MirroringFolds, m, n

-----------------------------------------------------------------------------
(* What a program reads back                                               *)

(* A colour is where its address says, under any mirroring.                *)
LEMMA ColourCell ==
  ASSUME NEW mirroring \in Mirrorings, NEW addr \in Addresses, addr >= Palette
  PROVE  /\ mirror_addr_(mirroring, addr) = BackgroundColour(PaletteMirror(addr))
         /\ mirror_addr_(mirroring, addr) \in Palette..(Palette + 31)
<1> USE Layout
<1>1. addr \in Nat /\ addr >= 16128 /\ addr < 16384
  BY DEF Addresses
<1>2. PaletteMirror(addr) \in 16128..16159
  BY <1>1 DEF PaletteMirror
<1> DEFINE c == BackgroundColour(PaletteMirror(addr))
<1>3. c \in 16128..16159
  BY <1>2 DEF BackgroundColour
<1>4. TableMirror(c) = c
  BY <1>3 DEF TableMirror
<1>5. Folded(mirroring, c) = c
  BY <1>3 DEF Folded, Single, Vertical, Horizontal, Mirrorings
<1> QED
  BY <1>3, <1>4, <1>5 DEF mirror_addr_, Unmirrored

(* The palette's mirrors are a colour modulo 32.                           *)
LEMMA PaletteModulo ==
  ASSUME NEW addr \in Addresses, addr >= Palette
  PROVE  PaletteMirror(addr) = 16128 + (addr % 32)
<1> USE Layout
<1>1. addr \in Nat /\ addr >= 16128 /\ addr < 16384
  BY DEF Addresses
<1> QED
  BY <1>1 DEF PaletteMirror

LEMMA ColoursShared ==
  ASSUME NEW mirroring \in Mirrorings,
         NEW a \in Addresses, a >= Palette, NEW b \in Addresses, b >= Palette
  PROVE  mirror_addr_(mirroring, a) = mirror_addr_(mirroring, b) <=> SameColour(a, b)
<1> DEFINE i == a % 32
           j == b % 32
           Place(k) == IF k \in {16, 20, 24, 28} THEN k - 16 ELSE k
<1>1. a \in Nat /\ b \in Nat
  BY DEF Addresses
<1>2. i \in 0..31 /\ j \in 0..31
  BY <1>1
<1>3. /\ mirror_addr_(mirroring, a) = 16128 + Place(i)
      /\ mirror_addr_(mirroring, b) = 16128 + Place(j)
  BY <1>2, ColourCell, PaletteModulo, Layout DEF BackgroundColour
<1>4. a % 4 = i % 4 /\ a % 16 = i % 16 /\ b % 4 = j % 4 /\ b % 16 = j % 16
  BY <1>1
<1> HIDE DEF i, j
<1>5. Place(i) = Place(j) <=> i = j \/ (i % 4 = 0 /\ j % 4 = 0 /\ i % 16 = j % 16)
  BY <1>2
<1> QED
  BY <1>2, <1>3, <1>4, <1>5 DEF SameColour, i, j

LEMMA SampledAddress ==
  ASSUME VideoConstants, NEW a \in Sampled
  PROVE  a \in Addresses /\ a >= Tables
<1>1. a \in Nat /\ a >= Tables /\ a <= Space - 1
  BY Layout DEF VideoConstants
<1> QED
  BY <1>1, Layout DEF Addresses

(* Two addresses a program may use are one cell exactly when the reference *)
(* says they are the same.                                                 *)
LEMMA SameCell ==
  ASSUME VideoConstants, mirroring_ \in Mirrorings, NEW a \in Sampled, NEW b \in Sampled
  PROVE  Cell(a) = Cell(b) <=> Same(a, b)
<1>1. /\ a \in Addresses /\ a >= Tables /\ b \in Addresses /\ b >= Tables
  BY SampledAddress
<1>2. CASE a < Palette /\ b < Palette
  <2>1. MirroringFolds(mirroring_, a, b)
    BY <1>1, <1>2, MirroringsFold
  <2>2. ~IsPalette(a) /\ ~IsPalette(b)
    BY <1>1, <1>2, Layout DEF IsPalette, Addresses
  <2> QED
    BY <2>1, <2>2 DEF Cell, Same, MirroringFolds
<1>3. CASE a >= Palette /\ b >= Palette
  BY <1>1, <1>3, ColoursShared, Layout DEF Cell, Same, IsPalette
<1>4. CASE a < Palette /\ b >= Palette
  <2>1. Cell(a) \in Nat /\ Cell(b) \in Nat /\ InTables(Cell(a)) /\ Cell(b) >= Palette
    BY <1>1, <1>4, MirrorKeeps, ColourCell, Layout DEF Cell
  <2>2. ~IsPalette(a) /\ IsPalette(b)
    BY <1>1, <1>4, Layout DEF IsPalette, Addresses
  <2>3. Cell(a) # Cell(b)
    BY <2>1, Layout DEF InTables
  <2> QED
    BY <2>2, <2>3 DEF Same
<1>5. CASE a >= Palette /\ b < Palette
  <2>1. Cell(b) \in Nat /\ Cell(a) \in Nat /\ InTables(Cell(b)) /\ Cell(a) >= Palette
    BY <1>1, <1>5, MirrorKeeps, ColourCell, Layout DEF Cell
  <2>2. ~IsPalette(b) /\ IsPalette(a)
    BY <1>1, <1>5, Layout DEF IsPalette, Addresses
  <2>3. Cell(a) # Cell(b)
    BY <2>1, Layout DEF InTables
  <2> QED
    BY <2>2, <2>3 DEF Same
<1> QED
  BY <1>1, <1>2, <1>3, <1>4, <1>5, Layout DEF Addresses

(* The first table and the palette stay where they are.                    *)
LEMMA Stays ==
  ASSUME VideoConstants, NEW m \in Mirrorings, NEW n \in Mirrorings,
         NEW a \in Sampled, Keeps(a)
  PROVE  mirror_addr_(m, a) = mirror_addr_(n, a)
<1>1. a \in Addresses /\ a >= Tables
  BY SampledAddress
<1>2. CASE a >= Palette
  BY <1>1, <1>2, ColourCell
<1>3. CASE a < Palette
  <2> DEFINE p == mirror_addr_(m, a)
             q == mirror_addr_(n, a)
  <2>1. Table(a) = 0
    BY <1>1, <1>3, Layout DEF Keeps, IsPalette, Addresses
  <2>2. p \in Nat /\ InTables(p) /\ p % TableSize = a % TableSize /\ Table(p) = 0
    BY <1>1, <1>3, <2>1, MirrorKeeps DEF Mirrorings
  <2>3. q \in Nat /\ InTables(q) /\ q % TableSize = a % TableSize /\ Table(q) = 0
    BY <1>1, <1>3, <2>1, MirrorKeeps DEF Mirrorings
  <2> HIDE DEF p, q
  <2>4. p = q
    BY <2>2, <2>3, TableAndPlace
  <2> QED
    BY <2>4 DEF p, q
<1> QED
  BY <1>1, <1>2, <1>3, Layout DEF Addresses

(* What a program knows is what is there: of a cell, of the buffer, and of *)
(* the last answer.                                                        *)
KnownInv ==
  /\ mirroring_ \in Mirrorings
  /\ known \in [Sampled -> SUBSET Bytes]
  /\ cells \in [Cells -> Bytes]
  /\ \A a \in Sampled : \A byte \in known[a] : cells[Cell(a)] = byte
  /\ \A byte \in buffered : read_buffer_ = byte
  /\ ReadsBack

LEMMA CellInCells ==
  ASSUME mirroring_ \in Mirrorings, NEW a \in Sampled
  PROVE  Cell(a) \in Cells
BY DEF Cell, Cells

LEMMA KnownStep ==
  ASSUME VideoConstants, KnownInv, [MCNext]_mc_vars
  PROVE  KnownInv'
<1> USE DEF KnownInv
<1>1. ASSUME NEW addr \in Sampled, MCread(addr)
      PROVE  KnownInv'
  <2>1. UNCHANGED <<known, cells, mirroring_>> /\ Cell(addr) \in Cells
    BY <1>1, CellInCells DEF MCread, read_ppudata
  <2>2. \A a \in Sampled : Cell(a)' = Cell(a)
    BY <2>1 DEF Cell
  <2>3. \A byte \in buffered' : read_buffer_' = byte
    BY <1>1 DEF MCread, read_ppudata
  <2>4. ReadsBack'
    BY <1>1 DEF MCread, read_ppudata, ReadsBack, AtOnce
  <2> QED
    BY <2>1, <2>2, <2>3, <2>4
<1>2. ASSUME NEW addr \in Sampled, NEW byte \in Bytes, MCwrite(addr, byte)
      PROVE  KnownInv'
  <2>1. UNCHANGED <<mirroring_, read_buffer_, answer, buffered, expected>>
    BY <1>2 DEF MCwrite, write_ppudata
  <2>2. /\ cells' = [cells EXCEPT ![Cell(addr)] = byte]
        /\ known' = [a \in Sampled |-> IF Same(a, addr) THEN {byte} ELSE known[a]]
    BY <1>2 DEF MCwrite, write_ppudata
  <2>3. cells' \in [Cells -> Bytes] /\ known' \in [Sampled -> SUBSET Bytes]
    BY <2>2
  <2>4. ASSUME NEW a \in Sampled, NEW b \in known'[a]
        PROVE  cells'[Cell(a)'] = b
    <3>1. Cell(a)' = Cell(a) /\ Cell(a) \in Cells /\ (Cell(a) = Cell(addr) <=> Same(a, addr))
      BY <2>1, CellInCells, SameCell DEF Cell
    <3> QED
      BY <2>2, <2>4, <3>1
  <2>5. ReadsBack'
    BY <2>1 DEF ReadsBack
  <2> QED
    BY <2>1, <2>3, <2>4, <2>5
<1>3. ASSUME NEW m \in Mirrorings, MCset_mirroring(m)
      PROVE  KnownInv'
  <2>1. /\ mirroring_' = m
        /\ UNCHANGED <<cells, read_buffer_, answer, buffered, expected>>
        /\ known' = [a \in Sampled |->
                       IF Keeps(a) \/ m = mirroring_ THEN known[a] ELSE {}]
    BY <1>3 DEF MCset_mirroring, set_mirroring
  <2>2. known' \in [Sampled -> SUBSET Bytes]
    BY <2>1
  <2>3. ASSUME NEW a \in Sampled, NEW b \in known'[a]
        PROVE  cells'[Cell(a)'] = b
    <3>1. (Keeps(a) \/ m = mirroring_) /\ b \in known[a]
      BY <2>1, <2>3
    <3>2. Cell(a)' = Cell(a)
      BY <2>1, <3>1, Stays DEF Cell
    <3> QED
      BY <2>1, <3>1, <3>2
  <2>4. ReadsBack'
    BY <2>1 DEF ReadsBack
  <2> QED
    BY <2>1, <2>2, <2>3, <2>4
<1>4. CASE reset /\ buffered' = {0} /\ UNCHANGED <<known, expected>>
  BY <1>4 DEF reset, Cell, ReadsBack
<1>5. CASE UNCHANGED mc_vars
  BY <1>5 DEF mc_vars, vars, Cell, ReadsBack
<1> QED
  BY <1>1, <1>2, <1>3, <1>4, <1>5 DEF MCNext

(* What was written last at any address of the same cell is read back, for *)
(* any addresses of video memory and any bytes (ppu.cpp 159-174, 595-636). *)
THEOREM VideoReadsBack ==
  ASSUME VideoConstants
  PROVE  MCSpec => []ReadsBack
<1>1. MCInit => KnownInv
  BY DEF MCInit, Init, KnownInv, ReadsBack
<1>2. KnownInv /\ [MCNext]_mc_vars => KnownInv'
  BY KnownStep
<1>3. KnownInv => ReadsBack
  BY DEF KnownInv
<1> QED
  BY <1>1, <1>2, <1>3, PTL DEF MCSpec

-----------------------------------------------------------------------------
(* The CPU's side                                                          *)

(* A register of the PPU is the PPU's only, and none of the others' is.    *)
LEMMA PpuRegisters ==
  ASSUME NEW addr \in CpuAddresses
  PROVE  /\ PpuRegister(addr) \in PpuReads => addr >= 8192 /\ addr < 16384
         /\ PpuRegister(addr) \in PpuWrites => (addr >= 8192 /\ addr < 16384) \/ addr = 16404
BY DEF CpuAddresses, PpuRegister, PpuReads, PpuWrites

(* The order in which the bus asks (bus.cpp 14-34) does not matter: no     *)
(* access is claimed twice, whatever the mapper.                           *)
THEOREM AccessesDisjoint ==
  ASSUME NEW mapper \in Mappers, NEW addr \in CpuAddresses
  PROVE  OneClaimant(mapper, addr)
<1> SUFFICES ASSUME NEW one \in Units, NEW other \in Units
             PROVE  /\ ClaimsRead(one, mapper, addr) /\ ClaimsRead(other, mapper, addr) => one = other
                    /\ ClaimsWrite(one, mapper, addr) /\ ClaimsWrite(other, mapper, addr) => one = other
  BY DEF OneClaimant
<1>1. addr \in Nat
  BY DEF CpuAddresses
<1>2. ClaimsRead(one, mapper, addr) /\ ClaimsRead(other, mapper, addr) => one = other
  BY <1>1, PpuRegisters DEF Units, ClaimsRead, Expansion
<1>3. ClaimsWrite(one, mapper, addr) /\ ClaimsWrite(other, mapper, addr) => one = other
  BY <1>1, PpuRegisters DEF Units, ClaimsWrite, Expansion
<1> QED
  BY <1>2, <1>3

(* What the debugger shows for an address of the cartridge (cartridge.cpp  *)
(* 11-16, 000.cpp 29-35) is an address that reads the same byte, for any   *)
(* banks; the others it shows as 0.                                        *)
THEOREM ShownAddressReadsSame ==
  ASSUME NEW mapper \in Mappers, NEW low \in Nat, NEW high \in Nat,
         NEW addr \in CpuAddresses
  PROVE  ShownReadsSame(mapper, low, high, addr)
<1> USE DEF Expansion
<1>1. addr \in Nat /\ addr < 65536
  BY DEF CpuAddresses
<1>2. CASE low = high /\ addr >= 49152
  <2>1. (addr - 16384) % 16384 = addr % 16384
    BY <1>1, <1>2
  <2> QED
    BY <1>1, <1>2, <2>1 DEF ShownReadsSame, map_to_cpu_addr, MapperAddr, Bank, Offset, Window, HighWindow, LowWindow
<1>3. CASE ~(low = high /\ addr >= 49152)
  BY <1>1, <1>3 DEF ShownReadsSame, map_to_cpu_addr, MapperAddr, HighWindow
<1> QED
  BY <1>2, <1>3

(* The two windows of a single bank are shown as one (000.cpp 29-35 and    *)
(* 37-52), and those of two banks as two.                                  *)
THEOREM NromShownOnce ==
  ASSUME NEW low \in Nat, NEW high \in Nat,
         NEW one \in CpuAddresses, NEW other \in CpuAddresses
  PROVE  ShownOnce(low, high, one, other)
<1> SUFFICES ASSUME one >= 32768, other >= 32768
             PROVE  map_to_cpu_addr("M000", low, high, one) = map_to_cpu_addr("M000", low, high, other)
                    <=> Bank(low, high, one) = Bank(low, high, other) /\ Offset(one) = Offset(other)
  BY DEF ShownOnce, LowWindow
<1> DEFINE shown(addr) == map_to_cpu_addr("M000", low, high, addr)
<1>1. \A addr \in CpuAddresses : addr >= 32768 =>
        /\ addr \in Nat /\ addr < 65536
        /\ addr < 49152 => /\ shown(addr) = addr
                           /\ addr = 32768 + (addr % 16384) /\ Bank(low, high, addr) = low
        /\ addr >= 49152 => /\ shown(addr) = IF low = high THEN addr - 16384 ELSE addr
                            /\ addr = 49152 + (addr % 16384) /\ Bank(low, high, addr) = high
  <2> SUFFICES ASSUME NEW addr \in CpuAddresses, addr >= 32768
               PROVE  /\ addr \in Nat /\ addr < 65536
                      /\ addr < 49152 => /\ shown(addr) = addr
                                         /\ addr = 32768 + (addr % 16384) /\ Bank(low, high, addr) = low
                      /\ addr >= 49152 => /\ shown(addr) = IF low = high THEN addr - 16384 ELSE addr
                                          /\ addr = 49152 + (addr % 16384) /\ Bank(low, high, addr) = high
    OBVIOUS
  <2>1. addr \in Nat /\ addr < 65536
    BY DEF CpuAddresses
  <2>2. CASE addr < 49152
    <3>1. addr = 32768 + (addr % 16384)
      BY <2>1, <2>2
    <3>2. shown(addr) = addr /\ Bank(low, high, addr) = low
      BY <2>1, <2>2 DEF map_to_cpu_addr, MapperAddr, Bank, HighWindow, Expansion
    <3> QED
      BY <2>1, <2>2, <3>1, <3>2
  <2>3. CASE addr >= 49152
    <3>1. addr = 49152 + (addr % 16384)
      BY <2>1, <2>3
    <3>2. shown(addr) = (IF low = high THEN addr - 16384 ELSE addr) /\ Bank(low, high, addr) = high
      BY <2>1, <2>3 DEF map_to_cpu_addr, MapperAddr, Bank, Window, HighWindow, Expansion
    <3> QED
      BY <2>1, <2>3, <3>1, <3>2
  <2> QED
    BY <2>1, <2>2, <2>3
<1> HIDE DEF shown
<1>2. shown(one) = shown(other)
        <=> Bank(low, high, one) = Bank(low, high, other) /\ one % 16384 = other % 16384
  <2>1. CASE one < 49152 /\ other < 49152
    BY <1>1, <2>1
  <2>2. CASE one >= 49152 /\ other >= 49152
    BY <1>1, <2>2
  <2>3. CASE one < 49152 /\ other >= 49152
    BY <1>1, <2>3
  <2>4. CASE one >= 49152 /\ other < 49152
    BY <1>1, <2>4
  <2> QED
    BY <1>1, <2>1, <2>2, <2>3, <2>4
<1> QED
  BY <1>2 DEF shown, Offset, Window

-----------------------------------------------------------------------------
(* The stack page, for bytes of any size.                                  *)

(* An address is its two bytes.                                            *)
LEMMA TwoBytes ==
  ASSUME Ad!StackConstants, NEW address \in Ad!Address
  PROVE  /\ Ad!Low(address) \in Ad!Byte /\ Ad!High(address) \in Ad!Byte
         /\ Ad!High(address) * Base + Ad!Low(address) = address
<1> USE DEF Ad!StackConstants, Ad!Address, Ad!Byte, Ad!Low, Ad!High
<1>1. Base \in Nat /\ Base > 3 /\ address \in Nat /\ address < Base * Base
  OBVIOUS
<1>2. address = Base * (address \div Base) + (address % Base) /\ address % Base \in 0..(Base - 1)
  BY <1>1
<1>3. address \div Base \in Nat
  BY <1>1
<1>4. address \div Base < Base
  BY <1>1, <1>2, <1>3
<1> QED
  BY <1>1, <1>2, <1>3, <1>4

(* What store_stack_ puts aside load_stack_ gives back, and the pointer    *)
(* with it, wherever in the page the pointer is: where an address          *)
(* straddles the end of the page too (cpu.cpp 469-493).                    *)
THEOREM StackGivesBack ==
  ASSUME Ad!StackConstants, NEW cell \in Ad!Cells, NEW sp \in Ad!Byte,
         NEW byte \in Ad!Byte, NEW address \in Ad!Address
  PROVE  /\ Ad!ByteLoaded(Ad!ByteStored(cell, sp, byte), Ad!AfterByteStored(sp)) = byte
         /\ Ad!AfterByteLoaded(Ad!AfterByteStored(sp)) = sp
         /\ Ad!AddressLoaded(Ad!AddressStored(cell, sp, address), Ad!AfterAddressStored(sp)) = address
         /\ Ad!AfterAddressLoaded(Ad!AfterAddressStored(sp)) = sp
<1> DEFINE low == Ad!Lowered(sp)
<1>1. Base \in Nat /\ Base > 3 /\ sp \in 0..(Base - 1)
  BY DEF Ad!StackConstants, Ad!Byte
<1>2. low \in 0..(Base - 1) /\ Ad!Raised(low) = sp
  BY <1>1 DEF Ad!Lowered, Ad!Raised
<1>3. Ad!Lowered(low) \in 0..(Base - 1) /\ Ad!Raised(Ad!Lowered(low)) = low
  BY <1>1, <1>2 DEF Ad!Lowered, Ad!Raised
<1>4. Ad!ByteLoaded(Ad!ByteStored(cell, sp, byte), low) = byte
  BY <1>1, <1>2 DEF Ad!ByteLoaded, Ad!ByteStored, Ad!Cells
<1>5. low \in 0..Base /\ low + 1 \in 0..Base /\ low # low + 1
  BY <1>1, <1>2
<1>6. Ad!LoadAddress(Ad!StoreAddress(cell, low, address), low)
        = Ad!High(address) * Base + Ad!Low(address)
  BY <1>5 DEF Ad!LoadAddress, Ad!StoreAddress, Ad!Cells
<1>7. Ad!AddressLoaded(Ad!AddressStored(cell, sp, address), Ad!AfterAddressStored(sp)) = address
  BY <1>3, <1>6, TwoBytes DEF Ad!AddressLoaded, Ad!AddressStored, Ad!AfterAddressStored
<1> QED
  BY <1>2, <1>3, <1>4, <1>7
  DEF Ad!AfterByteStored, Ad!AfterByteLoaded, Ad!AfterAddressLoaded, Ad!AfterAddressStored

-----------------------------------------------------------------------------
(* Addressing modes, for bytes of any size.                                *)

(* The bytes of a sum of a page's start and a byte.                        *)
LEMMA PairSplits ==
  ASSUME Ad!StackConstants, NEW high \in Ad!Byte, NEW low \in Ad!Byte
  PROVE  /\ Ad!Pair(high, low) \in Ad!Address
         /\ Ad!High(Ad!Pair(high, low)) = high /\ Ad!Low(Ad!Pair(high, low)) = low
<1> USE DEF Ad!StackConstants, Ad!Byte, Ad!Address, Ad!Pair, Ad!High, Ad!Low
<1>1. Base \in Nat /\ Base > 3 /\ high \in 0..(Base - 1) /\ low \in 0..(Base - 1)
  OBVIOUS
<1>2. high * Base + low \in Nat
  BY <1>1
<1>3. high * Base <= (Base - 1) * Base
  BY <1>1
<1>4. high * Base + low < Base * Base
  BY <1>1, <1>2, <1>3
<1>5. (high * Base + low) \div Base = high /\ (high * Base + low) % Base = low
  BY <1>1, <1>2
<1> QED
  BY <1>2, <1>4, <1>5

(* Neither an index nor the second byte of a pointer leaves the page       *)
(* (cpu.cpp 531-558).                                                      *)
THEOREM AddressingStaysInPage ==
  ASSUME Ad!StackConstants, NEW addr \in Ad!Address, NEW index \in Ad!Byte
  PROVE  Ad!StaysInPage(addr, index)
<1>1. /\ Ad!Low(addr) \in Ad!Byte /\ Ad!High(addr) \in Ad!Byte
      /\ Base \in Nat /\ Base > 3 /\ addr \in Nat /\ index \in Nat
  <2>1. Ad!Low(addr) \in Ad!Byte /\ Ad!High(addr) \in Ad!Byte
    BY TwoBytes
  <2>2. Base \in Nat /\ Base > 3 /\ addr \in Nat /\ index \in Nat
    BY DEF Ad!StackConstants, Ad!Address, Ad!Byte
  <2> QED
    BY <2>1, <2>2
<1>2. \A number \in Nat : Ad!Low(number) \in Ad!Byte
  BY <1>1 DEF Ad!Low, Ad!Byte
<1>3. \A byte \in Ad!Byte : Ad!High(byte) = 0
  BY <1>1 DEF Ad!High, Ad!Byte
<1>4. Ad!Low(addr) + index \in Nat /\ addr + 1 \in Nat
  BY <1>1 DEF Ad!Byte
<1>5. Ad!SecondByte(addr) \in Ad!Address /\ Ad!High(Ad!SecondByte(addr)) = Ad!High(addr)
  BY <1>1, <1>2, <1>4, PairSplits DEF Ad!SecondByte
<1> QED
  BY <1>1, <1>2, <1>3, <1>4, <1>5 DEF Ad!StaysInPage, Ad!page_zero_addr, Ad!indexed_pz_addr

(* The extra cycle of an indexed read is paid exactly when the index       *)
(* carries out of the low byte (cpu.cpp 172-214).                          *)
THEOREM CrossingPaysForCarry ==
  ASSUME Ad!StackConstants, NEW addr \in Ad!Address, NEW index \in Ad!Byte
  PROVE  Ad!PaysForCarry(addr, index)
<1> DEFINE high == Ad!High(addr)
           low == Ad!Low(addr)
<1>0. low \in Ad!Byte /\ high \in Ad!Byte /\ high * Base + low = addr
  BY TwoBytes
<1> HIDE DEF high, low
<1>1. /\ Base \in Nat /\ Base > 3 /\ addr \in Nat /\ index \in 0..(Base - 1)
      /\ low \in 0..(Base - 1) /\ high \in 0..(Base - 1) /\ high * Base + low = addr
  BY <1>0 DEF Ad!StackConstants, Ad!Address, Ad!Byte
<1>2. CASE low + index < Base
  <2>1. low + index \in 0..(Base - 1) /\ addr + index = high * Base + (low + index)
    BY <1>1, <1>2
  <2>2. Ad!Pair(high, low + index) = addr + index
    BY <2>1 DEF Ad!Pair
  <2>3. addr + index \in Ad!Address /\ Ad!High(addr + index) = high
    BY <1>1, <2>1, <2>2, PairSplits DEF Ad!Byte
  <2>4. Ad!Moved(addr, index) = addr + index
    BY <1>1, <2>3 DEF Ad!Moved, Ad!Address
  <2> QED
    BY <1>1, <1>2, <2>3, <2>4 DEF Ad!PaysForCarry, Ad!PageCrossed, high, low
<1>3. CASE low + index >= Base /\ high < Base - 1
  <2>1. low + index - Base \in 0..(Base - 1) /\ high + 1 \in 0..(Base - 1)
        /\ (high + 1) * Base = high * Base + Base
    BY <1>1, <1>3
  <2>2. Ad!Pair(high + 1, low + index - Base) = addr + index
    BY <1>1, <2>1 DEF Ad!Pair
  <2>3. addr + index \in Ad!Address /\ Ad!High(addr + index) = high + 1
    BY <1>1, <2>1, <2>2, PairSplits DEF Ad!Byte
  <2>4. Ad!Moved(addr, index) = addr + index
    BY <1>1, <2>3 DEF Ad!Moved, Ad!Address
  <2> QED
    BY <1>1, <1>3, <2>3, <2>4 DEF Ad!PaysForCarry, Ad!PageCrossed, high, low
<1>4. CASE low + index >= Base /\ high = Base - 1
  <2>1. low + index - Base \in 0..(Base - 1) /\ addr = Base * Base - Base + low
    BY <1>1, <1>4
  <2>2. addr + index = Base * Base + (low + index - Base) /\ Base * Base > low + index - Base
    BY <1>1, <2>1
  <2>3. Ad!Moved(addr, index) = low + index - Base
    BY <1>1, <2>1, <2>2 DEF Ad!Moved
  <2>4. Ad!High(low + index - Base) = 0
    BY <1>1, <2>1 DEF Ad!High
  <2> QED
    BY <1>1, <1>4, <2>3, <2>4 DEF Ad!PaysForCarry, Ad!PageCrossed, high, low
<1> QED
  BY <1>1, <1>2, <1>3, <1>4
=============================================================================
