------------------------------ MODULE MCDevices ------------------------------
(***************************************************************************)
(* What Emulator leaves out: of the devices on the bus the mapper, the     *)
(* life of the cartridge with its saved memory and the controller; of the  *)
(* PPU the sprites and the memory behind PPUDATA; and the list of recent   *)
(* files.  They share no state here, so a behaviour follows one of them    *)
(* with the others at rest.                                                *)
(***************************************************************************)
EXTENDS MCM001, TLC

CONSTANTS
  Games, Batteries, Top, Bytes, EndOfText, ButtonCount, Files, recent_file_max,
  LastColumn, VisibleLines, LastLine, MaxSprites, Pictures, Height, Opaque

VARIABLES
  phase, cart, bus_cart, memory, wram, file, kept,     \* Cartridge
  buttons_state, read_state, report, disturbed,        \* Controller
  running, recent_files, settings, opened, remembered, \* RecentFiles
  scanline, column, render_bg, render_fg, tall, oam,   \* Sprites
  states, selector, sprite_0_hit, sprite_overflow,
  emptied, looked_up, shown, touched, mixed,           \* MCSprites
  cells, read_buffer_, mirroring_, answer,             \* VideoMemory
  known, buffered, expected,                           \* MCVideoMemory
  device                                               \* the one that is followed

S == INSTANCE Cartridge
K == INSTANCE Controller
R == INSTANCE RecentFiles

(* Two of three sprites fit on a line; one of them is in the way of, or    *)
(* below, the others.  Object memory holds few of them or none.            *)
Bar(x, y) == [y |-> y, x |-> x, tile |-> "bar"]
Dot(x, y) == [y |-> y, x |-> x, tile |-> "dot"]
ThePictures == {<<>>, <<Bar(0, 1), Dot(1, 1), Dot(0, 2)>>, <<Dot(1, 2), Bar(0, 2)>>}
TheOpaque == [bar |-> [row \in 0..1 |-> {0, 1}], dot |-> [row \in 0..1 |-> {row}]]

F == INSTANCE MCSprites

T == INSTANCE NameTables

(* The same place in each of the tables, one through the mirrors above     *)
(* them, and colours that are shared and that are not.                     *)
Sampled ==
  {T!Tables + 5, T!Tables + T!TableSize + 5, T!Tables + 2 * T!TableSize + 5,
   T!TableMirrors + 3 * T!TableSize + 5} \union
  {T!Palette + place : place \in {1, 16, 32}}

D == INSTANCE MCVideoMemory WITH Bytes <- {0, 1}

ASSUME DevicesAssumption ==
  /\ S!CartridgeConstants /\ K!ControllerConstants /\ R!RecentConstants
  /\ F!SpriteConstants /\ D!VideoConstants

M == INSTANCE CpuMap

(* The theorems of Bus_proofs on the CPU's map, at every address.  *)
ASSUME CpuMapSound ==
  \A mapper \in M!Mappers, addr \in M!CpuAddresses :
    /\ M!OneClaimant(mapper, addr)
    /\ \A low, high \in {0, 1} :
         /\ M!ShownReadsSame(mapper, low, high, addr)
         /\ \A other \in {32768, 32775, 49152, 49159} : M!ShownOnce(low, high, addr, other)

cartridge_vars == <<phase, cart, bus_cart, memory, wram, file, kept>>
controller_vars == <<buttons_state, read_state, report, disturbed>>
recent_vars == <<running, recent_files, settings, opened, remembered>>
sprite_vars ==
  <<scanline, column, render_bg, render_fg, tall, oam, states, selector, sprite_0_hit,
    sprite_overflow, emptied, looked_up, shown, touched, mixed>>
video_vars == <<cells, read_buffer_, mirroring_, answer, known, buffered, expected>>

(* Games that save are alike.                                              *)
Symmetry == Permutations(Batteries)

DevicesInit ==
  /\ MCInit /\ S!Init /\ K!Init /\ R!Init /\ F!MCInit /\ D!MCInit
  /\ device \in {"mapper", "cartridge", "controller", "settings", "sprites", "memory"}
  /\ device # "settings" => settings = R!Unreadable("absent")
  /\ device # "mapper" => mirroring = "None"
  /\ device # "sprites" => oam = F!Hidden
  /\ device # "memory" => mirroring_ = "None" /\ \A cell \in DOMAIN cells : cells[cell] = 0

board_vars == <<mc_vars, cartridge_vars, controller_vars>>
others_vars == <<recent_vars, sprite_vars, video_vars>>

device_vars == <<board_vars, others_vars, device>>

DevicesNext ==
  /\ UNCHANGED device
  /\ \/ device = "mapper" /\ MCNext /\ UNCHANGED <<cartridge_vars, controller_vars, others_vars>>
     \/ device = "cartridge" /\ S!Next /\ UNCHANGED <<mc_vars, controller_vars, others_vars>>
     \/ device = "controller" /\ K!Next /\ UNCHANGED <<mc_vars, cartridge_vars, others_vars>>
     \/ device = "settings" /\ R!Next /\ UNCHANGED <<board_vars, sprite_vars, video_vars>>
     \/ device = "sprites" /\ F!MCNext /\ UNCHANGED <<board_vars, recent_vars, video_vars>>
     \/ device = "memory" /\ D!MCNext /\ UNCHANGED <<board_vars, recent_vars, sprite_vars>>

DevicesSpec == DevicesInit /\ [][DevicesNext]_device_vars

(* A game finds what it had saved when the emulator was closed.            *)
SavesRestored == S!SavesRestored

(* The emulator never has a cartridge other than the bus's.                *)
ReadyIsEnough == S!ReadyIsEnough

(* A report gives each button once, in order, and then ones.               *)
ReportInOrder == K!ReportInOrder

(* The menu shows the ROMs last loaded, the last one first.                *)
RecentFirst == R!RecentFirst

(* A line shows the sprites found at the end of the line before it.        *)
SpritesOfLine == F!SpritesOfLine

(* The hit is the first sprite's, and is kept to the end of the picture.   *)
SpriteZeroHit == F!SpriteZeroHit

(* What was written last is read back through every mirror.                *)
ReadsBack == D!ReadsBack
=============================================================================
