-------------------------------- MODULE PPU ---------------------------------
(***************************************************************************)
(* The dot clock of the picture processing unit (src/src/ppu.cpp): the     *)
(* scanline and dot counters, the vblank flag and its suppression, the     *)
(* end-of-frame flag, and the NMI the PPU pulls on the CPU.                *)
(*                                                                         *)
(* The CPU side is the environment of this module: it reads PPUSTATUS,     *)
(* writes PPUCTRL and PPUMASK, and clears its own NMI request when it      *)
(* services it.  Object memory is in OAM.tla; pixels are not modelled.     *)
(***************************************************************************)
EXTENDS Integers

CONSTANTS
  LastDot,      \* last dot of a scanline, 340 in the code
  LastLine,     \* last scanline of a frame, 260 in the code
  VBlankLine,   \* scanline at whose dot 1 vblank starts, 241 in the code
  NmiDot,       \* dot of VBlankLine at which the NMI is pulled, 20 in the code
  FrameMod      \* the frame counter is kept modulo this even number (2^64)

PPUConstants ==
  /\ LastDot \in Nat /\ NmiDot \in Nat
  /\ 1 < NmiDot /\ NmiDot <= LastDot
  /\ VBlankLine \in Nat /\ LastLine \in Nat
  /\ VBlankLine <= LastLine
  /\ FrameMod \in Nat /\ FrameMod > 0 /\ FrameMod % 2 = 0

ASSUME PPUAssumption == PPUConstants

VARIABLES
  scanline,         \* scanline_: -1 is the pre-render line
  ppu_cycle,        \* PPU_State::cycle_: the dot on the scanline
  frame,            \* frame_
  vblank,           \* ppustatus_.vblank_
  is_in_vblank,     \* is_in_vblank_
  suppress_vblank,  \* suppress_vblank_
  frame_done,       \* frame_done_
  nmi_enabled,      \* ppuctrl_.nmi_
  rendering,        \* ppumask_.render_bg_ || ppumask_.render_fg_
  nmi_requested     \* CPU_State::nmi_requested_, which pull_nmi() sets

ppu_vars == <<scanline, ppu_cycle, frame, vblank, is_in_vblank,
              suppress_vblank, frame_done, nmi_enabled, rendering>>
vars == <<ppu_vars, nmi_requested>>

TypeOK ==
  /\ scanline \in -1..LastLine
  /\ ppu_cycle \in 0..LastDot
  /\ frame \in 0..(FrameMod - 1)
  /\ vblank \in BOOLEAN /\ is_in_vblank \in BOOLEAN
  /\ suppress_vblank \in BOOLEAN /\ frame_done \in BOOLEAN
  /\ nmi_enabled \in BOOLEAN /\ rendering \in BOOLEAN
  /\ nmi_requested \in BOOLEAN

(* A PPU that has been constructed and reset: the members reset() leaves   *)
(* alone still have their initialisers.                                    *)
Init ==
  /\ scanline = -1 /\ ppu_cycle = 0 /\ frame = 0
  /\ vblank = FALSE /\ is_in_vblank = FALSE
  /\ suppress_vblank = FALSE /\ frame_done = FALSE
  /\ nmi_enabled = FALSE /\ rendering = FALSE
  /\ nmi_requested = FALSE

-----------------------------------------------------------------------------
(* PPU::tick_                                                              *)

At(line, dot) == scanline = line /\ ppu_cycle = dot

(* Each definition named for a slip is a wrong version of the one that      *)
(* follows it; a run whose property would not notice it checks nothing.    *)
SkipOnEveryFrame == rendering /\ At(-1, LastDot - 1)

(* On odd frames the last dot of the pre-render line is skipped while      *)
(* rendering is on.                                                        *)
OddFrameSkip ==
  rendering /\ At(-1, LastDot - 1) /\ frame % 2 = 1

NextDot == IF OddFrameSkip THEN ppu_cycle + 2 ELSE ppu_cycle + 1
LineEnds == NextDot > LastDot
FrameEnds == LineEnds /\ scanline = LastLine

NextFrame == IF frame = FrameMod - 1 THEN 0 ELSE frame + 1

Advance ==
  /\ ppu_cycle' = IF LineEnds THEN 0 ELSE NextDot
  /\ scanline' = IF FrameEnds THEN -1 ELSE IF LineEnds THEN scanline + 1 ELSE scanline
  /\ frame' = IF FrameEnds THEN NextFrame ELSE frame
  /\ frame_done' = (frame_done \/ FrameEnds)

VBlankFlagNotCleared ==
  CASE At(VBlankLine, 1)' ->
         /\ vblank' = (vblank \/ ~suppress_vblank)
         /\ suppress_vblank' = FALSE
         /\ is_in_vblank' = TRUE
    [] At(-1, 1)' -> is_in_vblank' = FALSE /\ UNCHANGED <<vblank, suppress_vblank>>
    [] OTHER -> UNCHANGED <<vblank, suppress_vblank, is_in_vblank>>

(* The flags are set on the dot the counters have just moved to; a pending *)
(* suppression eats the vblank flag but not is_in_vblank_.                 *)
VBlankFlags ==
  CASE At(VBlankLine, 1)' ->
         /\ vblank' = (vblank \/ ~suppress_vblank)
         /\ suppress_vblank' = FALSE
         /\ is_in_vblank' = TRUE
    [] At(-1, 1)' ->
         /\ vblank' = FALSE
         /\ is_in_vblank' = FALSE
         /\ UNCHANGED suppress_vblank
    [] OTHER -> UNCHANGED <<vblank, suppress_vblank, is_in_vblank>>

PullNmiLate ==
  nmi_requested' = (nmi_requested \/ (At(VBlankLine, NmiDot + 1)' /\ vblank' /\ nmi_enabled))

PullNmi ==
  nmi_requested' = (nmi_requested \/ (At(VBlankLine, NmiDot)' /\ vblank' /\ nmi_enabled))

tick_ ==
  /\ Advance
  /\ VBlankFlags
  /\ PullNmi
  /\ UNCHANGED <<nmi_enabled, rendering>>

-----------------------------------------------------------------------------
(* The registers the CPU reaches through PPU::on_read_cpu / on_write_cpu   *)

(* Reading PPUSTATUS acknowledges vblank; on the first two dots of the     *)
(* vblank line it also schedules a suppression.                            *)
read_ppustatus ==
  /\ vblank' = FALSE
  /\ suppress_vblank' = (suppress_vblank \/ (scanline = VBlankLine /\ ppu_cycle <= 1))
  /\ UNCHANGED <<scanline, ppu_cycle, frame, is_in_vblank, frame_done,
                 nmi_enabled, rendering, nmi_requested>>

PullOnEveryEnable(nmi) ==
  /\ nmi_enabled' = nmi
  /\ nmi_requested' = (nmi_requested \/ (vblank /\ nmi))
  /\ UNCHANGED <<scanline, ppu_cycle, frame, vblank, is_in_vblank,
                 suppress_vblank, frame_done, rendering>>

(* Enabling NMIs while the vblank flag is up pulls one at once.            *)
write_ppuctrl(nmi) ==
  /\ nmi_enabled' = nmi
  /\ nmi_requested' = (nmi_requested \/ (vblank /\ ~nmi_enabled /\ nmi))
  /\ UNCHANGED <<scanline, ppu_cycle, frame, vblank, is_in_vblank,
                 suppress_vblank, frame_done, rendering>>

write_ppumask(render) ==
  /\ rendering' = render
  /\ UNCHANGED <<scanline, ppu_cycle, frame, vblank, is_in_vblank,
                 suppress_vblank, frame_done, nmi_enabled, nmi_requested>>

(* Emulator::update polls and clears the end-of-frame flag.                *)
grab_frame_done ==
  /\ frame_done' = FALSE
  /\ UNCHANGED <<scanline, ppu_cycle, frame, vblank, is_in_vblank,
                 suppress_vblank, nmi_enabled, rendering, nmi_requested>>

(* PPU::reset leaves the status register, the suppression and the          *)
(* end-of-frame flag as they are.                                          *)
reset ==
  /\ scanline' = -1 /\ ppu_cycle' = 0 /\ frame' = 0
  /\ is_in_vblank' = FALSE
  /\ nmi_enabled' = FALSE /\ rendering' = FALSE
  /\ UNCHANGED <<vblank, suppress_vblank, frame_done>>

-----------------------------------------------------------------------------
(* The environment: CPU::step_fetch_ clears the request it services, and   *)
(* CPU::reset clears it with the rest of the machine.                      *)

Environment ==
  \/ read_ppustatus
  \/ \E nmi \in BOOLEAN : write_ppuctrl(nmi)
  \/ \E render \in BOOLEAN : write_ppumask(render)
  \/ grab_frame_done
  \/ reset /\ nmi_requested' = FALSE
  \/ nmi_requested /\ nmi_requested' = FALSE /\ UNCHANGED ppu_vars

Next == tick_ \/ Environment

Spec == Init /\ [][Next]_vars

(* Emulator::update calls PPU::step on every iteration of its loop.        *)
FairSpec == Spec /\ WF_vars(tick_)

-----------------------------------------------------------------------------
(* Where the vblank flag may be up: from dot 1 of the vblank line to the   *)
(* first dot of the pre-render line.                                       *)
InVBlankWindow ==
  \/ scanline = VBlankLine /\ ppu_cycle >= 1
  \/ scanline > VBlankLine
  \/ At(-1, 0)

(* The PPUSTATUS flag is never up while picture lines are drawn: whatever  *)
(* the program reads and writes, and even though reset() keeps the flag    *)
(* while it moves the counters (ppu.cpp 15-38), nobody sees vblank outside *)
(* its window.                                                             *)
VBlankWindow == vblank => InVBlankWindow

(* is_in_vblank_, which the debugging counters of Emulator::clock_ppu_     *)
(* read, follows the position whatever was suppressed or acknowledged;     *)
(* only a reset may leave it down at the start of the pre-render line.     *)
IsInVBlankTracksPosition ==
  /\ is_in_vblank => InVBlankWindow
  /\ InVBlankWindow /\ ~is_in_vblank => At(-1, 0)

(* With NMIs enabled for good and PPUSTATUS no longer read, NMIs never     *)
(* stop coming: one is pending at NmiDot of frame after frame.             *)
NmiRecurs ==
  <>[][~read_ppustatus /\ ~reset]_vars /\ <>[]nmi_enabled =>
    []<>(At(VBlankLine, NmiDot) /\ nmi_requested)
=============================================================================
