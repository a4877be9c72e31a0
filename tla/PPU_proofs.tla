----------------------------- MODULE PPU_proofs -----------------------------
(***************************************************************************)
(* Proofs about the dot clock, for a picture of any size: the types, that  *)
(* the vblank flag is only ever up inside the vblank window, how many NMIs *)
(* a vblank raises and how long two frames last.                           *)
(***************************************************************************)
EXTENDS MCPPU, TLAPS

USE DEF PPUConstants

(* What the counters do in a tick, once and for all: they stay in range,   *)
(* and a tick leaves the vblank window only at dot 1 of the pre-render     *)
(* line.                                                                   *)
LEMMA AdvanceInRange ==
  ASSUME TypeOK, Advance
  PROVE  /\ scanline' \in -1..LastLine
         /\ ppu_cycle' \in 0..LastDot
         /\ frame' \in 0..(FrameMod - 1)
         /\ frame_done' \in BOOLEAN
  BY PPUAssumption DEF TypeOK, Advance, FrameEnds, LineEnds, NextDot, NextFrame,
                       OddFrameSkip, At

LEMMA WindowLeftAtPreRender ==
  ASSUME TypeOK, Advance, InVBlankWindow
  PROVE  InVBlankWindow' \/ At(-1, 1)'
  BY PPUAssumption DEF TypeOK, Advance, FrameEnds, LineEnds, NextDot,
                       OddFrameSkip, At, InVBlankWindow

LEMMA WindowEnteredAtVBlank ==
  ASSUME TypeOK, Advance, ~InVBlankWindow, InVBlankWindow'
  PROVE  At(VBlankLine, 1)'
  BY PPUAssumption DEF TypeOK, Advance, FrameEnds, LineEnds, NextDot,
                       OddFrameSkip, At, InVBlankWindow

-----------------------------------------------------------------------------
(* Every variable keeps its type (PPU_State, ppu.h 50-79).                 *)
THEOREM TypeCorrect == Spec => []TypeOK
<1>1. Init => TypeOK
  <2> SUFFICES ASSUME Init PROVE TypeOK
    OBVIOUS
  <2>1. scanline \in -1..LastLine /\ ppu_cycle \in 0..LastDot
    BY PPUAssumption DEF Init
  <2>2. frame \in 0..(FrameMod - 1)
    BY PPUAssumption DEF Init
  <2>3. /\ vblank \in BOOLEAN /\ is_in_vblank \in BOOLEAN
        /\ suppress_vblank \in BOOLEAN /\ frame_done \in BOOLEAN
        /\ nmi_enabled \in BOOLEAN /\ rendering \in BOOLEAN
        /\ nmi_requested \in BOOLEAN
    BY DEF Init
  <2> QED
    BY <2>1, <2>2, <2>3 DEF TypeOK
<1>2. TypeOK /\ [Next]_vars => TypeOK'
  <2> SUFFICES ASSUME TypeOK, [Next]_vars PROVE TypeOK'
    OBVIOUS
  <2>1. CASE tick_
    <3>1. /\ vblank' \in BOOLEAN /\ suppress_vblank' \in BOOLEAN
          /\ is_in_vblank' \in BOOLEAN
      BY <2>1 DEF tick_, VBlankFlags, TypeOK
    <3>2. nmi_requested' \in BOOLEAN
      BY <2>1 DEF tick_, PullNmi, TypeOK
    <3> QED
      BY <2>1, <3>1, <3>2, AdvanceInRange DEF tick_, TypeOK
  <2>2. CASE Environment
    <3>1. /\ scanline' \in -1..LastLine /\ ppu_cycle' \in 0..LastDot
          /\ frame' \in 0..(FrameMod - 1)
      BY <2>2, PPUAssumption DEF Environment, read_ppustatus, write_ppuctrl,
         write_ppumask, grab_frame_done, reset, ppu_vars, TypeOK
    <3>2. /\ vblank' \in BOOLEAN /\ is_in_vblank' \in BOOLEAN
          /\ suppress_vblank' \in BOOLEAN /\ frame_done' \in BOOLEAN
          /\ nmi_enabled' \in BOOLEAN /\ rendering' \in BOOLEAN
          /\ nmi_requested' \in BOOLEAN
      BY <2>2 DEF Environment, read_ppustatus, write_ppuctrl, write_ppumask,
         grab_frame_done, reset, ppu_vars, TypeOK
    <3> QED
      BY <3>1, <3>2 DEF TypeOK
  <2>3. CASE UNCHANGED vars
    BY <2>3 DEF vars, ppu_vars, TypeOK
  <2> QED
    BY <2>1, <2>2, <2>3 DEF Next
<1> QED
  BY <1>1, <1>2, PTL DEF Spec

-----------------------------------------------------------------------------
(* The flag and is_in_vblank_ are only up inside the window, and inside it *)
(* is_in_vblank_ is up unless the machine has just been reset.             *)
Windows == VBlankWindow /\ IsInVBlankTracksPosition

(* VBlankWindow (ppu.cpp 512-538): nobody sees the vblank flag while the   *)
(* picture is drawn, whatever the program and the user do.                 *)
THEOREM VBlankInWindow == Spec => [](VBlankWindow /\ IsInVBlankTracksPosition)
<1>1. Init => Windows
  BY DEF Init, Windows, VBlankWindow, IsInVBlankTracksPosition, InVBlankWindow, At
<1>2. TypeOK /\ Windows /\ [Next]_vars => Windows'
  <2> SUFFICES ASSUME TypeOK, Windows, [Next]_vars PROVE Windows'
    OBVIOUS
  <2>1. CASE tick_
    <3>1. CASE At(VBlankLine, 1)'
      <4>1. InVBlankWindow'
        BY <3>1 DEF InVBlankWindow, At
      <4>2. ~At(-1, 1)'
        BY <3>1, PPUAssumption DEF At
      <4>3. is_in_vblank'
        BY <2>1, <3>1, <4>2 DEF tick_, VBlankFlags
      <4> QED
        BY <4>1, <4>3 DEF Windows, VBlankWindow, IsInVBlankTracksPosition
    <3>2. CASE At(-1, 1)'
      <4>1. ~At(VBlankLine, 1)' /\ ~InVBlankWindow'
        BY <3>2, PPUAssumption DEF At, InVBlankWindow
      <4>2. ~vblank' /\ ~is_in_vblank'
        BY <2>1, <3>2, <4>1 DEF tick_, VBlankFlags
      <4> QED
        BY <4>1, <4>2 DEF Windows, VBlankWindow, IsInVBlankTracksPosition
    <3>3. CASE ~At(VBlankLine, 1)' /\ ~At(-1, 1)'
      <4>1. UNCHANGED <<vblank, is_in_vblank>>
        BY <2>1, <3>3 DEF tick_, VBlankFlags
      <4>2. InVBlankWindow <=> InVBlankWindow'
        BY <2>1, <3>3, WindowLeftAtPreRender, WindowEnteredAtVBlank DEF tick_
      <4>3. ~At(-1, 0) => (InVBlankWindow /\ ~is_in_vblank => FALSE)
        BY DEF Windows, IsInVBlankTracksPosition
      <4>4. At(-1, 0) => FALSE
        BY <2>1, <3>3, PPUAssumption DEF tick_, Advance, TypeOK, At, LineEnds,
           FrameEnds, NextDot, OddFrameSkip
      <4> QED
        BY <4>1, <4>2, <4>3, <4>4 DEF Windows, VBlankWindow, IsInVBlankTracksPosition
    <3> QED
      BY <3>1, <3>2, <3>3
  <2>2. CASE Environment
    <3>1. CASE reset
      BY <3>1, PPUAssumption DEF reset, Windows, VBlankWindow,
         IsInVBlankTracksPosition, InVBlankWindow, At, TypeOK
    <3>2. CASE ~reset
      BY <2>2, <3>2 DEF Environment, read_ppustatus, write_ppuctrl, write_ppumask,
         grab_frame_done, ppu_vars, Windows, VBlankWindow,
         IsInVBlankTracksPosition, InVBlankWindow, At
    <3> QED
      BY <3>1, <3>2
  <2>3. CASE UNCHANGED vars
    BY <2>3 DEF vars, ppu_vars, Windows, VBlankWindow, IsInVBlankTracksPosition,
       InVBlankWindow, At
  <2> QED
    BY <2>1, <2>2, <2>3 DEF Next
<1> QED
  BY <1>1, <1>2, TypeCorrect, PTL DEF Spec, Windows

-----------------------------------------------------------------------------
(* The history only watches.                                               *)
LEMMA HistoryWatches ==
  ASSUME [Watched(Next)]_mc_vars
  PROVE  [Next]_vars
BY DEF Watched, mc_vars

LEMMA Histories == MCSpec => Spec
<1>1. MCInit => Init
  BY DEF MCInit
<1> QED
  BY <1>1, HistoryWatches, PTL DEF MCSpec, Spec

(* Only a tick and a reset move the position.                              *)
LEMMA PositionMoved ==
  ASSUME [Next]_vars
  PROVE  tick_ \/ reset \/ UNCHANGED <<scanline, ppu_cycle, frame>>
BY DEF Next, Environment, read_ppustatus, write_ppuctrl, write_ppumask,
       grab_frame_done, vars, ppu_vars

-----------------------------------------------------------------------------
(* NMIs: until the dot-20 pull of this vblank is past, each request was    *)
(* paid for by a write.                                                    *)
PullIsAhead == scanline = VBlankLine /\ 1 <= ppu_cycle /\ ppu_cycle < NmiDot

BudgetInv ==
  /\ nmis \in 0..MaxCount /\ enables \in 0..MaxCount
  /\ NmiBudget
  /\ PullIsAhead => nmis <= enables

LEMMA Saturates ==
  ASSUME NEW m \in 0..MaxCount, NEW n \in 0..MaxCount
  PROVE  /\ Saturate(m + 1) \in 0..MaxCount
         /\ m <= Saturate(m + 1) /\ Saturate(m + 1) <= m + 1
         /\ m <= n => Saturate(m + 1) <= Saturate(n + 1)
         /\ m <= n + 1 => Saturate(m + 1) <= Saturate(n + 1) + 1
BY MCPPUAssumption DEF Saturate

(* What raises a request: the pull at NmiDot, or a write that turns NMIs   *)
(* on.                                                                     *)
LEMMA RequestRaised ==
  ASSUME TypeOK, [Next]_vars, ~nmi_requested, nmi_requested'
  PROVE  \/ tick_ /\ At(VBlankLine, NmiDot)'
         \/ ~nmi_enabled /\ nmi_enabled' /\ UNCHANGED <<scanline, ppu_cycle>>
<1>1. CASE tick_
  BY <1>1 DEF tick_, PullNmi, TypeOK
<1>2. ASSUME NEW nmi \in BOOLEAN, write_ppuctrl(nmi)
      PROVE  ~nmi_enabled /\ nmi_enabled' /\ UNCHANGED <<scanline, ppu_cycle>>
  BY <1>2 DEF write_ppuctrl
<1>3. ~read_ppustatus /\ ~grab_frame_done /\ ~(UNCHANGED vars)
      /\ \A render \in BOOLEAN : ~write_ppumask(render)
  BY DEF read_ppustatus, grab_frame_done, write_ppumask, vars
<1> QED
  BY <1>1, <1>2, <1>3 DEF Next, Environment

(* The position before the pull is one where the pull is ahead, and one    *)
(* where it is ahead comes after one or where vblank begins.               *)
LEMMA PullFromAhead ==
  ASSUME TypeOK, tick_, At(VBlankLine, NmiDot)'
  PROVE  PullIsAhead /\ ~PullIsAhead'
BY PPUAssumption DEF tick_, Advance, TypeOK, At, LineEnds, FrameEnds, NextDot, OddFrameSkip, PullIsAhead

LEMMA AheadFromAhead ==
  ASSUME TypeOK, [Next]_vars, PullIsAhead', ~VBlankBegins
  PROVE  PullIsAhead
<1>1. CASE tick_
  BY <1>1, PPUAssumption DEF tick_, Advance, TypeOK, At, LineEnds, FrameEnds, NextDot,
     OddFrameSkip, PullIsAhead, VBlankBegins
<1>2. CASE reset
  BY <1>2, PPUAssumption DEF reset, PullIsAhead
<1>3. CASE UNCHANGED <<scanline, ppu_cycle, frame>>
  BY <1>3 DEF PullIsAhead
<1> QED
  BY <1>1, <1>2, <1>3, PositionMoved

LEMMA BudgetStep ==
  ASSUME TypeOK, BudgetInv, [Watched(Next)]_mc_vars
  PROVE  BudgetInv'
<1> USE DEF BudgetInv, NmiBudget
<1>1. CASE UNCHANGED mc_vars
  BY <1>1 DEF mc_vars, vars, ppu_vars, PullIsAhead
<1>2. CASE CountNmis /\ VBlankBegins
  BY <1>2, MCPPUAssumption DEF CountNmis
<1>3. CASE CountNmis /\ ~VBlankBegins
  <2>1. [Next]_vars
    BY HistoryWatches
  <2> DEFINE raised == ~nmi_requested /\ nmi_requested'
             enabled == ~nmi_enabled /\ nmi_enabled'
  <2>2. /\ nmis' = IF raised THEN Saturate(nmis + 1) ELSE nmis
        /\ enables' = IF enabled THEN Saturate(enables + 1) ELSE enables
    BY <1>3 DEF CountNmis
  <2>3. /\ Saturate(nmis + 1) \in 0..MaxCount /\ Saturate(enables + 1) \in 0..MaxCount
        /\ nmis <= Saturate(nmis + 1) /\ Saturate(nmis + 1) <= nmis + 1
        /\ enables <= Saturate(enables + 1)
        /\ nmis <= enables => Saturate(nmis + 1) <= Saturate(enables + 1)
        /\ nmis <= enables + 1 => Saturate(nmis + 1) <= Saturate(enables + 1) + 1
    BY Saturates
  <2>4. PullIsAhead' => PullIsAhead
    BY <1>3, <2>1, AheadFromAhead
  <2>5. raised => (PullIsAhead /\ ~PullIsAhead') \/ enabled
    BY <2>1, RequestRaised, PullFromAhead
  <2> HIDE DEF raised, enabled
  <2> QED
    BY <2>2, <2>3, <2>4, <2>5
<1> QED
  BY <1>1, <1>2, <1>3 DEF Watched

(* A vblank raises at most one NMI of its own and one for each write that  *)
(* turned NMIs on (ppu.cpp 49-60 and 540-544).                             *)
THEOREM NmisWithinBudget == MCSpec => []NmiBudget
<1>1. MCInit => BudgetInv
  BY MCPPUAssumption DEF MCInit, BudgetInv, NmiBudget
<1>2. TypeOK /\ BudgetInv /\ [Watched(Next)]_mc_vars => BudgetInv'
  BY BudgetStep
<1>3. BudgetInv => NmiBudget
  BY DEF BudgetInv
<1> QED
  BY <1>1, <1>2, <1>3, Histories, TypeCorrect, PTL DEF MCSpec

-----------------------------------------------------------------------------
(* Dots: how many have gone by, by the position, when rendering was left   *)
(* alone; the odd frame has the dots of an even one before it, and is one  *)
(* short past the skipped dot.                                             *)
DotsOfLine == LastDot + 1

DotsPassed ==
  (IF frame % 2 = 1 THEN (LastLine + 2) * DotsOfLine ELSE 0)
    + (scanline + 1) * DotsOfLine + ppu_cycle
    - (IF frame % 2 = 1 /\ rendering /\ scanline >= 0 THEN 1 ELSE 0)

DotsInv ==
  /\ dots \in Nat /\ steady \in BOOLEAN
  /\ steady => /\ dots = DotsPassed
               /\ frame % 2 = 1 /\ rendering /\ scanline = -1 => ppu_cycle < LastDot

LEMMA Parity ==
  ASSUME frame \in 0..(FrameMod - 1)
  PROVE  /\ NextFrame % 2 = 1 - (frame % 2)
         /\ frame % 2 \in {0, 1}
BY PPUAssumption DEF NextFrame

LEMMA NextLine ==
  ASSUME NEW line \in Int
  PROVE  /\ DotsOfLine \in Nat
         /\ (line + 1) * DotsOfLine = line * DotsOfLine + DotsOfLine
         /\ line * DotsOfLine \in Int /\ 0 * DotsOfLine = 0
BY PPUAssumption DEF DotsOfLine

(* Where a tick leads: past the skipped dot, to the next dot, to the next  *)
(* line or to the next frame.                                              *)
LEMMA TickLeads ==
  ASSUME TypeOK, tick_
  PROVE  /\ rendering' = rendering
         /\ \/ OddFrameSkip /\ scanline' = 0 /\ ppu_cycle' = 0 /\ frame' = frame /\ ~FrameEnds
            \/ ~OddFrameSkip /\ ppu_cycle < LastDot /\ scanline' = scanline
               /\ ppu_cycle' = ppu_cycle + 1 /\ frame' = frame /\ ~FrameEnds
            \/ ~OddFrameSkip /\ ppu_cycle = LastDot /\ scanline < LastLine
               /\ scanline' = scanline + 1 /\ ppu_cycle' = 0 /\ frame' = frame /\ ~FrameEnds
            \/ ~OddFrameSkip /\ ppu_cycle = LastDot /\ scanline = LastLine
               /\ scanline' = -1 /\ ppu_cycle' = 0 /\ frame' = NextFrame /\ FrameEnds
BY PPUAssumption DEF TypeOK, tick_, Advance, LineEnds, FrameEnds, NextDot, OddFrameSkip, At

LEMMA DotsTicked ==
  ASSUME TypeOK, DotsInv, steady, tick_, ~(FrameEnds /\ frame % 2 = 1)
  PROVE  DotsPassed' = DotsPassed + 1
         /\ (frame % 2 = 1 /\ rendering /\ scanline = -1 => ppu_cycle < LastDot)'
<1> DEFINE W == DotsOfLine
<1>1. /\ scanline \in -1..LastLine /\ ppu_cycle \in 0..LastDot /\ rendering \in BOOLEAN
      /\ LastDot \in Nat /\ LastDot > 1 /\ LastLine \in Nat /\ W = LastDot + 1
  BY PPUAssumption DEF TypeOK, DotsOfLine
<1>2. /\ (scanline + 1 + 1) * W = (scanline + 1) * W + W
      /\ (LastLine + 1 + 1) * W = (LastLine + 1) * W + W /\ 0 * W = 0
      /\ (scanline + 1) * W \in Int /\ (LastLine + 2) * W \in Int
  BY <1>1, NextLine
<1>3. NextFrame % 2 = 1 - (frame % 2) /\ frame % 2 \in {0, 1}
  BY Parity DEF TypeOK
<1>4. UNCHANGED <<W, rendering>>
  BY TickLeads DEF DotsOfLine
<1>5. CASE OddFrameSkip /\ scanline' = 0 /\ ppu_cycle' = 0 /\ frame' = frame
  <2>1. frame % 2 = 1 /\ rendering /\ scanline = -1 /\ ppu_cycle = LastDot - 1
    BY <1>5 DEF OddFrameSkip, At
  <2>2. (scanline + 1) * W = 0 /\ (scanline' + 1) * W = W
    BY <1>1, <1>2, <1>5, <2>1
  <2> QED
    BY <1>1, <1>2, <1>4, <1>5, <2>1, <2>2 DEF DotsPassed
<1>6. CASE ~OddFrameSkip /\ ppu_cycle < LastDot /\ scanline' = scanline
           /\ ppu_cycle' = ppu_cycle + 1 /\ frame' = frame
  BY <1>1, <1>2, <1>4, <1>6 DEF DotsPassed, OddFrameSkip, At
<1>7. CASE ~OddFrameSkip /\ ppu_cycle = LastDot /\ scanline < LastLine
           /\ scanline' = scanline + 1 /\ ppu_cycle' = 0 /\ frame' = frame
  <2>1. frame % 2 = 1 /\ rendering => scanline >= 0
    BY <1>1, <1>7 DEF DotsInv
  <2>2. (scanline' + 1) * W = (scanline + 1) * W + W
    BY <1>1, <1>2, <1>7
  <2> QED
    BY <1>1, <1>2, <1>4, <1>7, <2>1, <2>2 DEF DotsPassed
<1>8. CASE ~OddFrameSkip /\ ppu_cycle = LastDot /\ scanline = LastLine
           /\ scanline' = -1 /\ ppu_cycle' = 0 /\ frame' = NextFrame /\ FrameEnds
  <2>1. frame % 2 = 0 /\ frame' % 2 = 1
    <3>1. frame % 2 = 0
      BY <1>3, <1>8
    <3>2. NextFrame % 2 = 1
      BY <3>1, Parity DEF TypeOK
    <3> QED
      BY <1>8, <3>1, <3>2, Zenon
  <2>2. (scanline' + 1) * W = 0 /\ (LastLine + 2) * W = (scanline + 1) * W + W
    BY <1>1, <1>2, <1>8
  <2> QED
    BY <1>1, <1>2, <1>4, <1>8, <2>1, <2>2 DEF DotsPassed
<1> QED
  BY <1>5, <1>6, <1>7, <1>8, TickLeads

LEMMA DotsStep ==
  ASSUME TypeOK, DotsInv, [Watched(Next)]_mc_vars
  PROVE  DotsInv'
<1>1. CASE UNCHANGED mc_vars
  BY <1>1 DEF mc_vars, vars, ppu_vars, DotsInv, DotsPassed, DotsOfLine
<1> SUFFICES ASSUME CountDots, [Next]_vars
             PROVE  DotsInv'
  BY <1>1, HistoryWatches DEF Watched
<1>2. CASE reset
  <2>1. dots' = 0 /\ steady' = TRUE
    BY <1>2 DEF CountDots
  <2>2. scanline' = -1 /\ ppu_cycle' = 0 /\ frame' = 0
    BY <1>2 DEF reset
  <2>3. (scanline' + 1) * DotsOfLine = 0
    BY <2>2, NextLine
  <2>4. 0 < LastDot /\ UNCHANGED DotsOfLine
    BY PPUAssumption DEF DotsOfLine
  <2> QED
    BY <2>1, <2>2, <2>3, <2>4 DEF DotsInv, DotsPassed
<1>3. CASE tick_ /\ FrameEnds /\ frame % 2 = 1
  <2>1. dots' = 0 /\ steady' = TRUE
    BY <1>3 DEF CountDots
  <2>2. scanline' = -1 /\ ppu_cycle' = 0 /\ frame' = NextFrame
    BY <1>3, TickLeads
  <2>3. frame' % 2 = 0
    BY <1>3, <2>2, Parity DEF TypeOK
  <2>4. (scanline' + 1) * DotsOfLine = 0
    BY <2>2, NextLine
  <2>5. UNCHANGED DotsOfLine
    BY DEF DotsOfLine
  <2> QED
    BY <2>1, <2>2, <2>3, <2>4, <2>5 DEF DotsInv, DotsPassed
<1>4. CASE ~reset /\ tick_ /\ ~(FrameEnds /\ frame % 2 = 1)
  <2>1. dots' = dots + 1 /\ steady' = steady
    <3>1. rendering' = rendering
      BY <1>4, TickLeads
    <3> QED
      BY <1>4, <3>1, Zenon DEF CountDots, DotsInv
  <2> QED
    BY <1>4, <2>1, DotsTicked DEF DotsInv
<1>5. CASE ~reset /\ ~tick_
  <2>1. UNCHANGED <<scanline, ppu_cycle, frame>>
    BY <1>5, PositionMoved
  <2>2. dots' = dots /\ steady' = (steady /\ rendering' = rendering)
    BY <1>5 DEF CountDots
  <2>3. CASE rendering' = rendering
    BY <2>1, <2>2, <2>3 DEF DotsInv, DotsPassed, DotsOfLine
  <2>4. CASE rendering' # rendering
    BY <2>2, <2>4 DEF DotsInv
  <2> QED
    BY <2>3, <2>4
<1> QED
  BY <1>2, <1>3, <1>4, <1>5

LEMMA DotsInit == MCInit => DotsInv
<1> SUFFICES ASSUME MCInit PROVE DotsInv
  OBVIOUS
<1>1. scanline = -1 /\ ppu_cycle = 0 /\ frame = 0 /\ dots = 0 /\ steady = TRUE
  BY DEF MCInit, Init
<1>2. (scanline + 1) * DotsOfLine = 0
  BY <1>1, NextLine
<1> QED
  BY <1>1, <1>2, PPUAssumption DEF DotsInv, DotsPassed

(* Two frames have one dot less than twice the dots of a frame while       *)
(* rendering is on, and exactly twice while it is off, for a picture of    *)
(* any size (ppu.cpp 477-509).                                             *)
THEOREM FrameLengthHolds == MCSpec => FrameLength
<1>1. ASSUME TypeOK, DotsInv, tick_, FrameEnds, frame % 2 = 1, steady
      PROVE  dots + 1 = 2 * (LastDot + 1) * (LastLine + 2) - (IF rendering THEN 1 ELSE 0)
  <2>1. ppu_cycle = LastDot /\ scanline = LastLine /\ LastLine \in Nat /\ LastDot \in Nat
    BY <1>1, TickLeads, PPUAssumption
  <2>2. (LastLine + 1 + 1) * DotsOfLine = (LastLine + 1) * DotsOfLine + DotsOfLine
    BY <2>1, NextLine
  <2>3. dots = (LastLine + 2) * DotsOfLine + (LastLine + 1) * DotsOfLine + LastDot
               - (IF rendering THEN 1 ELSE 0)
    BY <1>1, <2>1 DEF DotsInv, DotsPassed
  <2>4. 2 * (LastDot + 1) * (LastLine + 2) = (LastLine + 2) * DotsOfLine + (LastLine + 2) * DotsOfLine
    BY <2>1 DEF DotsOfLine
  <2>5. (LastLine + 1) * DotsOfLine \in Int /\ (LastLine + 2) * DotsOfLine \in Int
    BY <2>1, NextLine
  <2> QED
    BY <2>1, <2>2, <2>3, <2>4, <2>5 DEF DotsOfLine
<1>2. TypeOK /\ DotsInv /\ [Watched(Next)]_mc_vars => DotsInv'
  BY DotsStep
<1> QED
  BY <1>1, <1>2, DotsInit, Histories, TypeCorrect, PTL DEF MCSpec, FrameLength
=============================================================================
