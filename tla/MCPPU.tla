------------------------------- MODULE MCPPU --------------------------------
(***************************************************************************)
(* The dot clock with history variables, for the questions that count      *)
(* dots or NMIs.  The history only watches: it guards nothing.             *)
(***************************************************************************)
EXTENDS PPU

CONSTANT MaxCount   \* the two NMI counters saturate here

ASSUME MCPPUAssumption == MaxCount \in Nat

VARIABLES
  dots,     \* dots since the last even frame began
  steady,   \* rendering has not been switched since
  nmis,     \* NMI requests raised since vblank last began
  enables,  \* PPUCTRL writes that turned NMIs on since vblank last began
  raced     \* PPUSTATUS was read on dot 0 of the vblank line, vblank not yet begun

mc_vars == <<vars, dots, steady, nmis, enables, raced>>

Saturate(n) == IF n < MaxCount THEN n ELSE MaxCount

MCInit ==
  /\ Init
  /\ dots = 0 /\ steady = TRUE
  /\ nmis = 0 /\ enables = 0 /\ raced = FALSE

(* A dot that ends an odd frame, or a reset, starts the count again.       *)
CountDots ==
  IF reset \/ (tick_ /\ FrameEnds /\ frame % 2 = 1)
  THEN dots' = 0 /\ steady' = TRUE
  ELSE /\ dots' = IF tick_ THEN dots + 1 ELSE dots
       /\ steady' = (steady /\ rendering' = rendering)

VBlankBegins == ~At(VBlankLine, 1) /\ At(VBlankLine, 1)'

CountNmis ==
  /\ nmis' = IF VBlankBegins THEN 0
             ELSE IF ~nmi_requested /\ nmi_requested' THEN Saturate(nmis + 1) ELSE nmis
  /\ enables' = IF VBlankBegins THEN 0
                ELSE IF ~nmi_enabled /\ nmi_enabled' THEN Saturate(enables + 1) ELSE enables
  /\ raced' = IF VBlankBegins THEN FALSE
              ELSE raced \/ (At(VBlankLine, 0) /\ read_ppustatus)

Watched(A) == A /\ CountDots /\ CountNmis

MCSpec == MCInit /\ [][Watched(Next)]_mc_vars

(* With the fairness of PPU's FairSpec.                                    *)
MCFairSpec == MCSpec /\ WF_mc_vars(Watched(tick_))

-----------------------------------------------------------------------------
(* A vblank raises at most one NMI of its own, plus one for each time the  *)
(* program turned NMIs on during it: the dot-20 pull and the PPUCTRL pull  *)
(* (ppu.cpp 540-544 and 49-60) never both fire without such a write.       *)
NmiBudget == nmis <= enables + 1

(* Two frames last one dot less than twice the dots of a frame while       *)
(* rendering is on, and exactly twice while it is off: with the code's     *)
(* 341 dots and 262 lines, the "29780.5 cpu cycles per frame" of           *)
(* emulator.cpp 175.  No register access or late reset disturbs the count. *)
FrameLength ==
  [][tick_ /\ FrameEnds /\ frame % 2 = 1 /\ steady =>
       dots + 1 = 2 * (LastDot + 1) * (LastLine + 2) - (IF rendering THEN 1 ELSE 0)]_mc_vars

(* ppu.cpp 482: "vblank is set a the 2nd cycle of the 241st scanline".     *)
(* Unless the program read PPUSTATUS on the dot before, the flag should go *)
(* up; a suppression scheduled too late in the previous vblank (ppu.cpp    *)
(* 150) eats it instead.                                                   *)
VBlankIsSet == [][VBlankBegins /\ ~raced => vblank']_mc_vars

=============================================================================
