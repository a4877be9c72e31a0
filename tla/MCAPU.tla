------------------------------- MODULE MCAPU --------------------------------
(***************************************************************************)
(* The audio unit with a history variable that counts its cycles since it  *)
(* last raised an interrupt request.  The history only watches.            *)
(***************************************************************************)
EXTENDS APU

VARIABLE quiet   \* cycles since the request last went up, or since power on

mc_vars == <<vars, quiet>>

(* The cycles of a four-step sequence, where the count saturates.          *)
SequenceLength == 2 * (SEQ_STEP_4 + 1)

Raised == ~irq_requested /\ irq_requested'

MCInit == Init /\ quiet = 0

MCstep ==
  /\ step
  /\ quiet' = IF Raised THEN 0 ELSE IF quiet < SequenceLength THEN quiet + 1 ELSE quiet

MCNext == MCstep \/ (Environment /\ UNCHANGED quiet)

MCSpec == MCInit /\ [][MCNext]_mc_vars

(* With the fairness of APU's FairSpec.                                    *)
MCFairSpec == MCSpec /\ WF_mc_vars(MCstep) /\ WF_mc_vars(TakeIrq /\ UNCHANGED quiet)

-----------------------------------------------------------------------------
(* A request only goes up uninhibited, in the four-step mode, with the     *)
(* flag up for the handler to read in $4015, and never a second time in    *)
(* one sequence (apu.cpp 39-47 and 61-77): the cycle that raises one is at *)
(* least a whole sequence after the one that raised the last, however the  *)
(* program took or acknowledged that one, inhibited and allowed the        *)
(* interrupt, changed the mode or reset the machine in between.            *)
IrqJustified ==
  [][Raised => /\ frame_irq' /\ ~irq_inhibit' /\ ~five_steps_sequence'
               /\ quiet + 1 >= SequenceLength]_mc_vars
=============================================================================
