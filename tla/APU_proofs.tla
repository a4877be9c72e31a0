----------------------------- MODULE APU_proofs -----------------------------
(***************************************************************************)
(* Proofs about the audio unit, for any channels and any five increasing   *)
(* sequencer steps: the types, the silence of disabled channels, the       *)
(* inhibited frame interrupt, the range of the sequencer and what justifies *)
(* an interrupt request.                                                   *)
(***************************************************************************)
EXTENDS MCAPU, TLAPS

USE DEF APUConstants

Flags ==
  /\ odd_cycle \in BOOLEAN /\ five_steps_sequence \in BOOLEAN
  /\ irq_inhibit \in BOOLEAN /\ frame_irq \in BOOLEAN
  /\ irq_requested \in BOOLEAN

Sequencer ==
  /\ apu_cycle \in 0..(SEQ_STEP_5 + 1)
  /\ sequencer_change_delay \in 0..4

LengthCounters ==
  /\ len_enabled \in [Channels -> BOOLEAN]
  /\ len_halted \in [Channels -> BOOLEAN]
  /\ len_counter \in [Channels -> 0..255]

LEMMA Parts == TypeOK <=> Flags /\ Sequencer /\ LengthCounters
  BY DEF TypeOK, Flags, Sequencer, LengthCounters

-----------------------------------------------------------------------------

LEMMA InitTypeOK == Init => TypeOK
<1> SUFFICES ASSUME Init PROVE Flags /\ Sequencer /\ LengthCounters
  BY Parts
<1>1. Flags
  BY DEF Init, Flags
<1>2. Sequencer
  BY APUAssumption DEF Init, Sequencer
<1>3. LengthCounters
  BY DEF Init, LengthCounters
<1> QED
  BY <1>1, <1>2, <1>3

LEMMA NextFlags == TypeOK /\ [Next]_vars => Flags'
<1> SUFFICES ASSUME Flags, [Next]_vars PROVE Flags'
  BY Parts
<1>1. CASE step
  BY <1>1 DEF step, Sequence, FrameIrq, PullsIrq, LastStep, Flags
<1>2. CASE Environment
  BY <1>2 DEF Environment, Registers, Access, TakeIrq, reset, write_halt, write_length,
     write_control, write_frame_counter, read_status, apu_vars, seq_vars, Flags
<1>3. CASE UNCHANGED vars
  BY <1>3 DEF vars, apu_vars, seq_vars, Flags
<1> QED
  BY <1>1, <1>2, <1>3 DEF Next

LEMMA NextSequencer == TypeOK /\ [Next]_vars => Sequencer'
<1> SUFFICES ASSUME Sequencer, [Next]_vars PROVE Sequencer'
  BY Parts
<1>1. CASE step
  <2>1. SequencePoint \in 0..SEQ_STEP_5 \/ (SequencePoint = apu_cycle /\ ~SequenceOver)
    BY APUAssumption DEF SequencePoint, SequenceOver, Sequencer
  <2>2. SequencePoint \in 0..SEQ_STEP_5
    BY <2>1, APUAssumption DEF SequenceOver, Sequencer
  <2> QED
    BY <1>1, <2>2, APUAssumption DEF step, Sequence, Sequencer
<1>2. CASE Environment
  BY <1>2, APUAssumption DEF Environment, Registers, Access, TakeIrq, reset, write_halt,
     write_length, write_control, write_frame_counter, ChangeDelay, read_status,
     apu_vars, seq_vars, Sequencer
<1>3. CASE UNCHANGED vars
  BY <1>3 DEF vars, apu_vars, seq_vars, Sequencer
<1> QED
  BY <1>1, <1>2, <1>3 DEF Next

LEMMA NextLengthCounters == TypeOK /\ [Next]_vars => LengthCounters'
<1> SUFFICES ASSUME LengthCounters, [Next]_vars PROVE LengthCounters'
  BY Parts
<1>1. CASE step
  BY <1>1 DEF step, ClockLengths, LengthCounters
<1>2. CASE Registers
  <2>1. ASSUME NEW c \in Channels, NEW halt \in BOOLEAN, write_halt(c, halt)
        PROVE  LengthCounters'
    BY <2>1 DEF write_halt, LengthCounters
  <2>2. ASSUME NEW c \in Channels, NEW len \in Lengths, write_length(c, len)
        PROVE  LengthCounters'
    <3>1. len \in 0..255
      BY APUAssumption
    <3> QED
      BY <2>2, <3>1 DEF write_length, LengthCounters
  <2>3. ASSUME NEW on \in SUBSET Channels, write_control(on)
        PROVE  LengthCounters'
    BY <2>3 DEF write_control, LengthCounters
  <2>4. CASE read_status \/ \E five, inhibit \in BOOLEAN : write_frame_counter(five, inhibit)
    BY <2>4 DEF read_status, write_frame_counter, len_vars, LengthCounters
  <2> QED
    BY <1>2, <2>1, <2>2, <2>3, <2>4 DEF Registers, Access
<1>3. CASE reset
  BY <1>3 DEF reset, LengthCounters
<1>4. CASE TakeIrq \/ UNCHANGED vars
  BY <1>4 DEF TakeIrq, vars, apu_vars, len_vars, LengthCounters
<1> QED
  BY <1>1, <1>2, <1>3, <1>4 DEF Next, Environment

(* Every variable keeps its type (apu.h 70-92).                            *)
THEOREM TypeCorrect == Spec => []TypeOK
<1>1. TypeOK /\ [Next]_vars => TypeOK'
  BY NextFlags, NextSequencer, NextLengthCounters
     DEF TypeOK, Flags, Sequencer, LengthCounters
<1> QED
  BY <1>1, InitTypeOK, PTL DEF Spec

-----------------------------------------------------------------------------
(* DisabledSilent (apu.cpp 176-311): a channel that $4015 switched off     *)
(* keeps an empty counter until it is switched on again.                   *)
THEOREM DisabledChannelsSilent == Spec => []DisabledSilent
<1>1. Init => DisabledSilent
  BY DEF Init, DisabledSilent
<1>2. TypeOK /\ DisabledSilent /\ [Next]_vars => DisabledSilent'
  <2> SUFFICES ASSUME LengthCounters, DisabledSilent, [Next]_vars,
                      NEW c \in Channels, len_counter'[c] > 0
               PROVE  len_enabled'[c]
    BY Parts DEF DisabledSilent
  <2>0. len_counter[c] \in 0..255 /\ (len_counter[c] > 0 => len_enabled[c])
    BY DEF LengthCounters, DisabledSilent
  <2>1. CASE step
    BY <2>0, <2>1 DEF step, ClockLengths
  <2>2. ASSUME NEW d \in Channels, NEW halt \in BOOLEAN, write_halt(d, halt)
        PROVE  len_enabled'[c]
    BY <2>0, <2>2 DEF write_halt
  <2>3. ASSUME NEW d \in Channels, NEW len \in Lengths, write_length(d, len)
        PROVE  len_enabled'[c]
    <3>1. CASE len_enabled[d]
      <4>1. c # d => len_counter'[c] = len_counter[c]
        BY <2>3, <3>1 DEF write_length, LengthCounters
      <4> QED
        BY <2>0, <2>3, <3>1, <4>1 DEF write_length
    <3>2. CASE ~len_enabled[d]
      BY <2>0, <2>3, <3>2 DEF write_length
    <3> QED
      BY <3>1, <3>2
  <2>4. ASSUME NEW on \in SUBSET Channels, write_control(on)
        PROVE  len_enabled'[c]
    <3>1. c \in on
      BY <2>4 DEF write_control
    <3> QED
      BY <2>4, <3>1 DEF write_control
  <2>5. CASE read_status \/ \E five, inhibit \in BOOLEAN : write_frame_counter(five, inhibit)
    BY <2>0, <2>5 DEF read_status, write_frame_counter, len_vars
  <2>6. CASE reset
    BY <2>6 DEF reset
  <2>7. CASE TakeIrq \/ UNCHANGED vars
    BY <2>0, <2>7 DEF TakeIrq, vars, apu_vars, len_vars
  <2> QED
    BY <2>1, <2>2, <2>3, <2>4, <2>5, <2>6, <2>7 DEF Next, Environment, Registers, Access
<1> QED
  BY <1>1, <1>2, TypeCorrect, PTL DEF Spec

-----------------------------------------------------------------------------
(* InhibitedQuiet (apu.cpp 39, 142-145): inhibiting lowers the flag, and   *)
(* step() does not raise it again while the inhibition lasts.              *)
THEOREM InhibitionHolds == Spec => []InhibitedQuiet
<1>1. Init => InhibitedQuiet
  BY DEF Init, InhibitedQuiet
<1>2. TypeOK /\ InhibitedQuiet /\ [Next]_vars => InhibitedQuiet'
  <2> SUFFICES ASSUME Flags, InhibitedQuiet, [Next]_vars PROVE InhibitedQuiet'
    BY Parts
  <2>1. CASE step
    BY <2>1 DEF step, Sequence, FrameIrq, InhibitedQuiet
  <2>2. CASE Environment
    BY <2>2 DEF Environment, Registers, Access, TakeIrq, reset, write_halt, write_length,
       write_control, write_frame_counter, read_status, apu_vars, seq_vars,
       InhibitedQuiet, Flags
  <2>3. CASE UNCHANGED vars
    BY <2>3 DEF vars, apu_vars, seq_vars, InhibitedQuiet
  <2> QED
    BY <2>1, <2>2, <2>3 DEF Next
<1> QED
  BY <1>1, <1>2, TypeCorrect, PTL DEF Spec

(* SequencerInMode (apu.cpp 44-47, 71-75): a change of mode restarts the   *)
(* sequence before the next position of the shorter one is missed.         *)
THEOREM SequencerRange == Spec => []SequencerInMode
<1>1. Init => SequencerInMode
  BY APUAssumption DEF Init, SequencerInMode
<1>2. TypeOK /\ SequencerInMode /\ [Next]_vars => SequencerInMode'
  <2> SUFFICES ASSUME Sequencer, SequencerInMode, [Next]_vars PROVE SequencerInMode'
    BY Parts
  <2>1. CASE step
    <3>1. CASE ChangeIsDue
      BY <2>1, <3>1, APUAssumption DEF step, Sequence, SequencerInMode
    <3>2. CASE ~ChangeIsDue /\ ~five_steps_sequence /\ sequencer_change_delay = 0
      BY <2>1, <3>2, APUAssumption DEF step, Sequence, SequencePoint, SequenceOver,
         SequencerInMode, Sequencer
    <3>3. CASE ~ChangeIsDue /\ sequencer_change_delay # 0
      BY <2>1, <3>3 DEF step, Sequence, ChangeIsDue, SequencerInMode, Sequencer
    <3>4. CASE five_steps_sequence
      BY <2>1, <3>4 DEF step, SequencerInMode
    <3> QED
      BY <3>1, <3>2, <3>3, <3>4
  <2>2. CASE Environment
    BY <2>2, APUAssumption DEF Environment, Registers, Access, TakeIrq, reset, write_halt,
       write_length, write_control, write_frame_counter, ChangeDelay, read_status,
       apu_vars, seq_vars, SequencerInMode
  <2>3. CASE UNCHANGED vars
    BY <2>3 DEF vars, apu_vars, seq_vars, SequencerInMode
  <2> QED
    BY <2>1, <2>2, <2>3 DEF Next
<1> QED
  BY <1>1, <1>2, TypeCorrect, PTL DEF Spec

-----------------------------------------------------------------------------
(* What is between a request and the next: the cycles the sequence has     *)
(* taken to its position, where it has not passed the one that raises one. *)
QuietInv ==
  /\ quiet \in 0..SequenceLength
  /\ odd_cycle => quiet >= 1
  /\ apu_cycle <= SEQ_STEP_4 =>
       quiet >= 2 * apu_cycle /\ (odd_cycle => quiet >= 2 * apu_cycle + 1)

(* The position the switch of step() pulls the line at is the one where    *)
(* its first statement has just recomputed the flag.                       *)
LEMMA RaisedAtLastStep ==
  ASSUME TypeOK, step, Raised
  PROVE  /\ odd_cycle /\ apu_cycle = SEQ_STEP_4
         /\ frame_irq' /\ ~irq_inhibit' /\ ~five_steps_sequence'
<1>1. LastStep /\ frame_irq'
  BY DEF step, Sequence, PullsIrq, Raised, TypeOK
<1>2. odd_cycle /\ apu_cycle = SEQ_STEP_4 /\ ~five_steps_sequence
  BY <1>1, APUAssumption DEF LastStep, SequencePoint
<1>3. FrameIrq = ~irq_inhibit
  BY <1>2 DEF FrameIrq
<1> QED
  BY <1>1, <1>2, <1>3 DEF step, Sequence

(* A cycle without a request, counted once more.                           *)
LEMMA OneCycleTaken ==
  ASSUME TypeOK, step, QuietInv,
         quiet' = IF quiet < SequenceLength THEN quiet + 1 ELSE quiet
  PROVE  QuietInv'
<1> USE DEF QuietInv
<1>1. /\ SEQ_STEP_4 \in Nat /\ SEQ_STEP_4 >= 1 /\ SequenceLength = 2 * SEQ_STEP_4 + 2
      /\ SequenceLength' = SequenceLength
      /\ apu_cycle \in Nat /\ odd_cycle \in BOOLEAN /\ quiet \in Nat
      /\ odd_cycle' = ~odd_cycle
  BY APUAssumption DEF TypeOK, step, Sequence, SequenceLength
<1>2. quiet' \in 0..SequenceLength /\ quiet' >= 1 /\ quiet' >= quiet
      /\ (quiet' = quiet + 1 \/ quiet' = 2 * SEQ_STEP_4 + 2)
  BY <1>1
<1>3. CASE apu_cycle' = 0
  BY <1>1, <1>2, <1>3
<1>4. CASE ~odd_cycle /\ apu_cycle' = apu_cycle
  <2>1. ASSUME apu_cycle <= SEQ_STEP_4
        PROVE  quiet' >= 2 * apu_cycle + 1
    BY <1>1, <1>2, <2>1
  <2> QED
    BY <1>1, <1>2, <1>4, <2>1
<1>5. CASE odd_cycle /\ apu_cycle' = 1
  <2>1. quiet' >= 2 * 1
    BY <1>1, <1>2, <1>5
  <2> QED
    BY <1>1, <1>2, <1>5, <2>1
<1>6. CASE odd_cycle /\ apu_cycle' = apu_cycle + 1
  <2>1. ASSUME apu_cycle + 1 <= SEQ_STEP_4
        PROVE  quiet' >= 2 * (apu_cycle + 1)
    BY <1>1, <1>2, <1>6, <2>1
  <2> QED
    BY <1>1, <1>2, <1>6, <2>1
<1> QED
  BY <1>1, <1>3, <1>4, <1>5, <1>6 DEF step, Sequence, SequencePoint

LEMMA QuietStep ==
  ASSUME TypeOK, QuietInv, [MCNext]_mc_vars
  PROVE  QuietInv'
<1>0. SequenceLength \in Nat /\ SequenceLength' = SequenceLength
  BY APUAssumption DEF SequenceLength
<1>1. CASE MCstep /\ Raised
  <2>1. odd_cycle /\ apu_cycle = SEQ_STEP_4 /\ ~five_steps_sequence
    BY <1>1, RaisedAtLastStep DEF MCstep, step
  <2>2. SEQ_STEP_4 \in Nat /\ SequencePoint = SEQ_STEP_4
    BY <2>1, APUAssumption DEF SequencePoint, SequenceOver
  <2>3. ~odd_cycle' /\ apu_cycle' \in {0, SEQ_STEP_4 + 1} /\ quiet' = 0
    BY <1>1, <2>1, <2>2 DEF MCstep, step, Sequence
  <2>4. CASE apu_cycle' = 0
    BY <1>0, <2>3, <2>4 DEF QuietInv
  <2>5. CASE apu_cycle' = SEQ_STEP_4 + 1
    BY <1>0, <2>2, <2>3, <2>5 DEF QuietInv
  <2> QED
    BY <2>3, <2>4, <2>5
<1>2. CASE MCstep /\ ~Raised
  BY <1>2, OneCycleTaken DEF MCstep
<1>3. CASE Environment /\ UNCHANGED quiet
  <2>1. CASE reset
    BY <1>0, <1>3, <2>1, APUAssumption DEF reset, QuietInv
  <2>2. CASE Registers \/ TakeIrq
    <3>1. UNCHANGED <<apu_cycle, odd_cycle>>
      BY <2>2 DEF Registers, Access, TakeIrq, write_halt, write_length, write_control,
         write_frame_counter, read_status, apu_vars, seq_vars
    <3> QED
      BY <1>0, <1>3, <3>1 DEF QuietInv
  <2> QED
    BY <1>3, <2>1, <2>2 DEF Environment
<1>4. CASE UNCHANGED mc_vars
  BY <1>0, <1>4 DEF mc_vars, vars, apu_vars, seq_vars, QuietInv
<1> QED
  BY <1>1, <1>2, <1>3, <1>4 DEF MCNext

LEMMA Histories == MCSpec => Spec
<1>1. MCInit => Init
  BY DEF MCInit
<1>2. [MCNext]_mc_vars => [Next]_vars
  BY DEF MCNext, MCstep, Next, mc_vars
<1> QED
  BY <1>1, <1>2, PTL DEF MCSpec, Spec

(* IrqJustified (apu.cpp 39-47 and 61-77): the position that raises a      *)
(* request is left for the beginning of a sequence, and the way back to it *)
(* takes a whole one; a change of mode and a reset only make it longer.    *)
THEOREM IrqIsJustified == MCSpec => IrqJustified
<1>1. MCInit => QuietInv
  BY APUAssumption DEF MCInit, Init, QuietInv, SequenceLength
<1>2. TypeOK /\ QuietInv /\ [MCNext]_mc_vars => QuietInv'
  BY QuietStep
<1>3. TypeOK /\ QuietInv /\ [MCNext]_mc_vars =>
        [Raised => /\ frame_irq' /\ ~irq_inhibit' /\ ~five_steps_sequence'
                   /\ quiet + 1 >= SequenceLength]_mc_vars
  <2> SUFFICES ASSUME TypeOK, QuietInv, MCNext, Raised
               PROVE  /\ frame_irq' /\ ~irq_inhibit' /\ ~five_steps_sequence'
                      /\ quiet + 1 >= SequenceLength
    OBVIOUS
  <2>1. step
    <3>1. ~Environment
      BY DEF Environment, Registers, Access, TakeIrq, Raised
    <3> QED
      BY <3>1 DEF MCNext, MCstep
  <2>2. quiet >= 2 * SEQ_STEP_4 + 1
    BY <2>1, RaisedAtLastStep, APUAssumption DEF QuietInv, SequenceLength
  <2> QED
    BY <2>1, <2>2, RaisedAtLastStep, APUAssumption DEF QuietInv, SequenceLength
<1> QED
  BY <1>1, <1>2, <1>3, Histories, TypeCorrect, PTL DEF MCSpec, IrqJustified
=============================================================================
