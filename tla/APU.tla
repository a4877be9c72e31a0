-------------------------------- MODULE APU ---------------------------------
(***************************************************************************)
(* The frame sequencer and the length counters of the audio unit           *)
(* (src/src/apu.cpp), the frame interrupt they raise, and the registers    *)
(* through which the CPU drives them.  Nothing in the code produces sound: *)
(* the linear timer of the triangle channel, the pulse timers and the DMC  *)
(* registers are written and never read, and are left out.                 *)
(***************************************************************************)
EXTENDS Integers

CONSTANTS
  Channels,       \* the channels with a length counter
  UninitHalted,   \* those whose len_halted_ has no initialiser (triangle, noise)
  Lengths,        \* the values of length_table
  SEQ_STEP_1, SEQ_STEP_2, SEQ_STEP_3, SEQ_STEP_4, SEQ_STEP_5

APUConstants ==
  /\ UninitHalted \subseteq Channels
  /\ Lengths \subseteq 1..255
  /\ SEQ_STEP_1 \in Nat /\ SEQ_STEP_2 \in Nat /\ SEQ_STEP_3 \in Nat
  /\ SEQ_STEP_4 \in Nat /\ SEQ_STEP_5 \in Nat
  /\ 0 < SEQ_STEP_1 /\ SEQ_STEP_1 < SEQ_STEP_2 /\ SEQ_STEP_2 < SEQ_STEP_3
  /\ SEQ_STEP_3 < SEQ_STEP_4 /\ SEQ_STEP_4 < SEQ_STEP_5

ASSUME APUAssumption == APUConstants

length_table ==
  <<11, 254, 20, 2, 40, 4, 80, 6, 160, 8, 60, 10, 14, 12, 26, 14,
    12, 16, 24, 18, 48, 20, 96, 22, 192, 24, 72, 26, 16, 28, 32, 30>>

VARIABLES
  apu_cycle,               \* APU::cycle_, advanced on every other CPU cycle
  odd_cycle,               \* odd_cycle_
  five_steps_sequence,     \* five_steps_sequence_
  irq_inhibit,             \* irq_inhibit_
  frame_irq,               \* frame_irq_
  sequencer_change_delay,  \* sequencer_change_delay_
  len_enabled,             \* len_enabled_ of each channel
  len_halted,              \* len_halted_ of each channel
  len_counter,             \* len_counter_ of each channel
  irq_requested            \* CPU_State::irq_requested_, which pull_irq() sets

seq_vars == <<apu_cycle, odd_cycle, five_steps_sequence, irq_inhibit,
              frame_irq, sequencer_change_delay>>
len_vars == <<len_enabled, len_halted, len_counter>>
apu_vars == <<seq_vars, len_vars>>
vars == <<apu_vars, irq_requested>>

TypeOK ==
  /\ apu_cycle \in 0..(SEQ_STEP_5 + 1)
  /\ odd_cycle \in BOOLEAN /\ five_steps_sequence \in BOOLEAN
  /\ irq_inhibit \in BOOLEAN /\ frame_irq \in BOOLEAN
  /\ sequencer_change_delay \in 0..4
  /\ len_enabled \in [Channels -> BOOLEAN]
  /\ len_halted \in [Channels -> BOOLEAN]
  /\ len_counter \in [Channels -> 0..255]
  /\ irq_requested \in BOOLEAN

(* A constructed and reset unit: reset() does not touch the halt flags, and *)
(* those without an initialiser hold whatever was in memory.                *)
Init ==
  /\ apu_cycle = 0 /\ odd_cycle = FALSE
  /\ five_steps_sequence = FALSE /\ irq_inhibit = FALSE
  /\ frame_irq = FALSE /\ sequencer_change_delay = 0
  /\ len_enabled = [c \in Channels |-> FALSE]
  /\ len_halted \in {h \in [Channels -> BOOLEAN] :
                       \A c \in Channels \ UninitHalted : ~h[c]}
  /\ len_counter = [c \in Channels |-> 0]
  /\ irq_requested = FALSE

-----------------------------------------------------------------------------
(* APU::step                                                               *)

(* Each definition named for a slip is a wrong version of the one that      *)
(* follows it; a run whose property would not notice it checks nothing.    *)
FrameIrqAtStep5 ==
  IF ~five_steps_sequence /\ apu_cycle = SEQ_STEP_5 THEN ~irq_inhibit ELSE frame_irq

(* frame_irq_ as the first statement of step() leaves it.                  *)
FrameIrq ==
  IF ~five_steps_sequence /\ apu_cycle = SEQ_STEP_4 THEN ~irq_inhibit ELSE frame_irq

SequenceOver ==
  apu_cycle >= 1 + (IF five_steps_sequence THEN SEQ_STEP_5 ELSE SEQ_STEP_4)

(* The position the switch of step() looks at, on an odd cycle.            *)
SequencePoint == IF SequenceOver THEN 0 ELSE apu_cycle

LastStep == odd_cycle /\ SequencePoint = SEQ_STEP_4 /\ ~five_steps_sequence

ChangeOneTooSoon == sequencer_change_delay = 2

ChangeIsDue == sequencer_change_delay = 1

HalfFrame ==
  \/ odd_cycle /\ SequencePoint \in {SEQ_STEP_2, SEQ_STEP_5}
  \/ LastStep
  \/ ChangeIsDue /\ five_steps_sequence

ClockStopsAtOne ==
  len_counter' =
    [c \in Channels |-> IF HalfFrame /\ len_counter[c] > 1 /\ ~len_halted[c]
                        THEN len_counter[c] - 1 ELSE len_counter[c]]

(* The on_clock(true) of the length counters.                              *)
ClockLengths ==
  len_counter' =
    [c \in Channels |-> IF HalfFrame /\ len_counter[c] > 0 /\ ~len_halted[c]
                        THEN len_counter[c] - 1 ELSE len_counter[c]]

(* A slip: the line is pulled for as long as the flag is up.               *)
PullsWhileUp == odd_cycle /\ FrameIrq

PullsIrq == LastStep /\ FrameIrq

Sequence ==
  /\ frame_irq' = FrameIrq
  /\ irq_requested' = (irq_requested \/ PullsIrq)
  /\ apu_cycle' = IF ChangeIsDue THEN 0
                  ELSE IF odd_cycle THEN SequencePoint + 1 ELSE apu_cycle
  /\ sequencer_change_delay' =
       IF sequencer_change_delay > 0 THEN sequencer_change_delay - 1 ELSE 0
  /\ odd_cycle' = ~odd_cycle

step ==
  /\ Sequence
  /\ ClockLengths
  /\ UNCHANGED <<five_steps_sequence, irq_inhibit, len_enabled, len_halted>>

-----------------------------------------------------------------------------
(* APU::on_write and APU::on_read                                          *)

(* First register of a channel: the halt flag.                             *)
write_halt(c, halt) ==
  /\ len_halted' = [len_halted EXCEPT ![c] = halt]
  /\ UNCHANGED <<seq_vars, len_enabled, len_counter>>

LoadDisabled(c, len) ==
  /\ len_counter' = [len_counter EXCEPT ![c] = len]
  /\ UNCHANGED <<seq_vars, len_enabled, len_halted>>

(* Last register of a channel: the counter is loaded if it is enabled.     *)
write_length(c, len) ==
  /\ len_counter' = IF len_enabled[c] THEN [len_counter EXCEPT ![c] = len] ELSE len_counter
  /\ UNCHANGED <<seq_vars, len_enabled, len_halted>>

(* $4015: on_ctrl of every channel; disabling one empties its counter.     *)
write_control(on) ==
  /\ len_enabled' = [c \in Channels |-> c \in on]
  /\ len_counter' = [c \in Channels |-> IF c \in on THEN len_counter[c] ELSE 0]
  /\ UNCHANGED <<seq_vars, len_halted>>

(* The expression of line 147 as C++ parses it: (3 + odd) ? 1 : 0.         *)
ChangeDelay == IF 3 + (IF odd_cycle THEN 1 ELSE 0) # 0 THEN 1 ELSE 0

(* $4017                                                                   *)
write_frame_counter(five, inhibit) ==
  /\ five_steps_sequence' = five
  /\ irq_inhibit' = inhibit
  /\ frame_irq' = (frame_irq /\ ~inhibit)
  /\ sequencer_change_delay' = ChangeDelay
  /\ UNCHANGED <<apu_cycle, odd_cycle, len_vars>>

(* $4015 read: acknowledges the frame interrupt, not the CPU's request.    *)
read_status ==
  /\ frame_irq' = FALSE
  /\ UNCHANGED <<apu_cycle, odd_cycle, five_steps_sequence, irq_inhibit,
                 sequencer_change_delay, len_vars>>

reset ==
  /\ apu_cycle' = 0 /\ odd_cycle' = FALSE
  /\ five_steps_sequence' = FALSE /\ irq_inhibit' = FALSE
  /\ frame_irq' = FALSE /\ sequencer_change_delay' = 0
  /\ len_enabled' = [c \in Channels |-> FALSE]
  /\ len_counter' = [c \in Channels |-> 0]
  /\ UNCHANGED len_halted

-----------------------------------------------------------------------------
(* The program of the CPU is the environment; CPU::step_fetch_ clears the  *)
(* request when it looks at it, CPU::reset with the rest of the machine.   *)

(* What an access does to the unit.                                        *)
Access ==
  \/ \E c \in Channels, halt \in BOOLEAN : write_halt(c, halt)
  \/ \E c \in Channels, len \in Lengths : write_length(c, len)
  \/ \E on \in SUBSET Channels : write_control(on)
  \/ \E five, inhibit \in BOOLEAN : write_frame_counter(five, inhibit)
  \/ read_status

Registers == Access /\ UNCHANGED irq_requested

TakeIrq == irq_requested /\ irq_requested' = FALSE /\ UNCHANGED apu_vars

Environment ==
  \/ Registers
  \/ reset /\ irq_requested' = FALSE
  \/ TakeIrq

Next == step \/ Environment

Spec == Init /\ [][Next]_vars

(* Emulator::clock_cpu_ calls APU::step on every CPU cycle, and the CPU    *)
(* looks at its interrupt lines on every fetch.                            *)
FairSpec == Spec /\ WF_vars(step) /\ WF_vars(TakeIrq)

-----------------------------------------------------------------------------
(* A channel switched off through $4015 stays silent: no later write to    *)
(* its length register and no sequencer step revives its counter, the      *)
(* status read by the program, until it is switched on again.              *)
DisabledSilent == \A c \in Channels : len_counter[c] > 0 => len_enabled[c]

(* While the program inhibits it the frame interrupt flag is down, though  *)
(* step() recomputes it at SEQ_STEP_4 without regard to earlier writes.    *)
InhibitedQuiet == irq_inhibit => ~frame_irq

(* Outside the one cycle a mode change takes, the sequencer of the         *)
(* four-step mode never runs past SEQ_STEP_4: a switch from the longer     *)
(* sequence restarts it.                                                   *)
SequencerInMode ==
  ~five_steps_sequence /\ sequencer_change_delay = 0 => apu_cycle <= SEQ_STEP_4 + 1

(* From some point on nobody touches the registers or resets the machine:  *)
(* the unit is clocked and the CPU takes its interrupts, and that is all.  *)
LeftAlone == <>[][step \/ TakeIrq]_vars

(* A length counter runs out: if from some point on nobody writes the      *)
(* registers, every channel that is not halted falls silent for good,      *)
(* also while frame interrupts are taken.                                  *)
LengthsExpire ==
  LeftAlone =>
    <>[](\A c \in Channels : len_halted[c] \/ len_counter[c] = 0)

(* The four-step sequence keeps interrupting an idle program: once the     *)
(* registers are left alone, four-step mode without inhibition requests    *)
(* an IRQ over and over.                                                   *)
FrameIrqRecurs ==
  LeftAlone /\ <>[](~five_steps_sequence /\ ~irq_inhibit) =>
    []<>(~irq_requested) /\ []<>irq_requested

(* apu.cpp 140: "Write is delayed by 3 or 4 CPU cycle depending on         *)
(* odd_cycle_".  The expression of line 147 always yields 1.               *)
WriteDelayed ==
  [][sequencer_change_delay = 0 /\ sequencer_change_delay' > 0 =>
       sequencer_change_delay' = IF odd_cycle THEN 4 ELSE 3]_vars
=============================================================================
