----------------------------- MODULE CPU_proofs -----------------------------
(***************************************************************************)
(* Proofs about the CPU's control, for any set of instructions: the idle   *)
(* counter never wraps and never starves, an NMI request is dropped only   *)
(* by entering its handler, and what is in flight lasts as long as it      *)
(* should.                                                                 *)
(***************************************************************************)
EXTENDS MCCPU, TLAPS

USE DEF CPUConstants

(* Types and IdleTicks together are inductive: the counter stays small     *)
(* because it is set from instr_.time or to 7, and it is 0 at every fetch  *)
(* because only the last tick leads there.                                 *)
IInv == TypeOK /\ IdleTicks

LEMMA InstrTime ==
  ASSUME NEW i \in Instr
  PROVE  i.time \in 2..8
  BY CPUAssumption

LEMMA IdleTicksSmall == IInv /\ state # "kFetching" => idle_ticks \in 1..7
  BY InstrTime DEF IInv, TypeOK, IdleTicks

LEMMA TickedIsPredecessor ==
  ASSUME IInv, state # "kFetching"
  PROVE  Ticked = idle_ticks - 1
<1>1. idle_ticks \in 1..7
  BY IdleTicksSmall
<1> QED
  BY <1>1 DEF Ticked

LEMMA NextCycleInRange == TypeOK => NextCycle \in 0..(CycleMod - 1)
  BY CPUAssumption DEF TypeOK, NextCycle

-----------------------------------------------------------------------------

(* The two halves of TypeOK, which the provers treat differently.          *)
Flags == int_disable \in BOOLEAN /\ nmi_requested \in BOOLEAN /\ irq_requested \in BOOLEAN

Counters ==
  /\ state \in {"kIdle", "kIRQ", "kFetching"}
  /\ idle_ticks \in Byte
  /\ cpu_cycle \in 0..(CycleMod - 1)
  /\ instr \in Instr \cup {NoInstr}

LEMMA Halves == TypeOK <=> Flags /\ Counters
  BY DEF TypeOK, Flags, Counters

LEMMA InitIInv == Init => IInv
<1> SUFFICES ASSUME Init PROVE IInv
  OBVIOUS
<1>1. Flags
  BY DEF Init, Flags
<1>2. Counters
  BY CPUAssumption DEF Init, Counters, Byte
<1>3. IdleTicks
  BY DEF Init, IdleTicks
<1> QED
  BY <1>1, <1>2, <1>3, Halves DEF IInv

LEMMA NextFlags == IInv /\ [Next]_vars => Flags'
<1> SUFFICES ASSUME Flags, [Next]_vars PROVE Flags'
  BY Halves DEF IInv
<1>1. CASE Step
  BY <1>1 DEF Step, wait, step_execute_, Raise, interrupt, step_fetch_, FetchFor, throw,
     ClearLines, IntDisableAfter, lines, Flags
<1>2. CASE dma_clock \/ reset \/ (Raise /\ UNCHANGED cpu_vars) \/ UNCHANGED vars
  BY <1>2 DEF dma_clock, reset, Raise, cpu_vars, vars, lines, Flags
<1> QED
  BY <1>1, <1>2 DEF Next

LEMMA NextIInv == IInv /\ [Next]_vars => IInv'
<1> SUFFICES ASSUME IInv, [Next]_vars PROVE Counters' /\ IdleTicks'
  BY NextFlags DEF IInv, TypeOK, Flags, Counters
<1> USE DEF IInv, Counters, IdleTicks, Byte
<1>0. Counters
  BY Halves
<1>1. CASE wait
  <2>1. idle_ticks' = idle_ticks - 1 /\ idle_ticks \in 2..7
    BY <1>1, TickedIsPredecessor, IdleTicksSmall DEF wait, Waits
  <2>2. state = "kIdle" => instr.time \in 2..8
    BY InstrTime
  <2>3. Counters'
    BY <1>0, <1>1, <2>1, NextCycleInRange DEF wait
  <2> QED
    BY <1>1, <2>1, <2>2, <2>3 DEF wait, Waits
<1>2. CASE step_execute_
  BY <1>0, <1>2, NextCycleInRange DEF step_execute_
<1>3. CASE interrupt
  BY <1>0, <1>3, NextCycleInRange DEF interrupt
<1>4. ASSUME NEW i \in Instr, step_fetch_(i)
      PROVE  Counters' /\ IdleTicks'
  <2>1. idle_ticks' \in 1..(i.time - 1) /\ i.time \in 2..8
    BY <1>4, InstrTime DEF step_fetch_, FetchFor
  <2> QED
    BY <1>4, <2>1, NextCycleInRange DEF step_fetch_, FetchFor
<1>5. ASSUME NEW i \in Instr, throw(i)
      PROVE  Counters' /\ IdleTicks'
  BY <1>0, <1>5 DEF throw
<1>6. CASE dma_clock
  BY <1>0, <1>6, NextCycleInRange DEF dma_clock
<1>7. CASE reset
  <2>1. cpu_cycle' \in 0..(CycleMod - 1)
    BY <1>7, CPUAssumption DEF reset
  <2> QED
    BY <1>0, <1>7, <2>1 DEF reset
<1>8. CASE UNCHANGED cpu_vars
  BY <1>0, <1>8 DEF cpu_vars
<1> QED
  BY <1>1, <1>2, <1>3, <1>4, <1>5, <1>6, <1>7, <1>8 DEF Next, Step, vars

(* Every variable keeps its type (CPU_State, cpu.h 33-85).                 *)
THEOREM TypeCorrect == Spec => []TypeOK
<1>1. IInv => TypeOK
  BY DEF IInv
<1> QED
  BY <1>1, InitIInv, NextIInv, PTL DEF Spec

(* IdleTicks (cpu.cpp 51 and 59): the assertion of step() holds and the    *)
(* 8-bit decrement never wraps.                                            *)
THEOREM IdleTicksSafe == Spec => []IdleTicks
<1>1. IInv => IdleTicks
  BY DEF IInv
<1> QED
  BY <1>1, InitIInv, NextIInv, PTL DEF Spec

-----------------------------------------------------------------------------
(* NmiNotLost (cpu.cpp 73-88): the only steps that lower the NMI line are  *)
(* the entry of a handler, since a fetch that finds it up takes it, and a  *)
(* reset.                                                                  *)
THEOREM NmiKept == Spec => NmiNotLost
<1>1. ASSUME [Next]_vars, nmi_requested, ~nmi_requested', IInv
      PROVE  state' = "kIRQ" /\ idle_ticks' = 7 /\ int_disable'
  <2>1. ~wait /\ ~dma_clock /\ ~(UNCHANGED vars)
    BY <1>1 DEF wait, dma_clock, vars, lines
  <2>2. ~Raise
    BY <1>1 DEF Raise, IInv, TypeOK
  <2>3. \A i \in Instr : ~step_fetch_(i) /\ ~throw(i)
    BY <1>1 DEF step_fetch_, FetchFor, throw, InterruptTaken
  <2>4. interrupt \/ reset
    BY <1>1, <2>1, <2>2, <2>3 DEF Next, Step
  <2> QED
    BY <2>4 DEF interrupt, reset
<1>2. IInv /\ [Next]_vars =>
        [nmi_requested /\ ~nmi_requested' =>
           state' = "kIRQ" /\ idle_ticks' = 7 /\ int_disable']_vars
  BY <1>1
<1> QED
  BY <1>2, InitIInv, NextIInv, PTL DEF Spec, NmiNotLost

-----------------------------------------------------------------------------
(* The steps already taken and the ticks still to come always add up.      *)
TimingInv ==
  /\ elapsed \in Nat
  /\ state = "kIRQ" => elapsed + idle_ticks = 8
  /\ state = "kIdle" => elapsed + idle_ticks = instr.time
  /\ state = "kFetching" /\ instr.op # "ukn" => elapsed = instr.time

LEMMA HistoryWatches == [MCNext]_mc_vars => [Next]_vars
BY DEF MCNext, Next, mc_vars, vars, cpu_vars, Raise

LEMMA Histories == MCSpec => Spec
<1>1. MCInit => Init
  BY DEF MCInit
<1> QED
  BY <1>1, HistoryWatches, PTL DEF MCSpec, Spec

LEMMA TimingInit == MCInit => TimingInv
BY DEF MCInit, Init, TimingInv

LEMMA TimingStep ==
  ASSUME IInv, TimingInv, [MCNext]_mc_vars
  PROVE  TimingInv'
<1> USE DEF TimingInv
<1>0. state # "kFetching" => Ticked = idle_ticks - 1 /\ idle_ticks \in 1..7
  BY TickedIsPredecessor, IdleTicksSmall
<1>1. CASE wait /\ elapsed' = IF Fetches THEN 1 ELSE elapsed + 1
  <2>1. elapsed' = elapsed + 1 /\ idle_ticks' = idle_ticks - 1
    BY <1>0, <1>1 DEF wait, Waits, Fetches
  <2> QED
    BY <1>0, <1>1, <2>1 DEF wait, Waits
<1>2. CASE step_execute_ /\ elapsed' = IF Fetches THEN 1 ELSE elapsed + 1
  <2>1. elapsed' = elapsed + 1 /\ elapsed + 1 = instr.time
    BY <1>0, <1>2 DEF step_execute_, Executes, Fetches
  <2> QED
    BY <1>2, <2>1 DEF step_execute_
<1>3. CASE interrupt /\ elapsed' = IF Fetches THEN 1 ELSE elapsed + 1
  BY <1>3 DEF interrupt
<1>4. ASSUME NEW i \in Instr, step_fetch_(i), elapsed' = IF Fetches THEN 1 ELSE elapsed + 1
      PROVE  TimingInv'
  BY <1>4, InstrTime DEF step_fetch_, FetchFor
<1>5. ASSUME NEW i \in Instr, throw(i), elapsed' = IF Fetches THEN 1 ELSE elapsed + 1
      PROVE  TimingInv'
  BY <1>5 DEF throw
<1>6. CASE dma_clock /\ UNCHANGED elapsed
  BY <1>6 DEF dma_clock
<1>7. CASE reset /\ elapsed' = 1
  BY <1>7 DEF reset
<1>8. CASE UNCHANGED <<cpu_vars, elapsed>>
  BY <1>8 DEF cpu_vars
<1> QED
  BY <1>1, <1>2, <1>3, <1>4, <1>5, <1>6, <1>7, <1>8 DEF MCNext, Step, mc_vars, vars

(* ExactTiming (cpu.cpp 111 and 279): an instruction lasts instr_.time     *)
(* steps and an interrupt entry 7, whatever the lines and the transfers    *)
(* do.                                                                     *)
THEOREM TimingExact == MCSpec => ExactTiming
<1>1. IInv /\ TimingInv /\ Begins /\ instr.op # "ukn"
        => elapsed = IF state = "kIRQ" THEN 7 ELSE instr.time
  <2> SUFFICES ASSUME IInv, TimingInv, Begins, instr.op # "ukn"
               PROVE  elapsed = IF state = "kIRQ" THEN 7 ELSE instr.time
    OBVIOUS
  <2>1. Fetches
    BY DEF Begins, interrupt, step_fetch_, FetchFor, throw
  <2>2. CASE state = "kFetching"
    BY <2>2 DEF TimingInv
  <2>3. CASE state = "kIRQ" /\ Ticked = 0
    BY <2>3, TickedIsPredecessor, IdleTicksSmall DEF TimingInv
  <2> QED
    BY <2>1, <2>2, <2>3 DEF Fetches
<1>2. Spec => []IInv
  BY InitIInv, NextIInv, PTL DEF Spec
<1>3. IInv /\ TimingInv /\ [MCNext]_mc_vars => TimingInv'
  BY TimingStep
<1>4. IInv /\ TimingInv /\ [MCNext]_mc_vars =>
        [Begins /\ instr.op # "ukn" =>
           elapsed = IF state = "kIRQ" THEN 7 ELSE instr.time]_mc_vars
  BY <1>1
<1> QED
  BY <1>2, <1>3, <1>4, Histories, TimingInit, PTL DEF MCSpec, ExactTiming
=============================================================================
