-------------------------------- MODULE CPU ---------------------------------
(***************************************************************************)
(* The control of the 6502 (src/src/cpu.cpp 44-292): the fetch, idle and   *)
(* execute states that make an instruction last its documented number of   *)
(* cycles, and the two interrupt lines the fetch looks at.                 *)
(*                                                                         *)
(* An instruction is a record of what the control and the bus see of it:   *)
(*   op    how it touches the interrupt-disable flag and the bus           *)
(*   addr  the address a "load" or a "store" accesses                      *)
(*   val   the value a "store" writes                                      *)
(*   time  the cycles it lasts, branch and page-crossing cycles included   *)
(* Registers, operands and the stack are data and are left out: the next   *)
(* instruction is any of Instr.                                            *)
(***************************************************************************)
EXTENDS Integers

CONSTANTS
  Instr,       \* the instructions programs are made of
  CycleMod     \* the cycle counter is kept modulo this even number (2^64)

Ops == {"load", "store", "sei", "cli", "plp", "brk", "nop", "ukn"}

Byte == 0..255
Address == 0..(2^16 - 1)

CPUConstants ==
  /\ Instr \subseteq [op : Ops, addr : Address, val : Byte, time : 2..8]
  /\ CycleMod \in Nat /\ CycleMod > 0 /\ CycleMod % 2 = 0

ASSUME CPUAssumption == CPUConstants

(* instr_ before the first fetch.                                          *)
NoInstr == [op |-> "nop", addr |-> 0, val |-> 0, time |-> 0]

VARIABLES
  state,          \* state_, as it is between two steps
  idle_ticks,     \* idle_ticks_, a uint8_t
  cpu_cycle,      \* CPU_State::cycle_
  int_disable,    \* the kIntDisable flag of status_
  instr,          \* instr_
  nmi_requested,  \* nmi_requested_
  irq_requested   \* irq_requested_

lines == <<nmi_requested, irq_requested>>
cpu_vars == <<state, idle_ticks, cpu_cycle, int_disable, instr>>
vars == <<cpu_vars, lines>>

TypeOK ==
  /\ state \in {"kIdle", "kIRQ", "kFetching"}
  /\ idle_ticks \in Byte
  /\ cpu_cycle \in 0..(CycleMod - 1)
  /\ int_disable \in BOOLEAN
  /\ instr \in Instr \cup {NoInstr}
  /\ nmi_requested \in BOOLEAN /\ irq_requested \in BOOLEAN

(* CPU::reset; the machine always resets the CPU before its first step.    *)
reset ==
  /\ state' = "kIRQ" /\ idle_ticks' = 7
  /\ cpu_cycle' = 0
  /\ int_disable' = TRUE
  /\ nmi_requested' = FALSE /\ irq_requested' = FALSE
  /\ UNCHANGED instr

Init ==
  /\ state = "kIRQ" /\ idle_ticks = 7
  /\ cpu_cycle = 0
  /\ int_disable = TRUE
  /\ nmi_requested = FALSE /\ irq_requested = FALSE
  /\ instr = NoInstr

-----------------------------------------------------------------------------
(* CPU::step.  The loop of step() falls through from the last idle tick to *)
(* what it was waiting for, so that one step is one of: a tick that leaves *)
(* something to wait for, an execution, or a fetch.                        *)

NextCycle == IF cpu_cycle = CycleMod - 1 THEN 0 ELSE cpu_cycle + 1

(* --idle_ticks_ on a uint8_t.                                             *)
Ticked == (idle_ticks + 255) % 256

Waits == state \in {"kIdle", "kIRQ"} /\ Ticked > 0
Executes == state = "kIdle" /\ Ticked = 0
Fetches == state = "kFetching" \/ (state = "kIRQ" /\ Ticked = 0)

wait ==
  /\ Waits
  /\ idle_ticks' = Ticked
  /\ cpu_cycle' = NextCycle
  /\ UNCHANGED <<state, int_disable, instr, lines>>

(* What exec_ does to the interrupt-disable flag; PLP and RTI pull it from *)
(* the stack.                                                              *)
IntDisableAfter ==
  CASE instr.op \in {"sei", "brk"} -> {TRUE}
    [] instr.op = "cli" -> {FALSE}
    [] instr.op = "plp" -> BOOLEAN
    [] OTHER -> {int_disable}

(* The bus access of instr goes with this step; whoever composes the CPU   *)
(* with a bus says what it does to the interrupt lines.                    *)
step_execute_ ==
  /\ Executes
  /\ state' = "kFetching"
  /\ idle_ticks' = 0
  /\ cpu_cycle' = NextCycle
  /\ int_disable' \in IntDisableAfter
  /\ UNCHANGED instr

(* Each definition named for a slip is a wrong version of one that follows  *)
(* it; a run whose property would not notice it checks nothing.            *)
IrqBeforeNmi == IF irq_requested THEN ~int_disable ELSE nmi_requested

NmiKeptPending == irq_requested' = FALSE /\ UNCHANGED nmi_requested

(* step_fetch_ looks at both lines at once: NMI first, IRQ if not masked,  *)
(* and both requests are dropped either way.                               *)
InterruptTaken == nmi_requested \/ (irq_requested /\ ~int_disable)

ClearLines == nmi_requested' = FALSE /\ irq_requested' = FALSE

EntryWithoutTicks ==
  /\ Fetches
  /\ InterruptTaken
  /\ ClearLines
  /\ int_disable' = TRUE
  /\ state' = "kIRQ"
  /\ cpu_cycle' = NextCycle
  /\ UNCHANGED <<idle_ticks, instr>>

interrupt ==
  /\ Fetches
  /\ InterruptTaken
  /\ ClearLines
  /\ int_disable' = TRUE
  /\ idle_ticks' = 7
  /\ state' = "kIRQ"
  /\ cpu_cycle' = NextCycle
  /\ UNCHANGED instr

(* A fetch that leaves ticks to wait for.                                 *)
FetchFor(i, ticks) ==
  /\ Fetches
  /\ ~InterruptTaken
  /\ i.op # "ukn"
  /\ ClearLines
  /\ instr' = i
  /\ idle_ticks' = ticks
  /\ state' = "kIdle"
  /\ cpu_cycle' = NextCycle
  /\ UNCHANGED int_disable

FetchOneTickMore(i) == FetchFor(i, i.time)

step_fetch_(i) == FetchFor(i, i.time - 1)

ThrowAfterCycle(i) ==
  /\ Fetches
  /\ ~InterruptTaken
  /\ i.op = "ukn"
  /\ ClearLines
  /\ instr' = i
  /\ idle_ticks' = 0
  /\ state' = "kFetching"
  /\ cpu_cycle' = NextCycle
  /\ UNCHANGED int_disable

(* An unknown opcode: step_fetch_ throws past ++cycle_ and the state stays *)
(* kFetching.                                                              *)
throw(i) ==
  /\ Fetches
  /\ ~InterruptTaken
  /\ i.op = "ukn"
  /\ ClearLines
  /\ instr' = i
  /\ idle_ticks' = 0
  /\ state' = "kFetching"
  /\ UNCHANGED <<cpu_cycle, int_disable>>

(* A cycle of an OAM transfer: the CPU is halted, its counter is not.      *)
dma_clock ==
  /\ cpu_cycle' = NextCycle
  /\ UNCHANGED <<state, idle_ticks, int_disable, instr, lines>>

-----------------------------------------------------------------------------
(* The CPU on its own: the bus access of an execution may pull either      *)
(* line, and so may the other units between two steps.                     *)

Raise ==
  /\ nmi_requested' \in {nmi_requested, TRUE}
  /\ irq_requested' \in {irq_requested, TRUE}

Step ==
  \/ wait
  \/ step_execute_ /\ Raise
  \/ interrupt
  \/ \E i \in Instr : step_fetch_(i) \/ throw(i)

Next ==
  \/ Step
  \/ dma_clock
  \/ reset
  \/ Raise /\ UNCHANGED cpu_vars

Spec == Init /\ [][Next]_vars

(* clock_cpu_ steps the CPU or the transfer, and a transfer is finite.     *)
FairSpec == Spec /\ WF_vars(Step)

-----------------------------------------------------------------------------
(* cpu.cpp 51 and 59: the fetch always leaves something to wait for, and   *)
(* the 8-bit --idle_ticks_ never wraps; in particular a masked IRQ, which  *)
(* leaves idle_ticks_ alone, finds it at 0 and is not taken for an entry.  *)
IdleTicks ==
  /\ state = "kFetching" => idle_ticks = 0
  /\ state = "kIRQ" => idle_ticks \in 1..7
  /\ state = "kIdle" => instr \in Instr /\ instr.op # "ukn" /\ idle_ticks \in 1..(instr.time - 1)

(* An NMI request is dropped only by entering its handler or by a reset:   *)
(* no masked IRQ, simultaneous IRQ or failing fetch loses it.              *)
NmiNotLost ==
  [][nmi_requested /\ ~nmi_requested' =>
       state' = "kIRQ" /\ idle_ticks' = 7 /\ int_disable']_vars
=============================================================================
