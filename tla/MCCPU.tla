------------------------------- MODULE MCCPU --------------------------------
(***************************************************************************)
(* The CPU with a history variable that counts the steps of the            *)
(* instruction or interrupt entry in flight, and a small program text.     *)
(***************************************************************************)
EXTENDS CPU

I(o, t) == [op |-> o, addr |-> 0, val |-> 0, time |-> t]

(* The shortest and the longest instructions, every kind of effect on the  *)
(* interrupt-disable flag, and an opcode the table does not know.          *)
MCInstr == {I("nop", 2), I("sei", 2), I("cli", 2), I("plp", 4), I("brk", 7),
            I("store", 8), I("ukn", 2)}

VARIABLE elapsed   \* steps since the fetch that began what is in flight

mc_vars == <<vars, elapsed>>

Begins == interrupt \/ \E i \in Instr : step_fetch_(i) \/ throw(i)

(* The reset sequence has one step fewer than a handler entry: reset()     *)
(* itself stands for the step that enters.                                 *)
MCInit == Init /\ elapsed = 1

MCNext ==
  \/ Step /\ elapsed' = IF Fetches THEN 1 ELSE elapsed + 1
  \/ dma_clock /\ UNCHANGED elapsed
  \/ reset /\ elapsed' = 1
  \/ Raise /\ UNCHANGED <<cpu_vars, elapsed>>

MCSpec == MCInit /\ [][MCNext]_mc_vars

(* cpu.cpp 111 and 279: an instruction lasts exactly instr_.time steps and *)
(* a handler entry exactly 7, however the lines move and wherever the CPU  *)
(* is halted for an OAM transfer.                                          *)
ExactTiming ==
  [][Begins /\ instr.op # "ukn" =>
       elapsed = IF state = "kIRQ" THEN 7 ELSE instr.time]_mc_vars
=============================================================================
