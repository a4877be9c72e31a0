----------------------------- MODULE MCExecution ----------------------------
(***************************************************************************)
(* The program that Execution runs, and the sums the cost of an address is *)
(* checked with.                                                           *)
(***************************************************************************)
EXTENDS Execution, MCALU

Instruction(o, a) == [op |-> o, arg |-> a]

(* A program with a subroutine that saves, a branch that is taken once the *)
(* carry is set, a BRK and an opcode that is unknown; an NMI handler with  *)
(* a call of its own, and an IRQ handler that lets interrupts in.          *)
MCCode ==
  7 :> Instruction("txs", 0) @@ 8 :> Instruction("cli", 0)
  @@ 9 :> Instruction("jsr", 26) @@ 12 :> Instruction("bcs", 3)
  @@ 14 :> Instruction("sec", 0) @@ 15 :> Instruction("jmp", 9)
  @@ 17 :> Instruction("brk", 0) @@ 19 :> Instruction("php", 0)
  @@ 20 :> Instruction("sei", 0) @@ 21 :> Instruction("plp", 0)
  @@ 22 :> Instruction("clc", 0)
  @@ 26 :> Instruction("pha", 0) @@ 27 :> Instruction("next", 0)
  @@ 28 :> Instruction("pla", 0) @@ 29 :> Instruction("rts", 0)
  @@ 32 :> Instruction("jsr", 26) @@ 35 :> Instruction("rti", 0)
  @@ 48 :> Instruction("pha", 0) @@ 49 :> Instruction("cli", 0)
  @@ 50 :> Instruction("pla", 0) @@ 51 :> Instruction("rti", 0)

A == INSTANCE Addressing

(* The theorems of Bus_proofs on addressing modes, and the address *)
(* paid for is the one accessed.                                           *)
ASSUME AddressingSound ==
  /\ \A addr \in A!Address, index \in A!Byte : A!StaysInPage(addr, index) /\ A!PaysForCarry(addr, index)
  /\ \A addr \in A!Address, x, y \in A!Byte, timing \in 4..5 :
       LET memory == [a \in A!Address |-> (3 * a + 1) % Base]
           To(mode) == A!to_absolute_addr(mode, addr, x, y, memory)
       IN  \A mode \in A!Modes :
             /\ To(mode) \in A!Address
             /\ A!idle_ticks_from_addressing_(mode, timing, addr, x, y, memory) = 1 =>
                  mode \in {"kAbsoluteX", "kAbsoluteY", "kIndirectY"}
                  /\ A!Low(To(mode)) < IF mode = "kAbsoluteX" THEN x ELSE y
  /\ \A pc \in A!Address, d \in -4..3 :
       A!idle_ticks_from_branching_(TRUE, pc, d) = 2 <=>
         (A!Low(A!Moved(pc, 2)) + d) \notin A!Byte
=============================================================================
