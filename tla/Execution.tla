------------------------------ MODULE Execution ------------------------------
(***************************************************************************)
(* The execution of instructions: what opcodes compute, in ALU, and where  *)
(* a program goes, in MCProgram.  They share no state here, so a behaviour *)
(* follows one of them with the other at rest.                             *)
(***************************************************************************)
EXTENDS ALU

CONSTANTS
  Base, kCarry, kIntDisable, kBreak, Code, Inputs,
  NmiVector, ResetVector, IrqVector,   \* Program
  Room                                 \* MCProgram

VARIABLES
  program_counter, old_pc, status, stack_pointer, cell,   \* Program
  bottom, outstanding, opened,                            \* MCProgram
  part                                                    \* the one that is followed

P == INSTANCE MCProgram

ASSUME ProgramAssumption == P!ProgramConstants /\ Room \in 0..Base

program_vars == <<program_counter, old_pc, status, stack_pointer, cell,
                  bottom, outstanding, opened>>

ExecutionInit ==
  /\ Init /\ P!MCProgramInit
  /\ part \in {"ALU", "program"} /\ (part = "program" => mem = 0)

ExecutionNext ==
  /\ UNCHANGED part
  /\ \/ part = "ALU" /\ Next /\ UNCHANGED program_vars
     \/ part = "program" /\ P!MCProgramNext /\ UNCHANGED vars

ExecutionSpec == ExecutionInit /\ [][ExecutionNext]_<<vars, program_vars, part>>

-----------------------------------------------------------------------------
Abstract == INSTANCE Calls WITH
  Bytes <- P!Byte, Addresses <- P!Address, After <- P!Moved, Masked <- P!MaskedStatus,
  Unmarked <- P!UnmarkedStatus, Marked <- P!MarkedStatus, frames <- P!frames

(* Calls, saved bytes and handlers nest (cpu.cpp 469-493 and every opcode  *)
(* that uses them): each gives back what was put aside, wherever in the    *)
(* page the pointer is and however often it wraps, and whatever interrupts *)
(* in between.                                                             *)
CallsImplemented == Abstract!Spec

(* Interrupts are let in only by the code that is running: a handler never *)
(* runs unmasked because of what it interrupted, nor code it returns to    *)
(* because of what the handler did (cpu.cpp 270-292, 691-704 and 944-948). *)
OpenedByProgram == P!Has(status, kIntDisable) \/ opened
=============================================================================
