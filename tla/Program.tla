------------------------------ MODULE Program -------------------------------
(***************************************************************************)
(* Where a program goes (src/src/cpu.cpp 73-139, 216-292 and the opcodes   *)
(* that move the program counter or the stack): one step is the fetch and  *)
(* the execution of an instruction, or the entry of a handler.  The cycles *)
(* of a step are in CPU, what opcodes compute is in ALU.                   *)
(*                                                                         *)
(* Registers can hold any of Inputs.  The carry stands for the four flags  *)
(* a branch can test.  Stores outside the stack are left out: the program  *)
(* is in ROM and leaves the stack page alone.                              *)
(***************************************************************************)
EXTENDS Stack

CONSTANTS
  kCarry, kIntDisable, kBreak,   \* bits of the status, powers of two
  Code,        \* the instructions the program has, by their address
  Inputs,      \* the bytes registers hold
  NmiVector, ResetVector, IrqVector

(* Bytes an instruction takes; "next" is any instruction that only goes on *)
(* to the next one.                                                        *)
Size(op) ==
  CASE op \in {"jsr", "jmp"} -> 3
    [] op \in {"brk", "bcs"} -> 2
    [] OTHER -> 1

Flow == {"jsr", "jmp", "bcs", "brk", "rts", "rti", "pha", "php", "pla", "plp",
         "txs", "sei", "cli", "sec", "clc", "next"}

(* Each flag is one bit of a byte, each higher than the one before.        *)
FlagConstants ==
  /\ \A flag \in {kCarry, kIntDisable, kBreak} :
       flag \in Nat /\ flag > 0 /\ Base % (2 * flag) = 0
  /\ kIntDisable % (2 * kCarry) = 0 /\ kBreak % (2 * kIntDisable) = 0

ProgramConstants ==
  /\ StackConstants
  /\ FlagConstants
  /\ \A a \in DOMAIN Code :
       /\ a \in Address /\ Code[a].op \in Flow
       /\ Code[a].arg \in -(Base \div 2)..(Base * Base - 1)
       /\ Code[a].op \in {"jsr", "jmp"} => Code[a].arg \in Address
  /\ Inputs \subseteq Byte
  /\ {NmiVector, ResetVector, IrqVector} \subseteq Address

VARIABLES
  program_counter,  \* program_counter_
  old_pc,           \* old_pc_, the instruction last executed
  status,           \* status_
  stack_pointer,    \* stack_pointer_
  cell              \* the stack page and the place after it

vars == <<program_counter, old_pc, status, stack_pointer, cell>>

TypeOK ==
  /\ program_counter \in Address /\ old_pc \in Address
  /\ status \in Byte /\ stack_pointer \in Byte /\ cell \in Cells

(* get_status_ and set_status_.                                            *)
Has(byte, flag) == byte % (2 * flag) >= flag
With(byte, flag) == IF Has(byte, flag) THEN byte ELSE byte + flag
Without(byte, flag) == IF Has(byte, flag) THEN byte - flag ELSE byte

(* CPU::reset; RAM is zero at first and keeps its bytes afterwards.        *)
Registers(pc, old, s, sp) ==
  program_counter' = pc /\ old_pc' = old /\ status' = s /\ stack_pointer' = sp

Init ==
  /\ program_counter = ResetVector /\ old_pc = 0
  /\ status = kIntDisable /\ stack_pointer = Base - 3
  /\ cell = [at \in 0..Base |-> 0]

reset == Registers(ResetVector, 0, kIntDisable, Base - 3) /\ UNCHANGED cell

-----------------------------------------------------------------------------
(* Handlers                                                                *)

(* Slips: the handler runs unmasked; the status goes on the stack before   *)
(* it is masked.                                                           *)
OnlyUnmarked(byte) == Without(byte, kBreak)
StatusBefore(byte) == byte

InHandler(byte) == With(Without(byte, kBreak), kIntDisable)
PutAside(byte) == InHandler(byte)

Enter(vector) ==
  LET after == AfterAddressStored(stack_pointer)
  IN  /\ cell' = ByteStored(AddressStored(cell, stack_pointer, program_counter),
                            after, PutAside(status))
      /\ Registers(vector, old_pc, InHandler(status), AfterByteStored(after))

nmi_ == Enter(NmiVector)
irq_ == ~Has(status, kIntDisable) /\ Enter(IrqVector)

-----------------------------------------------------------------------------
(* Instructions                                                            *)

Known(at) == at \in DOMAIN Code

(* step_fetch_ of an opcode the table does not have: back to the           *)
(* instruction last executed, whose effects stand.                         *)
throw ==
  /\ ~Known(program_counter)
  /\ program_counter' = old_pc
  /\ UNCHANGED <<old_pc, status, stack_pointer, cell>>

op == Code[program_counter].op
arg == Code[program_counter].arg
Following == Moved(program_counter, Size(op))

At(o) == Known(program_counter) /\ op = o

(* step_execute_: old_pc_ is the instruction's, and the counter is past it *)
(* before it executes.                                                     *)
Then(pc, s, sp) == Registers(pc, program_counter, s, sp)

jmp_ == At("jmp") /\ Then(arg, status, stack_pointer) /\ UNCHANGED cell

bcs_ ==
  /\ At("bcs") /\ UNCHANGED cell
  /\ Then(IF Has(status, kCarry) THEN Moved(Following, arg) ELSE Following, status, stack_pointer)

jsr_ ==
  /\ At("jsr")
  /\ cell' = AddressStored(cell, stack_pointer, Moved(Following, -1))
  /\ Then(arg, status, AfterAddressStored(stack_pointer))

rts_ ==
  /\ At("rts") /\ UNCHANGED cell
  /\ Then(Moved(AddressLoaded(cell, stack_pointer), 1), status,
          AfterAddressLoaded(stack_pointer))

brk_ ==
  LET after == AfterAddressStored(stack_pointer)
      marked == With(status, kBreak)
  IN  /\ At("brk")
      /\ cell' = ByteStored(AddressStored(cell, stack_pointer, Following), after, marked)
      /\ Then(IrqVector, With(marked, kIntDisable), AfterByteStored(after))

rti_ ==
  LET after == AfterByteLoaded(stack_pointer)
  IN  /\ At("rti") /\ UNCHANGED cell
      /\ Then(AddressLoaded(cell, after), ByteLoaded(cell, stack_pointer),
              AfterAddressLoaded(after))

Push(byte) ==
  /\ cell' = ByteStored(cell, stack_pointer, byte)
  /\ Then(Following, status, AfterByteStored(stack_pointer))
Pull(s) == UNCHANGED cell /\ Then(Following, s, AfterByteLoaded(stack_pointer))

pha_ == At("pha") /\ \E a \in Inputs : Push(a)
php_ == At("php") /\ Push(With(status, kBreak))
pla_ == At("pla") /\ Pull(status)
plp_ == At("plp") /\ Pull(ByteLoaded(cell, stack_pointer))

txs_ ==
  /\ At("txs") /\ UNCHANGED cell
  /\ \E x \in Inputs : Then(Following, status, x)

Flags(s) == Then(Following, s, stack_pointer) /\ UNCHANGED cell
sei_ == At("sei") /\ Flags(With(status, kIntDisable))
cli_ == At("cli") /\ Flags(Without(status, kIntDisable))
sec_ == At("sec") /\ Flags(With(status, kCarry))
clc_ == At("clc") /\ Flags(Without(status, kCarry))
next == At("next") /\ Flags(status)
=============================================================================
