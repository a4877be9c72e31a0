----------------------------- MODULE MCProgram ------------------------------
(***************************************************************************)
(* A program that is interrupted at any instruction, with what it has put  *)
(* on the stack remembered beside the stack.                               *)
(***************************************************************************)
EXTENDS Program, Sequences

CONSTANT Room   \* the bytes a program has on the stack at a time; a bound

VARIABLES
  bottom,        \* the stack pointer when nothing was on the stack
  outstanding,   \* what is on the stack, the last thing first
  opened         \* whether the running code let interrupts in

mc_vars == <<vars, bottom, outstanding, opened>>

MCProgramInit == Init /\ bottom = stack_pointer /\ outstanding = <<>> /\ opened = FALSE

Kinds == {"call", "handler", "byte"}
Width(kind) == CASE kind = "call" -> 2 [] kind = "handler" -> 3 [] kind = "byte" -> 1

(* A thing on the stack knows the bytes used up to and with it; a handler  *)
(* also whether the code it interrupts had let interrupts in.              *)
Things == [kind : Kinds, depth : 0..Room, opened : BOOLEAN]

Used == IF outstanding = <<>> THEN 0 ELSE Head(outstanding).depth

Puts(kind, o) ==
  LET depth == Used + Width(kind)
  IN  /\ depth <= Room
      /\ outstanding' = <<[kind |-> kind, depth |-> depth, opened |-> o]>> \o outstanding
      /\ UNCHANGED bottom

(* The discipline of a program: what it takes off is what it put on.       *)
Takes(kind) ==
  /\ outstanding # <<>> /\ Head(outstanding).kind = kind
  /\ outstanding' = Tail(outstanding)
  /\ UNCHANGED bottom

Forgets == outstanding' = <<>> /\ bottom' = stack_pointer'

Interrupted == (nmi_ \/ irq_) /\ Puts("handler", opened) /\ opened' = FALSE
Broke == brk_ /\ Puts("handler", opened) /\ opened' = FALSE
Left == rti_ /\ Takes("handler") /\ opened' = Head(outstanding).opened

Called == jsr_ /\ Puts("call", FALSE) /\ UNCHANGED opened
Returned == rts_ /\ Takes("call") /\ UNCHANGED opened

PutByte == (pha_ \/ php_) /\ Puts("byte", FALSE) /\ UNCHANGED opened
TookByte == pla_ /\ Takes("byte") /\ UNCHANGED opened
TookStatus == plp_ /\ Takes("byte") /\ opened' = ~Has(status', kIntDisable)

BeganAnew == txs_ /\ Forgets /\ UNCHANGED opened
Restarted == reset /\ Forgets /\ opened' = FALSE

WentOn ==
  /\ UNCHANGED <<bottom, outstanding>>
  /\ \/ (throw \/ jmp_ \/ bcs_ \/ sec_ \/ clc_ \/ next) /\ UNCHANGED opened
     \/ cli_ /\ opened' = TRUE
     \/ sei_ /\ opened' = FALSE

MCProgramNext ==
  \/ Interrupted \/ Broke \/ Left \/ Called \/ Returned
  \/ PutByte \/ TookByte \/ TookStatus \/ BeganAnew \/ Restarted \/ WentOn

MCProgramSpec == MCProgramInit /\ [][MCProgramNext]_mc_vars

-----------------------------------------------------------------------------
(* The frames as the stack page has them.                                  *)

PointerAt(depth) == IF depth <= bottom THEN bottom - depth ELSE bottom - depth + Base

Frame(kind, page, sp) ==
  CASE kind = "call" ->
         [kind |-> "call", to |-> Moved(AddressLoaded(page, sp), 1)]
    [] kind = "handler" ->
         [kind |-> "handler", to |-> AddressLoaded(page, AfterByteLoaded(sp)),
          status |-> ByteLoaded(page, sp)]
    [] kind = "byte" -> [kind |-> "byte", byte |-> ByteLoaded(page, sp)]

frames ==
  [i \in 1..Len(outstanding) |->
     Frame(outstanding[i].kind, cell, PointerAt(outstanding[i].depth))]

(* The abstract specification's view of a status.                          *)
MaskedStatus(s) == With(s, kIntDisable)
UnmarkedStatus(s) == Without(s, kBreak)
MarkedStatus(s) == With(s, kBreak)
=============================================================================
