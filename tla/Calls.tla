-------------------------------- MODULE Calls -------------------------------
(***************************************************************************)
(* What a program counts on when it calls, saves and is interrupted: it is *)
(* given back what it put aside, last first, and goes on where it left.    *)
(* There is no stack page and no pointer here: a frame is one thing.       *)
(***************************************************************************)
EXTENDS Integers, Sequences

CONSTANTS
  Bytes, Addresses,
  After(_, _),              \* the address so many bytes after another
  Masked(_), Unmarked(_),   \* a status with interrupts masked, without the break flag
  Marked(_)                 \* with the break flag

VARIABLES
  program_counter,
  status,
  frames      \* what has been put aside, the last thing first

vars == <<program_counter, status, frames>>

Call(to) == [kind |-> "call", to |-> to]
Handler(to, s) == [kind |-> "handler", to |-> to, status |-> s]
Saved(b) == [kind |-> "byte", byte |-> b]

Init == program_counter \in Addresses /\ status \in Bytes /\ frames = <<>>

PutAside(frame) == frames' = <<frame>> \o frames
TakeBack == frames' = Tail(frames)
Top(kind) == frames # <<>> /\ Head(frames).kind = kind

(* Jumps, branches and flags; also the unknown opcode, which goes back to  *)
(* an instruction executed before.                                         *)
Go == program_counter' \in Addresses /\ status' \in Bytes /\ UNCHANGED frames

(* An interrupt gives back the status as it had masked it, a BRK as it was.*)
Enter ==
  /\ status' = Masked(Unmarked(status))
  /\ PutAside(Handler(program_counter, status'))
  /\ program_counter' \in Addresses

Break ==
  /\ status' = Masked(Marked(status))
  /\ PutAside(Handler(After(program_counter, 2), Marked(status)))
  /\ program_counter' \in Addresses

Leave ==
  /\ Top("handler")
  /\ program_counter' = Head(frames).to /\ status' = Head(frames).status
  /\ TakeBack

CallSubroutine ==
  /\ PutAside(Call(After(program_counter, 3)))
  /\ program_counter' \in Addresses /\ UNCHANGED status

Return ==
  /\ Top("call")
  /\ program_counter' = Head(frames).to /\ UNCHANGED status
  /\ TakeBack

Save ==
  /\ \E b \in Bytes : PutAside(Saved(b))
  /\ program_counter' = After(program_counter, 1) /\ UNCHANGED status

Restore ==
  /\ Top("byte") /\ TakeBack
  /\ program_counter' = After(program_counter, 1)
  /\ status' \in {status, Head(frames).byte}

(* A reset, and a program that begins its stack anew.                      *)
Forget == frames' = <<>> /\ program_counter' \in Addresses /\ status' \in Bytes

Next ==
  \/ Go \/ Enter \/ Break \/ Leave \/ CallSubroutine \/ Return
  \/ Save \/ Restore \/ Forget

Spec == Init /\ [][Next]_vars
=============================================================================
