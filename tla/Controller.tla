----------------------------- MODULE Controller -----------------------------
(***************************************************************************)
(* The controller (src/src/controller.cpp, controller.h): a program        *)
(* strobes 0x4016 and reads the buttons from it one by one, while the user *)
(* presses and releases them.  The buttons are not latched: a read looks   *)
(* at their state as it is then.                                           *)
(***************************************************************************)
EXTENDS Naturals, Sequences

CONSTANT ButtonCount   \* 8: the buttons are numbered in the order they are read

ControllerConstants == ButtonCount \in 1..254   \* the position counts in a byte

VARIABLES
  buttons_state,   \* the buttons that are pressed
  read_state,      \* the next button to read; Strobe while the strobe is up
  report,          \* a history: what was read since the strobe fell, in order
  disturbed        \* a history: a button has changed since then

vars == <<buttons_state, read_state, report, disturbed>>

Buttons == 0..(ButtonCount - 1)
Strobe == 255

Init ==
  /\ buttons_state = {} /\ read_state = 0
  /\ report = <<>> /\ disturbed = FALSE

-----------------------------------------------------------------------------
(* What a read answers: the first button while the strobe is up, each      *)
(* button in turn after it fell, then ones.                                *)
Answer ==
  \/ read_state = Strobe /\ 0 \in buttons_state
  \/ read_state \in Buttons /\ read_state \in buttons_state
  \/ read_state = ButtonCount

(* Each definition named for a slip is a wrong version of one below it:    *)
(* reading goes on past the last button and comes round again.             *)
NextReadWraps == IF read_state = Strobe THEN Strobe ELSE (read_state + 1) % ButtonCount

NextRead == IF read_state \in Buttons THEN read_state + 1 ELSE read_state

on_read ==
  /\ read_state' = NextRead
  /\ report' = IF read_state = Strobe \/ Len(report) > ButtonCount THEN report
               ELSE Append(report, Answer)
  /\ UNCHANGED <<buttons_state, disturbed>>

(* A write to 0x4016 raises or drops the strobe; either starts over.       *)
on_write(strobe) ==
  /\ read_state' = IF strobe THEN Strobe ELSE 0
  /\ report' = <<>> /\ disturbed' = FALSE
  /\ UNCHANGED buttons_state

(* The user, between two updates.                                          *)
press(b) == buttons_state' = buttons_state \union {b}
release(b) == buttons_state' = buttons_state \ {b}

Keys ==
  /\ \E b \in Buttons : press(b) \/ release(b)
  /\ disturbed' = (disturbed \/ buttons_state' # buttons_state)
  /\ UNCHANGED <<read_state, report>>

Next == on_read \/ (\E strobe \in BOOLEAN : on_write(strobe)) \/ Keys

Spec == Init /\ [][Next]_vars

-----------------------------------------------------------------------------
(* After a strobe a program reads each button once, in order, and then     *)
(* ones for ever (controller.cpp 3-28), however often it strobed or read   *)
(* before.  Buttons that change in the middle of a report may tear it.     *)
ReportInOrder ==
  ~disturbed =>
    \A i \in DOMAIN report : report[i] = (i > ButtonCount \/ i - 1 \in buttons_state)
=============================================================================
