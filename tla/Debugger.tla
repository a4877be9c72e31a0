------------------------------ MODULE Debugger ------------------------------
(***************************************************************************)
(* The debugger's two modes (src/src/debugger.cpp): the mode the machine   *)
(* is in, and the mode in which it was asked to break.                     *)
(***************************************************************************)

VARIABLES
  mode,            \* mode_
  requested_mode   \* requested_mode_

dbg_vars == <<mode, requested_mode>>

Breaks == {"cpu_fetch", "ppu_line", "ppu_frame"}
Modes == Breaks \cup {"running"}

TypeOK == mode \in Modes /\ requested_mode \in Modes

Init == mode = "running" /\ requested_mode = "running"

is_debugging == mode # "running"

(* The stepping buttons: run until the next fetch, line or frame.          *)
request_break(m) ==
  /\ requested_mode' = m
  /\ mode' = "running"

break_now ==
  /\ mode' = "cpu_fetch"
  /\ UNCHANGED requested_mode

resume ==
  /\ mode' = "running"
  /\ requested_mode' = "running"

(* hit: some breakpoint matches the state of the CPU at the fetch.         *)
on_cpu_fetch(hit) ==
  /\ mode' = IF requested_mode = "cpu_fetch" \/ hit THEN "cpu_fetch" ELSE mode
  /\ UNCHANGED requested_mode

(* A slip: the end of a line is not looked at.                             *)
on_ppu_frame_only(line_ends, frame_ends) ==
  /\ mode' = IF requested_mode = "ppu_frame" /\ frame_ends THEN requested_mode ELSE mode
  /\ UNCHANGED requested_mode

(* on_ppu_line, then on_ppu_frame when the line was the last of its frame. *)
on_ppu(line_ends, frame_ends) ==
  /\ mode' = IF \/ requested_mode = "ppu_line" /\ line_ends
                \/ requested_mode = "ppu_frame" /\ frame_ends
             THEN requested_mode ELSE mode
  /\ UNCHANGED requested_mode
=============================================================================
