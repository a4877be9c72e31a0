----------------------------- MODULE RecentFiles ----------------------------
(***************************************************************************)
(* The list of recent files (src/src/ui/global.cpp) and the settings file  *)
(* it is kept in: read when the program starts, written when it ends       *)
(* cleanly (exe/main.cpp 14 and 37), through the serializer.  The file is  *)
(* what a reader makes of it: absent, empty, torn or a list.               *)
(***************************************************************************)
EXTENDS SequencesExt

CONSTANTS
  Files,            \* the paths of ROMs
  recent_file_max   \* 5 in the code

RecentConstants == recent_file_max \in Nat \ {0}

VARIABLES
  running,        \* "running", "saving" (the settings file is open), "stopped"
  recent_files,   \* recent_files_, the menu's order
  settings,       \* data/settings.cfg
  opened,         \* a history: the ROMs loaded, each once, the last one first, as far
                  \*   back as the settings could be read
  remembered      \* a history: opened as it was when settings was last whole

vars == <<running, recent_files, settings, opened, remembered>>

Lists == UNION {{l \in [1..n -> Files] : IsInjective(l)} : n \in 0..(recent_file_max + 1)}
Unreadable(state) == [state |-> state, list |-> <<>>]
Whole(list) == [state |-> "whole", list |-> list]

FirstOf(list) == SubSeq(list, 1, IF Len(list) < recent_file_max THEN Len(list) ELSE recent_file_max)

(* A settings file of an earlier run may be there, and be longer than the  *)
(* list may be.                                                            *)
Init ==
  /\ running = "stopped" /\ recent_files = <<>> /\ opened = <<>>
  /\ \E list \in Lists : settings \in {Unreadable("absent"), Whole(list)}
  /\ remembered = settings.list

-----------------------------------------------------------------------------
(* push_recent_file                                                        *)

Listed(path) == Contains(recent_files, path)

PlaceOf(list, path) == CHOOSE i \in DOMAIN list : list[i] = path

(* The entry at a place becomes the first, and those before it move down.  *)
MovedToFront(list, place) ==
  [i \in DOMAIN list |-> IF i > place THEN list[i] ELSE list[IF i = 1 THEN place ELSE i - 1]]

(* A slip: the first of a full list is overwritten and not the last.       *)
RotatedNothing(path) == [recent_files EXCEPT ![1] = path]

(* The last entry of a full list is moved to the front and overwritten.    *)
RotatedFull(path) == [MovedToFront(recent_files, recent_file_max) EXCEPT ![1] = path]

Pushed(path) ==
  CASE Listed(path) -> MovedToFront(recent_files, PlaceOf(recent_files, path))
    [] ~Listed(path) /\ Len(recent_files) >= recent_file_max -> RotatedFull(path)
    [] ~Listed(path) /\ Len(recent_files) < recent_file_max -> <<path>> \o recent_files

(* What was loaded other than the path.                                    *)
Others(path) == IF Contains(opened, path) THEN RemoveAt(opened, PlaceOf(opened, path)) ELSE opened

(* read_rom comes to its end.                                              *)
push_recent_file(path) ==
  /\ running = "running"
  /\ recent_files' = Pushed(path)
  /\ opened' = <<path>> \o Others(path)
  /\ UNCHANGED <<running, settings, remembered>>

-----------------------------------------------------------------------------
(* The settings file                                                       *)

(* open_read of a file that opens, and of none: nothing to read, a list,   *)
(* or a text that does not parse, which throws out of main.                *)
open_read ==
  /\ running' = IF settings.state = "torn" THEN "stopped" ELSE "running"
  /\ recent_files' = FirstOf(settings.list)
  /\ opened' = FirstOf(remembered)

(* open_read of a file that does not open, whatever is in it: the program  *)
(* starts with no list, and has forgotten the ROMs of the file.            *)
open_fails ==
  /\ running' = "running"
  /\ recent_files' = <<>> /\ opened' = <<>>

(* Globals::Globals.                                                       *)
initialize ==
  /\ running = "stopped"
  /\ open_read \/ open_fails
  /\ UNCHANGED <<settings, remembered>>

(* save_settings: write_file empties the file, or cannot open it.          *)
close ==
  /\ running = "running"
  /\ \/ running' = "saving" /\ settings' = Unreadable("empty") /\ remembered' = <<>>
     \/ running' = "stopped" /\ UNCHANGED <<settings, remembered>>
  /\ UNCHANGED <<recent_files, opened>>

write_file ==
  /\ running = "saving"
  /\ running' = "stopped"
  /\ settings' = Whole(recent_files) /\ remembered' = opened
  /\ UNCHANGED <<recent_files, opened>>

(* The program is killed, or ended by a ROM of the list that cannot be     *)
(* read: nothing is saved, and a file that is open may be torn.            *)
killed ==
  /\ running \in {"running", "saving"}
  /\ running' = "stopped"
  /\ settings' \in {settings} \union (IF running = "saving" THEN {Unreadable("torn")} ELSE {})
  /\ UNCHANGED <<recent_files, opened, remembered>>

(* The user removes the file; a torn one lets the program start no more.   *)
removed ==
  /\ running = "stopped"
  /\ settings' = Unreadable("absent") /\ remembered' = <<>>
  /\ UNCHANGED <<running, recent_files, opened>>

Next ==
  \/ \E path \in Files : push_recent_file(path)
  \/ initialize \/ close \/ write_file \/ killed \/ removed

Spec == Init /\ [][Next]_vars

-----------------------------------------------------------------------------
(* The menu shows the ROMs last loaded, each once and the last one first,  *)
(* over every end of the program (global.cpp 16-22 and 86-122).  Those     *)
(* loaded since a save that was not completed are forgotten, and those of  *)
(* a settings file that does not open when the program starts; no list is  *)
(* half read or mixed of two files.                                        *)
RecentFirst == running = "running" => recent_files = FirstOf(opened)
=============================================================================
