---------------------------- MODULE KeyboardPolicy ----------------------------
(***************************************************************************)
(* Who has the keyboard, as the programs on the desktop and the user see   *)
(* it: at most one window or panel at a time, and only one that exists.    *)
(* A window takes it, and is remembered; a panel only borrows it, and when *)
(* it is done, or dies, it goes to the window that had it last.  Nothing   *)
(* else moves it.  Windows and panels come and go as they please.          *)
(* WindowManager implements this.                                          *)
(***************************************************************************)
CONSTANTS
  Windows, Panels,                 \* all there may ever be
  None                             \* nobody

VARIABLES
  windows, panels,                 \* those that exist
  owner,                           \* who has the keyboard
  last                             \* the window that took it last

Take(w) ==
  /\ owner' = w
  /\ last' = w
  /\ w \in windows

(* A window that is no longer shown lets go, but is remembered.            *)
LetGo ==
  /\ owner' = None
  /\ owner \in windows
  /\ UNCHANGED last

(* A window that closes is forgotten; nobody gets what it had.             *)
Forget(w) ==
  /\ owner' = IF owner = w THEN None ELSE owner
  /\ last' = IF last = w THEN None ELSE last
  /\ w \notin windows'

Borrow(p) ==
  /\ owner' = p
  /\ p \in panels
  /\ UNCHANGED last

GiveBack ==
  /\ owner' = last
  /\ owner \in panels
  /\ UNCHANGED last

Exists == owner \in windows \cup panels \cup {None}

Init ==
  /\ owner = None
  /\ last = None

Next ==
  \/ \E w \in Windows : Take(w) \/ Forget(w)
  \/ \E p \in Panels : Borrow(p)
  \/ LetGo
  \/ GiveBack

Spec == Init /\ [][Next]_<<owner, last>> /\ []Exists
===============================================================================
