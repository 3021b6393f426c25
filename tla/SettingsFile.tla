---------------------------- MODULE SettingsFile ----------------------------
(***************************************************************************)
(* $HOME/.config/finn/settings and the programs that write it.             *)
(*                                                                         *)
(* write_dark and write_display_setting (apps/settings) and                *)
(* write_dark_setting (src/shell) are the same steps in independent        *)
(* processes: read every line, truncate settings.tmp, write the lines with *)
(* one of them changed, rename settings.tmp over settings.  Nothing locks. *)
(* The stream is buffered: the lines reach the file when it is closed,     *)
(* after the last look at its state.                                       *)
(*                                                                         *)
(* A file is the value of each key or None; lines the programs do not know *)
(* are kept like any other key.                                            *)
(***************************************************************************)
EXTENDS Naturals

CONSTANTS
  Writers,      \* the processes that write: the shell and Settings windows
  Themes,
  Displays,
  None

ASSUME NoneAssumption == None \notin Themes \cup Displays

Keys == {"dark", "display"}
Values(k) == IF k = "dark" THEN Themes ELSE Displays
Contents == [dark : Themes \cup {None}, display : Displays \cup {None}]
Empty == [k \in Keys |-> None]

VARIABLES
  live,         \* the contents of settings (Empty: no such file)
  tmp,          \* the contents of settings.tmp, or None
  pc,           \* pc[w]: how far the write of w got
  key,          \* key[w]: what w is setting,
  value,        \* value[w]: and to which value
  lines,        \* lines[w]: what w read
  fd,           \* fd[w]: the file w writes to is named "tmp", "live" or "gone"
  accepted,     \* history: the file that the reported successes add up to
  disturbed,    \* history: the writes that were not alone, or ran out of disk
  mishap        \* history: there was such a write

vars == <<live, tmp, pc, key, value, lines, fd, accepted, disturbed, mishap>>

Busy == {w \in Writers : pc[w] # "idle"}

(* The lines of w with its change, at the first line of that key or last.  *)
Edited(w) == [lines[w] EXCEPT ![key[w]] = value[w]]

(* Bytes written over a longer file leave its tail: keys that are not in   *)
(* the new lines may survive.                                              *)
Over(new, old) ==
  {c \in Contents : \A k \in Keys :
     IF new[k] # None THEN c[k] = new[k] ELSE c[k] \in {None, old[k]}}

(* Where the open files are once settings.tmp was renamed.                 *)
Renamed == [x \in Writers |-> IF fd[x] = "tmp" THEN "live" ELSE "gone"]

(* The function returns; its locals go.                                    *)
Leave(w, files) ==
  /\ pc' = [pc EXCEPT ![w] = "idle"]
  /\ lines' = [lines EXCEPT ![w] = Empty]
  /\ fd' = [files EXCEPT ![w] = "gone"]
  /\ key' = [key EXCEPT ![w] = "dark"]
  /\ value' = [value EXCEPT ![w] = None]
  /\ disturbed' = disturbed \ {w}

----------------------------------------------------------------------------
(* A toggle or a resolution is clicked: the lines there are are read.      *)
Begin(w, k, v) ==
  /\ pc[w] = "idle"
  /\ pc' = [pc EXCEPT ![w] = "read"]
  /\ key' = [key EXCEPT ![w] = k]
  /\ value' = [value EXCEPT ![w] = v]
  /\ lines' = [lines EXCEPT ![w] = live]
  /\ disturbed' = IF Busy = {} THEN disturbed ELSE Busy \cup {w}
  /\ mishap' = (mishap \/ Busy # {})
  /\ UNCHANGED <<live, tmp, fd, accepted>>

OpenInPlace(w) ==                   \* mutant: settings itself is truncated
  /\ pc[w] = "read"
  /\ pc' = [pc EXCEPT ![w] = "open"]
  /\ fd' = [fd EXCEPT ![w] = "live"]
  /\ live' = Empty
  /\ UNCHANGED <<tmp, key, value, lines, accepted, disturbed, mishap>>

OpenAppending(w) ==                 \* mutant: std::ios::trunc is dropped
  /\ pc[w] = "read"
  /\ pc' = [pc EXCEPT ![w] = "open"]
  /\ fd' = [fd EXCEPT ![w] = "tmp"]
  /\ tmp' = IF tmp = None THEN Empty ELSE tmp
  /\ UNCHANGED <<live, key, value, lines, accepted, disturbed, mishap>>

(* The ofstream with std::ios::trunc: a file that another writer has open  *)
(* under that name, or left there when it died, is emptied.                *)
Open(w) ==
  /\ pc[w] = "read"
  /\ pc' = [pc EXCEPT ![w] = "open"]
  /\ fd' = [fd EXCEPT ![w] = "tmp"]
  /\ tmp' = Empty
  /\ UNCHANGED <<live, key, value, lines, accepted, disturbed, mishap>>

(* The stream closes and its one buffer is written, wherever the file is   *)
(* by now.                                                                 *)
Close(w) ==
  /\ pc[w] = "open"
  /\ pc' = [pc EXCEPT ![w] = "closed"]
  /\ fd' = [fd EXCEPT ![w] = "gone"]
  /\ \/ fd[w] = "tmp" /\ tmp' \in Over(Edited(w), tmp) /\ UNCHANGED live
     \/ fd[w] = "live" /\ live' \in Over(Edited(w), live) /\ UNCHANGED tmp
     \/ fd[w] = "gone" /\ UNCHANGED <<live, tmp>>
  /\ UNCHANGED <<key, value, lines, accepted, disturbed, mishap>>

(* The same on a full disk: it is the destructor of the stream that fails, *)
(* after `if (!out)`, and nobody sees it.                                  *)
CloseFails(w) ==
  /\ pc[w] = "open"
  /\ pc' = [pc EXCEPT ![w] = "closed"]
  /\ fd' = [fd EXCEPT ![w] = "gone"]
  /\ disturbed' = disturbed \cup {w}
  /\ mishap' = TRUE
  /\ UNCHANGED <<live, tmp, key, value, lines, accepted>>

RenameMissing(w) ==                 \* mutant: no look at the result of rename
  /\ pc[w] = "closed"
  /\ live' = tmp
  /\ tmp' = None
  /\ accepted' = [accepted EXCEPT ![key[w]] = value[w]]
  /\ Leave(w, Renamed)
  /\ UNCHANGED mishap

(* std::filesystem::rename, and the write reports success.                 *)
Rename(w) ==
  /\ pc[w] = "closed"
  /\ tmp # None
  /\ live' = tmp
  /\ tmp' = None
  /\ accepted' = [accepted EXCEPT ![key[w]] = value[w]]
  /\ Leave(w, Renamed)
  /\ UNCHANGED mishap

(* A write that reports failure (create_directories, the open, the rename  *)
(* of a file that another writer renamed), or whose program is killed.     *)
GiveUp(w) ==
  /\ pc[w] # "idle"
  /\ Leave(w, fd)
  /\ UNCHANGED <<live, tmp, accepted, mishap>>

----------------------------------------------------------------------------
Init ==
  /\ live = Empty
  /\ tmp = None
  /\ pc = [w \in Writers |-> "idle"]
  /\ key = [w \in Writers |-> "dark"]
  /\ value = [w \in Writers |-> None]
  /\ lines = [w \in Writers |-> Empty]
  /\ fd = [w \in Writers |-> "gone"]
  /\ accepted = Empty
  /\ disturbed = {}
  /\ mishap = FALSE

WriterStep(w) ==
  \/ \E k \in Keys : \E v \in Values(k) : Begin(w, k, v)
  \/ Open(w)
  \/ Close(w)
  \/ CloseFails(w)
  \/ Rename(w)
  \/ GiveUp(w)

Next == \E w \in Writers : WriterStep(w)

Spec == Init /\ [][Next]_vars

----------------------------------------------------------------------------
(* Every variable keeps its shape.                                         *)
TypeOK ==
  /\ live \in Contents
  /\ tmp \in Contents \cup {None}
  /\ pc \in [Writers -> {"idle", "read", "open", "closed"}]
  /\ key \in [Writers -> Keys]
  /\ value \in [Writers -> Themes \cup Displays \cup {None}]
  /\ lines \in [Writers -> Contents]
  /\ fd \in [Writers -> {"tmp", "live", "gone"}]
  /\ accepted \in Contents
  /\ disturbed \subseteq Writers
  /\ mishap \in BOOLEAN

(* At every instant a reader may look, and whatever is killed in the       *)
(* middle of a write, the file holds exactly what the programs reported as *)
(* saved: a change of one key never loses the other, a write that was not  *)
(* reported left no trace, and there is never half a file.  The exceptions *)
(* are two writes at a time and a full disk, and only these.               *)
SavedIsKept == ~mishap => live = accepted

(* Whatever went wrong before (a settings.tmp left behind, a file that     *)
(* lost its lines), a write that is alone and has room changes its own key *)
(* and nothing else.                                                       *)
UndisturbedIsExact ==
  [][\A w \in Writers \ disturbed :
       pc[w] = "closed" /\ accepted' # accepted /\ w \notin Busy'
         => live' = [live EXCEPT ![key[w]] = value[w]]]_vars

(* What readers are promised: without two writes at a time or a full disk, *)
(* every step any of the programs takes leaves the file alone or changes   *)
(* one key of it at once (AtomicSettings).                                 *)
Atomic == INSTANCE AtomicSettings
ChangesAreAtomic == [][~mishap' => [Atomic!Next]_live]_vars

(* apps/settings/main.cpp:311: unless the write failed the user is told    *)
(* that "apps and the shell pick this up on their next frame".             *)
ReportedIsSaved == live = accepted
=============================================================================
