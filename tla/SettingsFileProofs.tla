------------------------- MODULE SettingsFileProofs -------------------------
(***************************************************************************)
(* Writes of the settings file that are alone and find room on the disk    *)
(* are atomic, for any number of programs, themes and displays.            *)
(*                                                                         *)
(* The invariant follows the one write there is while nothing has gone     *)
(* wrong: what it read is still what is live, its file is settings.tmp,    *)
(* and once closed that file is the live one with one key changed.         *)
(***************************************************************************)
EXTENDS SettingsFile, TLAPS

Shapes ==
  /\ live \in Contents
  /\ tmp \in Contents \cup {None}
  /\ pc \in [Writers -> {"idle", "read", "open", "closed"}]
  /\ key \in [Writers -> Keys]
  /\ value \in [Writers -> Themes \cup Displays \cup {None}]
  /\ \A w \in Writers : pc[w] # "idle" => value[w] \in Values(key[w])
  /\ lines \in [Writers -> Contents]
  /\ fd \in [Writers -> {"tmp", "live", "gone"}]
  /\ accepted \in Contents
  /\ disturbed \in SUBSET Writers
  /\ mishap \in BOOLEAN

Alone ==
  ~mishap =>
    /\ live = accepted
    /\ \A w \in Busy : Busy = {w} /\ lines[w] = live
    /\ \A w \in Writers : pc[w] = "open" => fd[w] = "tmp" /\ tmp = Empty
    /\ \A w \in Writers : pc[w] = "closed" => tmp = Edited(w)

Invariant == Shapes /\ Alone

LEMMA EmptyIsContents == Empty \in Contents
BY DEF Empty, Contents, Keys

LEMMA ContentsEdit ==
  ASSUME NEW c \in Contents, NEW k \in Keys, NEW v \in Values(k)
  PROVE  [c EXCEPT ![k] = v] \in Contents
<1>1. CASE k = "dark"
  BY <1>1 DEF Contents, Values
<1>2. CASE k = "display"
  BY <1>2 DEF Contents, Values
<1> QED
  BY <1>1, <1>2 DEF Keys

(* Lines written into an empty file are the file.                          *)
LEMMA OverEmpty ==
  ASSUME NEW new \in Contents, NEW c \in Over(new, Empty)
  PROVE  c = new
<1>1. c \in Contents /\ \A k \in Keys : c[k] = new[k]
  BY DEF Over, Empty
<1>2. c["dark"] = new["dark"] /\ c["display"] = new["display"]
  BY <1>1 DEF Keys
<1> QED
  BY <1>1, <1>2 DEF Contents

LEMMA InvariantInit == Init => Invariant
<1> SUFFICES ASSUME Init
             PROVE  Invariant
  OBVIOUS
<1>1. Shapes
  BY EmptyIsContents DEF Init, Shapes, Keys
<1>2. Alone
  BY DEF Init, Alone, Busy
<1> QED
  BY <1>1, <1>2 DEF Invariant

LEMMA BeginKeeps ==
  ASSUME Invariant, NEW w \in Writers, NEW k \in Keys, NEW v \in Values(k),
         Begin(w, k, v)
  PROVE  Invariant'
<1> USE DEF Invariant
<1>1. v \in Themes \cup Displays \cup {None}
  BY DEF Values
<1>2. Shapes'
  <2>1. /\ key' \in [Writers -> Keys]
        /\ value' \in [Writers -> Themes \cup Displays \cup {None}]
        /\ \A x \in Writers : pc'[x] # "idle" => value'[x] \in Values(key'[x])
    BY <1>1 DEF Begin, Shapes, Values
  <2>2. disturbed' \in SUBSET Writers /\ mishap' \in BOOLEAN
    BY DEF Begin, Shapes, Busy
  <2> QED
    BY <2>1, <2>2 DEF Begin, Shapes
<1>3. ASSUME ~mishap'
      PROVE  /\ ~mishap
             /\ \A x \in Writers : pc[x] = "idle"
             /\ pc' = [pc EXCEPT ![w] = "read"]
             /\ lines' = [lines EXCEPT ![w] = live]
             /\ UNCHANGED <<live, tmp, fd, accepted>>
  BY <1>3 DEF Begin, Busy, Shapes
<1>4. Alone'
  <2> SUFFICES ASSUME ~mishap'
               PROVE  /\ live' = accepted'
                      /\ \A x \in Busy' : Busy' = {x} /\ lines'[x] = live'
                      /\ \A x \in Writers : pc'[x] \notin {"open", "closed"}
    BY DEF Alone
  <2>1. Busy' = {w} /\ \A x \in Writers : pc'[x] \notin {"open", "closed"}
    BY <1>3 DEF Busy, Shapes
  <2>2. lines'[w] = live' /\ live' = accepted'
    BY <1>3 DEF Shapes, Alone
  <2> QED
    BY <2>1, <2>2
<1> QED
  BY <1>2, <1>4

LEMMA OpenKeeps ==
  ASSUME Invariant, NEW w \in Writers, Open(w)
  PROVE  Invariant'
<1> USE DEF Invariant
<1>1. Shapes'
  BY EmptyIsContents DEF Open, Shapes
<1>2. Busy' = Busy /\ w \in Busy
  BY DEF Open, Busy, Shapes
<1>3. ASSUME ~mishap
      PROVE  \A x \in Writers : x # w => pc[x] = "idle"
  BY <1>2, <1>3 DEF Alone, Busy
<1>4. Alone'
  BY <1>2, <1>3 DEF Open, Alone, Shapes
<1> QED
  BY <1>1, <1>4

LEMMA CloseKeeps ==
  ASSUME Invariant, NEW w \in Writers, Close(w)
  PROVE  Invariant'
<1> USE DEF Invariant
<1>1. Shapes'
  BY DEF Close, Shapes, Over
<1>2. Busy' = Busy /\ w \in Busy
  BY DEF Close, Busy, Shapes
<1>3. Edited(w) \in Contents
  BY ContentsEdit DEF Edited, Close, Shapes
<1>4. ASSUME ~mishap
      PROVE  /\ \A x \in Writers : x # w => pc[x] = "idle"
             /\ tmp' = Edited(w)
             /\ live' = live
  <2>1. fd[w] = "tmp" /\ tmp = Empty
    BY <1>4 DEF Alone, Close
  <2>2. tmp' \in Over(Edited(w), Empty) /\ live' = live
    BY <2>1 DEF Close
  <2>3. \A x \in Writers : x # w => pc[x] = "idle"
    BY <1>2, <1>4 DEF Alone, Busy
  <2> QED
    BY <1>3, <2>2, <2>3, OverEmpty
<1>5. Edited(w)' = Edited(w)
  BY DEF Close, Edited
<1>6. Alone'
  BY <1>2, <1>4, <1>5 DEF Close, Alone, Shapes
<1> QED
  BY <1>1, <1>6

LEMMA CloseFailsKeeps ==
  ASSUME Invariant, NEW w \in Writers, CloseFails(w)
  PROVE  Invariant'
BY DEF CloseFails, Invariant, Shapes, Alone

LEMMA LeaveShapes ==
  ASSUME Shapes, NEW w \in Writers, NEW files \in [Writers -> {"tmp", "live", "gone"}],
         Leave(w, files), mishap' = mishap,
         live' \in Contents, tmp' \in Contents \cup {None}, accepted' \in Contents
  PROVE  /\ Shapes'
         /\ \A x \in Writers : x # w => pc'[x] = pc[x]
         /\ Busy' = Busy \ {w}
<1>1. pc' = [pc EXCEPT ![w] = "idle"] /\ key' = [key EXCEPT ![w] = "dark"]
      /\ value' = [value EXCEPT ![w] = None]
  BY DEF Leave
<1>2. \A x \in Writers : pc'[x] # "idle" => value'[x] \in Values(key'[x])
  BY <1>1 DEF Shapes
<1>3. key' \in [Writers -> Keys]
  BY <1>1 DEF Shapes, Keys
<1> QED
  BY <1>1, <1>2, <1>3, EmptyIsContents DEF Leave, Shapes, Busy

LEMMA RenameKeeps ==
  ASSUME Invariant, NEW w \in Writers, Rename(w)
  PROVE  Invariant'
<1> USE DEF Invariant
<1>1. accepted' \in Contents
  BY ContentsEdit DEF Rename, Shapes
<1>2. Renamed \in [Writers -> {"tmp", "live", "gone"}]
  BY DEF Renamed
<1>3. Shapes' /\ Busy' = Busy \ {w}
  BY <1>1, <1>2, LeaveShapes DEF Rename, Shapes
<1>4. ASSUME ~mishap
      PROVE  live' = accepted' /\ Busy' = {}
  <2>1. w \in Busy
    BY DEF Rename, Busy
  <2>2. tmp = Edited(w) /\ lines[w] = live /\ live = accepted /\ Busy = {w}
    BY <1>4, <2>1 DEF Alone, Rename
  <2> QED
    BY <1>3, <2>2 DEF Rename, Edited
<1>5. Alone'
  BY <1>4 DEF Alone, Rename, Busy
<1> QED
  BY <1>3, <1>5

LEMMA GiveUpKeeps ==
  ASSUME Invariant, NEW w \in Writers, GiveUp(w)
  PROVE  Invariant'
<1> USE DEF Invariant
<1>1. Shapes' /\ Busy' = Busy \ {w}
  BY LeaveShapes DEF GiveUp, Shapes
<1>2. w \in Busy
  BY DEF GiveUp, Busy
<1>3. Alone'
  BY <1>1, <1>2 DEF Alone, GiveUp, Busy
<1> QED
  BY <1>1, <1>3

LEMMA InvariantStep == Invariant /\ [Next]_vars => Invariant'
<1> SUFFICES ASSUME Invariant, [Next]_vars
             PROVE  Invariant'
  OBVIOUS
<1>1. CASE UNCHANGED vars
  BY <1>1 DEF vars, Invariant, Shapes, Alone, Busy, Edited
<1>2. ASSUME NEW w \in Writers, WriterStep(w)
      PROVE  Invariant'
  BY <1>2, BeginKeeps, OpenKeeps, CloseKeeps, CloseFailsKeeps, RenameKeeps,
     GiveUpKeeps DEF WriterStep
<1> QED
  BY <1>1, <1>2 DEF Next

LEMMA InvariantAlways == Spec => []Invariant
BY InvariantInit, InvariantStep, PTL DEF Spec

(* Every variable keeps its shape. *)
THEOREM TypeCorrect == Spec => []TypeOK
<1>1. Invariant => TypeOK
  BY DEF Invariant, Shapes, TypeOK
<1> QED
  BY <1>1, InvariantAlways, PTL

(* What was reported as saved is what readers find, whatever is killed.    *)
THEOREM SavedKept == Spec => []SavedIsKept
<1>1. Invariant => SavedIsKept
  BY DEF Invariant, Alone, SavedIsKept
<1> QED
  BY <1>1, InvariantAlways, PTL

(* A step that is not and does not follow a mishap is a stutter or a Set   *)
(* of AtomicSettings.                                                      *)
LEMMA StepIsAtomic ==
  Invariant /\ ~mishap' /\ [Next]_vars => [Atomic!Next]_live
<1> SUFFICES ASSUME Invariant, ~mishap', [Next]_vars, live' # live
             PROVE  Atomic!Next
  OBVIOUS
<1> USE DEF Invariant
<1>1. PICK w \in Writers : WriterStep(w)
  BY DEF Next, vars
<1>2. CASE Rename(w)
  <2>1. ~mishap /\ w \in Busy
    BY <1>2 DEF Rename, Busy
  <2>2. live' = [live EXCEPT ![key[w]] = value[w]]
    BY <1>2, <2>1 DEF Rename, Alone, Edited
  <2>3. key[w] \in Keys /\ value[w] \in Values(key[w])
    BY <1>2 DEF Rename, Shapes
  <2> QED
    BY <2>2, <2>3 DEF Atomic!Next, Atomic!Set, Atomic!Keys, Atomic!Values, Keys,
                      Values
<1>3. CASE Close(w)
  BY <1>3 DEF Close, Alone
<1> QED
  BY <1>1, <1>2, <1>3 DEF WriterStep, Begin, Open, CloseFails, GiveUp

(* Every step of a program either leaves the file readers see as it is, or *)
(* changes one key of it at once, for as long as nothing went wrong.       *)
THEOREM StepsAreAtomic == Spec => ChangesAreAtomic
<1>1. Invariant /\ [Next]_vars => (~mishap' => [Atomic!Next]_live)
  BY StepIsAtomic
<1>2. [Next]_vars /\ (~mishap' => [Atomic!Next]_live)
        => [~mishap' => [Atomic!Next]_live]_vars
  OBVIOUS
<1> QED
  BY <1>1, <1>2, InvariantAlways, PTL DEF Spec, ChangesAreAtomic

(* The detailed file implements the atomic one as long as no two writes    *)
(* overlap and the disk has room.                                          *)
THEOREM WritesAreAtomic == Spec /\ []~mishap => Atomic!Spec
<1>1. Init => Atomic!Init
  BY DEF Init, Atomic!Init, Empty, Atomic!Empty, Keys, Atomic!Keys
<1> QED
  BY <1>1, StepIsAtomic, InvariantAlways, PTL DEF Spec, Atomic!Spec
----------------------------------------------------------------------------
(* A write that is alone, whatever went wrong before it.                   *)

(* What UndisturbedIsExact needs to be inductive: a write that nothing has *)
(* disturbed is the only one there is, and what Alone says of the one write*)
(* while all goes well holds of it, a settings.tmp left behind or not.     *)
Solo ==
  \A w \in Busy \ disturbed :
    /\ Busy = {w}
    /\ lines[w] = live
    /\ pc[w] = "open" => fd[w] = "tmp" /\ tmp = Empty
    /\ pc[w] = "closed" => tmp = Edited(w)

(* A write that begins beside others disturbs all of them; one that begins *)
(* alone has read what is live.                                            *)
LEMMA BeginKeepsSolo ==
  ASSUME Shapes, Solo, NEW w \in Writers, NEW k \in Keys, NEW v \in Values(k),
         Begin(w, k, v)
  PROVE  Solo'
<1>1. Busy' = Busy \cup {w} /\ pc'[w] = "read"
  BY DEF Begin, Busy, Shapes
<1>2. CASE Busy = {}
  <2>1. Busy' = {w} /\ lines'[w] = live'
    BY <1>1, <1>2 DEF Begin, Shapes
  <2> QED
    BY <1>1, <2>1 DEF Solo
<1>3. CASE Busy # {}
  <2>1. Busy' \ disturbed' = {}
    BY <1>1, <1>3 DEF Begin
  <2> QED
    BY <2>1 DEF Solo
<1> QED
  BY <1>2, <1>3

(* The steps of a write that is alone: its file is empty, then its lines.  *)
LEMMA OpenKeepsSolo ==
  ASSUME Shapes, Solo, NEW w \in Writers, Open(w)
  PROVE  Solo'
<1>1. Busy' = Busy /\ w \in Busy /\ disturbed' = disturbed
  BY DEF Open, Busy, Shapes
<1>2. ASSUME NEW x \in Busy \ disturbed PROVE x = w /\ Busy = {w} /\ lines[w] = live
  BY <1>1, <1>2 DEF Solo
<1>3. pc'[w] = "open" /\ fd'[w] = "tmp" /\ tmp' = Empty /\ UNCHANGED <<live, lines>>
  BY DEF Open, Shapes
<1> QED
  BY <1>1, <1>2, <1>3 DEF Solo

LEMMA CloseKeepsSolo ==
  ASSUME Shapes, Solo, NEW w \in Writers, Close(w)
  PROVE  Solo'
<1>1. Busy' = Busy /\ w \in Busy /\ disturbed' = disturbed
  BY DEF Close, Busy, Shapes
<1>2. ASSUME NEW x \in Busy \ disturbed
      PROVE  /\ x = w /\ Busy = {w} /\ lines[w] = live
             /\ fd[w] = "tmp" /\ tmp = Empty
  BY <1>1, <1>2 DEF Solo, Close
<1>3. Edited(w) \in Contents /\ Edited(w)' = Edited(w)
  BY ContentsEdit DEF Edited, Close, Shapes
<1>4. ASSUME NEW x \in Busy \ disturbed PROVE tmp' = Edited(w) /\ live' = live
  <2>1. tmp' \in Over(Edited(w), Empty) /\ live' = live
    BY <1>2, <1>4 DEF Close
  <2> QED
    BY <1>3, <2>1, OverEmpty
<1>5. pc'[w] = "closed" /\ lines' = lines
  BY DEF Close, Shapes
<1> QED
  BY <1>1, <1>2, <1>3, <1>4, <1>5 DEF Solo

(* A write that runs out of disk is disturbed, and one that ends is none:  *)
(* nobody else was undisturbed beside it.                                  *)
LEMMA EndKeepsSolo ==
  ASSUME Shapes, Solo, NEW w \in Writers, CloseFails(w) \/ Rename(w) \/ GiveUp(w)
  PROVE  Solo'
<1>1. w \in Busy
  BY DEF CloseFails, Rename, GiveUp, Busy
<1>2. \A x \in Busy \ disturbed : x = w
  BY <1>1 DEF Solo
<1>3. CASE CloseFails(w)
  <2>1. Busy' = Busy /\ disturbed' = disturbed \cup {w}
    BY <1>3 DEF CloseFails, Busy, Shapes
  <2> QED
    BY <1>2, <2>1 DEF Solo
<1>4. CASE Rename(w) \/ GiveUp(w)
  <2>1. pc' = [pc EXCEPT ![w] = "idle"] /\ disturbed' = disturbed \ {w}
    BY <1>4 DEF Rename, GiveUp, Leave
  <2>2. Busy' = Busy \ {w}
    BY <2>1 DEF Busy, Shapes
  <2>3. Busy' \ disturbed' = {}
    BY <1>2, <2>1, <2>2
  <2> QED
    BY <2>3 DEF Solo
<1> QED
  BY <1>3, <1>4

LEMMA SoloStep == Invariant /\ Solo /\ [Next]_vars => Solo'
<1> SUFFICES ASSUME Shapes, Solo, [Next]_vars
             PROVE  Solo'
  BY DEF Invariant
<1>1. CASE UNCHANGED vars
  BY <1>1 DEF vars, Solo, Busy, Edited
<1>2. ASSUME NEW w \in Writers, WriterStep(w)
      PROVE  Solo'
  BY <1>2, BeginKeepsSolo, OpenKeepsSolo, CloseKeepsSolo, EndKeepsSolo
     DEF WriterStep
<1> QED
  BY <1>1, <1>2 DEF Next

(* A write that is alone and has room changes its own key and nothing else *)
(* (write_dark, write_display_setting), also after writes that overlapped, *)
(* a full disk, or a program that died and left its settings.tmp.          *)
THEOREM AloneIsExact == Spec => UndisturbedIsExact
<1> DEFINE Exact == \A w \in Writers \ disturbed :
       pc[w] = "closed" /\ accepted' # accepted /\ w \notin Busy'
         => live' = [live EXCEPT ![key[w]] = value[w]]
<1>1. Init => Solo
  BY DEF Init, Solo, Busy
<1>2. Invariant /\ Solo /\ [Next]_vars => [Exact]_vars
  <2> SUFFICES ASSUME Shapes, Solo, [Next]_vars, NEW w \in Writers \ disturbed,
                      pc[w] = "closed", accepted' # accepted, w \notin Busy'
               PROVE  live' = [live EXCEPT ![key[w]] = value[w]]
    BY DEF Invariant
  <2>1. w \in Busy /\ tmp = Edited(w) /\ lines[w] = live
    BY DEF Solo, Busy
  (* Only a rename reports success, and it makes settings.tmp the file.    *)
  <2>2. PICK x \in Writers : Rename(x)
    BY DEF Next, WriterStep, vars, Begin, Open, Close, CloseFails, GiveUp
  <2>3. live' = tmp
    BY <2>2 DEF Rename
  <2> QED
    BY <2>1, <2>3 DEF Edited
<1> QED
  BY <1>1, <1>2, SoloStep, InvariantAlways, PTL DEF Spec, UndisturbedIsExact
=============================================================================
