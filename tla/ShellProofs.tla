------------------------------ MODULE ShellProofs ------------------------------
(***************************************************************************)
(* Shell, for any places on the screen and any length of the animations:   *)
(* types, that it settles on what is open, and that a click toggles.       *)
(***************************************************************************)
EXTENDS Shell, FiniteSetTheorems, TLAPS

(* An animation goes where its panel is wanted, and ends there.            *)
Following ==
  \A p \in Panels :
    /\ anim[p].target = (IF p \in open THEN Full ELSE Gone)
    /\ ~Running(anim[p]) => anim[p].value = anim[p].target

(* At most one panel is open.                                              *)
OneOpen == \A p, q \in open : p = q

(* What keeps a frame wanted: anything under way, and any difference       *)
(* between what is open and what the last draw told the compositor.        *)
Awaited ==
  ~frame =>
    /\ dockIn = 0
    /\ \A p \in Panels : ~Running(anim[p])
    /\ region = (IF open # {} THEN "all" ELSE "pills")
    /\ keyboard = (IF open # {} THEN "on_demand" ELSE "none")
    /\ painted = (error # "none")

(* Between a press on a panel's button and the release, the panel stays as *)
(* it was.                                                                 *)
Remembered == \A p \in Panels, was \in BOOLEAN : <<p, was>> \in armed => was = (p \in open)

IInv == TypeOK /\ Following /\ OneOpen /\ Awaited /\ Remembered

----------------------------------------------------------------------------
(* Animation::to leaves an animation for v.                                *)
LEMMA ToGoes ==
  ASSUME NEW a \in AnimType, NEW v \in {Gone, Full}
  PROVE  /\ To(a, v) \in AnimType
         /\ To(a, v).target = v
         /\ ~Running(To(a, v)) => To(a, v).value = v
<1>1. CASE reduced \/ a.value = v
  <2>1. To(a, v) = [value |-> v, target |-> v, left |-> 0]
    BY <1>1 DEF To
  <2> QED
    BY <2>1, MotionAssumption DEF AnimType, Running, Levels, Gone, Partly, Full
<1>2. CASE ~(reduced \/ a.value = v)
  <2>1. To(a, v) = [a EXCEPT !.target = v, !.left = MotionFrames]
    BY <1>2 DEF To
  <2>2. To(a, v) = [value |-> a.value, target |-> v, left |-> MotionFrames]
    BY <2>1 DEF AnimType
  <2> QED
    BY <2>2, MotionAssumption DEF AnimType, Running, Levels, Gone, Partly, Full
<1> QED
  BY <1>1, <1>2

(* One that is still and there already does not change.                    *)
LEMMA ToStays ==
  ASSUME NEW a \in AnimType, NEW v \in {Gone, Full},
         ~Running(a), a.value = a.target, a.target = v
  PROVE  To(a, v) = a
<1>1. To(a, v) = [value |-> v, target |-> v, left |-> 0]
  BY DEF To
<1>2. a.left = 0
  BY MotionAssumption DEF AnimType, Running
<1> QED
  BY <1>1, <1>2 DEF AnimType

(* Animation::update keeps the target, and a still animation as it is.     *)
LEMMA UpdatesGo ==
  ASSUME NEW a \in AnimType, ~Running(a) => a.value = a.target, NEW b \in Updates(a)
  PROVE  /\ b \in AnimType
         /\ b.target = a.target
         /\ ~Running(b) => b.value = b.target
         /\ ~Running(a) => b = a
         /\ b.left < a.left \/ b.left = 0
<1>1. CASE ~Running(a)
  BY <1>1, MotionAssumption DEF Updates, AnimType, Running
<1>2. CASE Running(a) /\ b = [a EXCEPT !.value = a.target, !.left = 0]
  <2>1. b = [value |-> a.target, target |-> a.target, left |-> 0]
    BY <1>2 DEF AnimType
  <2> QED
    BY <1>2, <2>1, MotionAssumption DEF AnimType, Running, Levels, Gone, Partly, Full
<1>3. CASE /\ Running(a)
           /\ b \in [value : Underway(a), target : {a.target}, left : 1 .. a.left - 1]
  <2>1. Underway(a) \subseteq Levels
    BY DEF Underway, AnimType, Levels, Gone, Partly, Full
  <2>2. 1 .. a.left - 1 \subseteq 0 .. MotionFrames
    BY MotionAssumption DEF AnimType
  <2> HIDE DEF Underway
  <2>3. b.left > 0 /\ b.left < a.left /\ b.target = a.target
    BY <1>3, MotionAssumption DEF AnimType
  <2>4. b \in AnimType
    BY <1>3, <2>1, <2>2 DEF AnimType
  <2> QED
    BY <1>3, <2>3, <2>4 DEF Running
<1> QED
  BY <1>1, <1>2, <1>3 DEF Updates

(* What a place may be.                                                    *)
LEMMA PlaceFacts ==
  ASSUME TypeOK
  PROVE  /\ at \in PlaceType
         /\ at.app \subseteq Launchers /\ at.app \subseteq at.over
         /\ \A p \in Panels : at.button = ButtonOf[p] => at.over = {} /\ at.app = {}
<1>1. at \in Places
  BY DEF TypeOK
<1>2. \A p \in Panels : ButtonOf[p] \in DockButtons
  BY DEF Panels, ButtonOf, DockButtons
<1> QED
  BY <1>1, <1>2, PlacesAssumption DEF PlaceType

(* Two panels have not one button, and a button lies on the pill that a    *)
(* press may hit without dismissing its panel.                             *)
LEMMA ButtonFacts ==
  /\ \A p, q \in Panels : ButtonOf[p] = ButtonOf[q] => p = q
  /\ \A p \in Panels : ButtonOf[p] \in PillOf[p]
  /\ \A p \in Panels : ButtonOf[p] \notin {"slot", "power", "none", "windows"}
BY DEF Panels, ButtonOf, PillOf, HomePill

----------------------------------------------------------------------------
LEMMA InitInv == Init => IInv
<1> SUFFICES ASSUME Init
             PROVE  IInv
  OBVIOUS
<1>1. open \subseteq Panels /\ OneOpen
  BY DEF Init, OneOpen
<1>2. Still(Gone) \in AnimType
  BY MotionAssumption DEF Still, AnimType, Levels, Gone, Partly, Full
<1>3. ASSUME NEW p \in Panels
      PROVE  /\ anim[p] \in AnimType
             /\ anim[p].target = (IF p \in open THEN Full ELSE Gone)
             /\ ~Running(anim[p]) => anim[p].value = anim[p].target
  <2>1. CASE p \in open
    <3>1. anim[p] = To(Still(Gone), Full)
      BY <2>1 DEF Init
    <3> QED
      BY <2>1, <3>1, <1>2, ToGoes
  <2>2. CASE p \notin open
    BY <2>2, MotionAssumption DEF Init, Still, AnimType, Running, Levels, Gone, Partly, Full
  <2> QED
    BY <2>1, <2>2
<1>4. anim \in [Panels -> AnimType]
  BY <1>3 DEF Init
<1>5. dockIn \in 0 .. MotionFrames
  BY MotionAssumption DEF Init
<1>6. TypeOK
  BY <1>1, <1>4, <1>5, PlacesAssumption DEF Init, TypeOK
<1> QED
  BY <1>1, <1>3, <1>6 DEF IInv, Following, Awaited, Remembered, Init

(* What does not draw leaves the panels as they are, and no difference     *)
(* without a frame to show it.                                             *)
LEMMA OthersKeep ==
  ASSUME IInv, DrawTooSmall \/ Tick \/ Age \/ Input
  PROVE  IInv'
<1> USE DEF IInv, TypeOK, Following, OneOpen, Awaited, Remembered, panels, Running
<1>1. CASE DrawTooSmall
  BY <1>1 DEF DrawTooSmall, ConsumeInput
<1>2. CASE Tick
  BY <1>2 DEF Tick, input
<1>3. CASE Age
  BY <1>3 DEF Age, input
<1>4. ASSUME NEW place \in Places, MoveTo(place)
      PROVE  IInv'
  BY <1>4 DEF MoveTo
<1>5. CASE Press
  BY <1>5 DEF Press
<1>6. CASE Release
  BY <1>6 DEF Release
<1>7. CASE Escape
  BY <1>7 DEF Escape
<1>8. CASE TouchCancel
  BY <1>8, PlacesAssumption DEF TouchCancel
<1> QED
  BY <1>1, <1>2, <1>3, <1>4, <1>5, <1>6, <1>7, <1>8 DEF Input

----------------------------------------------------------------------------
(* The animations once they have moved on.                                 *)
Advanced(a) ==
  /\ a \in [Panels -> AnimType]
  /\ \A p \in Panels :
       /\ a[p].target = (IF p \in Now THEN Full ELSE Gone)
       /\ ~Running(a[p]) => a[p].value = a[p].target
       /\ ~Running(anim[p]) /\ p \notin Dismissed => a[p] = anim[p]
       /\ p \notin Dismissed => a[p].left < anim[p].left \/ a[p].left = 0

(* A draw in its two parts.                                                *)
LEMMA DrawParts ==
  ASSUME IInv, Draw
  PROVE  \E a, ok : Advanced(a) /\ Handle(a, Visible(Now, a), ok)
<1>1. PICK m \in Updates(anim["menu"]), s \in Updates(anim["search"]),
           c \in Updates(anim["controlCenter"]) :
       LET a == Advance([menu |-> m, search |-> s, controlCenter |-> c])
       IN  \E ok \in SUBSET Sources(Visible(Now, a)) : Handle(a, Visible(Now, a), ok)
  BY DEF Draw
<1> DEFINE moved == [menu |-> m, search |-> s, controlCenter |-> c]
           a == Advance(moved)
<1>2. PICK ok : Handle(a, Visible(Now, a), ok)
  BY <1>1
<1>3. ASSUME NEW p \in Panels
      PROVE  /\ moved[p] \in AnimType
             /\ moved[p].target = anim[p].target
             /\ ~Running(moved[p]) => moved[p].value = moved[p].target
             /\ ~Running(anim[p]) => moved[p] = anim[p]
             /\ moved[p].left < anim[p].left \/ moved[p].left = 0
  <2>1. moved[p] \in Updates(anim[p])
    BY <1>1 DEF Panels
  <2>2. anim[p] \in AnimType /\ (~Running(anim[p]) => anim[p].value = anim[p].target)
    BY DEF IInv, TypeOK, Following
  <2> HIDE DEF moved
  <2> QED
    BY <2>1, <2>2, UpdatesGo
<1>4. Dismissed \subseteq open
  BY DEF Dismissed
<1>5. ASSUME NEW p \in Panels
      PROVE  /\ a[p] \in AnimType
             /\ a[p].target = (IF p \in Now THEN Full ELSE Gone)
             /\ ~Running(a[p]) => a[p].value = a[p].target
             /\ ~Running(anim[p]) /\ p \notin Dismissed => a[p] = anim[p]
             /\ p \notin Dismissed => a[p].left < anim[p].left \/ a[p].left = 0
  <2> HIDE DEF moved
  <2>1. CASE p \in Dismissed
    <3>1. a[p] = To(moved[p], Gone)
      BY <2>1 DEF Advance
    <3> HIDE DEF a
    <3> QED
      BY <2>1, <3>1, <1>3, ToGoes DEF Now
  <2>2. CASE p \notin Dismissed
    <3>1. a[p] = moved[p]
      BY <2>2 DEF Advance
    <3>2. anim[p].target = IF p \in open THEN Full ELSE Gone
      BY DEF IInv, Following
    <3> HIDE DEF a
    <3> QED
      BY <2>2, <3>1, <3>2, <1>3 DEF Now
  <2> QED
    BY <2>1, <2>2
<1>6. a \in [Panels -> AnimType]
  <2>1. \A p \in Panels : a[p] \in AnimType
    BY <1>5
  <2> QED
    BY <2>1 DEF Advance
<1>7. Advanced(a)
  <2> HIDE DEF a
  <2> QED
    BY <1>5, <1>6 DEF Advanced
<1> QED
  BY <1>2, <1>7

(* What a draw closes are panels: the others, when it opens one.           *)
LEMMA ClosedFacts ==
  ASSUME TypeOK, NEW seen, seen \subseteq Panels, NEW ok
  PROVE  /\ Now \subseteq open /\ Opens \subseteq Panels
         /\ Closed(Now, seen, ok) \subseteq Panels
         /\ \A p \in Opens : Panels \ {p} \subseteq Closed(Now, seen, ok)
         /\ ~released /\ ~escape /\ ok = {} => Closed(Now, seen, ok) = {}
         /\ Sources(seen) \subseteq Launchers \cup {"dock"}
<1>1. Now \subseteq open /\ Toggled \subseteq Panels /\ Opens \subseteq Panels
  BY DEF Now, Toggled, Opens
<1>2. \A p \in Opens : p \in Toggled /\ p \notin Now
  BY DEF Opens
<1>3. "menu" \in Panels
  BY DEF Panels
<1>5. Closed(Now, seen, ok) \subseteq Panels
  <2> HIDE DEF Now, Toggled, ClosedFor, Panels
  <2> QED
    BY <1>3 DEF Closed
<1>6. ASSUME NEW p \in Opens
      PROVE  Panels \ {p} \subseteq Closed(Now, seen, ok)
  <2>1. CASE ok # {} \/ (escape /\ seen # {})
    BY <2>1 DEF Closed
  <2>2. CASE ~(ok # {} \/ (escape /\ seen # {}))
    <3> HIDE DEF Now, Toggled, Panels, Opens
    <3> QED
      BY <1>2, <2>2 DEF Closed, ClosedFor
  <2> QED
    BY <2>1, <2>2
<1>7. ~released /\ ~escape /\ ok = {} => Closed(Now, seen, ok) = {}
  <2>1. ~released => Toggled = {}
    BY DEF Toggled
  <2> HIDE DEF Now, Toggled, Panels
  <2> QED
    BY <2>1 DEF Closed
<1>8. Sources(seen) \subseteq Launchers \cup {"dock"}
  BY PlaceFacts DEF Sources
<1> QED
  BY <1>1, <1>5, <1>6, <1>7, <1>8

LEMMA DrawKeeps ==
  ASSUME IInv, Draw
  PROVE  IInv'
<1>1. PICK a, ok : Advanced(a) /\ Handle(a, Visible(Now, a), ok)
  BY DrawParts
<1> DEFINE seen == Visible(Now, a)
           closed == Closed(Now, seen, ok)
<1>2. seen \subseteq Panels /\ TypeOK
  BY DEF IInv, TypeOK, Visible, Now
<1>3. /\ Now \subseteq open /\ Opens \subseteq Panels /\ closed \subseteq Panels
      /\ \A p \in Opens : Panels \ {p} \subseteq closed
      /\ ~released /\ ~escape /\ ok = {} => closed = {}
      /\ Sources(seen) \subseteq Launchers \cup {"dock"}
  <2> HIDE DEF seen
  <2> QED
    BY <1>2, ClosedFacts
<1>4. /\ open' = (Now \cup Opens) \ closed
      /\ \A p \in Panels : anim'[p] = IF p \in closed THEN To(a[p], Gone)
                                      ELSE IF p \in Opens THEN To(a[p], Full)
                                      ELSE a[p]
      /\ anim' = [p \in Panels |-> anim'[p]]
  <2>1. /\ open' = (Now \cup Opens) \ closed
        /\ anim' = [p \in Panels |-> IF p \in closed THEN To(a[p], Gone)
                                     ELSE IF p \in Opens THEN To(a[p], Full)
                                     ELSE a[p]]
    BY <1>1 DEF Handle
  <2> HIDE DEF seen, closed
  <2> QED
    BY <2>1
<1> HIDE DEF seen, closed
<1>5. Following'
  <2> SUFFICES ASSUME NEW p \in Panels
               PROVE  /\ anim'[p].target = (IF p \in open' THEN Full ELSE Gone)
                      /\ ~Running(anim'[p]) => anim'[p].value = anim'[p].target
    BY DEF Following, Running
  <2>1. /\ a[p] \in AnimType
        /\ a[p].target = (IF p \in Now THEN Full ELSE Gone)
        /\ ~Running(a[p]) => a[p].value = a[p].target
    BY <1>1 DEF Advanced
  <2>2. CASE p \in closed
    BY <1>4, <2>1, <2>2, ToGoes
  <2>3. CASE p \notin closed /\ p \in Opens
    BY <1>4, <2>1, <2>3, ToGoes
  <2>4. CASE p \notin closed /\ p \notin Opens
    BY <1>4, <2>1, <2>4
  <2> QED
    BY <2>2, <2>3, <2>4
<1>6. anim' \in [Panels -> AnimType]
  <2>1. ASSUME NEW p \in Panels
        PROVE  anim'[p] \in AnimType
    <3>1. a[p] \in AnimType
      BY <1>1 DEF Advanced
    <3> QED
      BY <1>4, <3>1, ToGoes
  <2> QED
    BY <1>4, <2>1
<1>7. OneOpen'
  <2>1. CASE Opens = {}
    BY <1>3, <1>4, <2>1 DEF IInv, OneOpen
  <2>2. CASE Opens # {}
    <3>1. PICK p : p \in Opens
      BY <2>2
    <3>2. open' \subseteq {p}
      BY <1>2, <1>3, <1>4, <3>1 DEF TypeOK
    <3> QED
      BY <3>2 DEF OneOpen
  <2> QED
    BY <2>1, <2>2
<1>8. Remembered'
  <2> SUFFICES ASSUME NEW p \in Panels, NEW was \in BOOLEAN, <<p, was>> \in armed'
               PROVE  was = (p \in open')
    BY DEF Remembered
  <2>1. ~released /\ ~escape /\ <<p, was>> \in Armed
    BY <1>1 DEF Handle
  <2>2. Opens = {} /\ ok = {}
    BY <1>1, <2>1 DEF Handle, Sources, Toggled, Opens
  <2>3. open' = open \ Dismissed
    BY <1>3, <1>4, <2>1, <2>2 DEF Now
  <2>4. CASE pressed
    <3>1. at.button = ButtonOf[p] /\ was = (p \in open)
      BY <2>1, <2>4 DEF Armed
    <3>2. p \notin Dismissed
      BY <3>1, ButtonFacts DEF Dismissed
    <3> QED
      BY <2>3, <3>1, <3>2
  <2>5. CASE ~pressed
    <3>1. Dismissed = {} /\ <<p, was>> \in armed
      BY <2>1, <2>5 DEF Dismissed, Armed
    <3> QED
      BY <2>3, <3>1 DEF IInv, Remembered
  <2> QED
    BY <1>2, <2>4, <2>5 DEF TypeOK
<1>9. TypeOK'
  <2>1. open' \subseteq Panels /\ placed' \subseteq Panels
    BY <1>1, <1>2, <1>3, <1>4 DEF Handle, TypeOK, seen
  <2>2. dockIn' \in 0 .. MotionFrames
    BY <1>2, MotionAssumption DEF Draw, TypeOK
  <2>3. /\ region' \in {"all", "pills"} /\ keyboard' \in {"none", "on_demand"}
        /\ frame' \in BOOLEAN /\ painted' \in BOOLEAN
    BY <1>1, <1>2 DEF Handle, TypeOK
  <2>4. error' \in {"none", "fresh", "due"}
    BY <1>1, <1>2 DEF Handle, ErrorAfter, TypeOK
  <2>5. armed' \subseteq Panels \X BOOLEAN
    BY <1>1, <1>2 DEF Handle, Armed, TypeOK
  <2>6. launches' \subseteq Launchers \cup {"dock"}
    BY <1>1, <1>3 DEF Handle, seen
  <2>7. UNCHANGED <<reduced, at, down>> /\ ~pressed' /\ ~released' /\ ~escape'
    BY DEF Draw, ConsumeInput
  <2>8. pressed' \in BOOLEAN /\ released' \in BOOLEAN /\ escape' \in BOOLEAN
    BY DEF Draw, ConsumeInput
  <2> QED
    BY <1>2, <1>6, <2>1, <2>2, <2>3, <2>4, <2>5, <2>6, <2>7, <2>8 DEF TypeOK
<1>10. Awaited'
  <2> SUFFICES ASSUME ~frame'
               PROVE  /\ dockIn' = 0
                      /\ \A p \in Panels : ~Running(anim'[p])
                      /\ region' = (IF open' # {} THEN "all" ELSE "pills")
                      /\ keyboard' = (IF open' # {} THEN "on_demand" ELSE "none")
                      /\ painted' = (error' # "none")
    BY DEF Awaited, Running
  <2>1. /\ ~(dockIn > 0)
        /\ \A p \in Panels : ~Running(anim[p])
        /\ Dismissed = {} /\ Opens = {} /\ Sources(seen) = ok
        /\ \A p \in closed : ~CloseAsks(p, Now, a)
    BY <1>1 DEF Handle, seen, closed
  <2>2. dockIn' = 0
    BY <1>2, <2>1, MotionAssumption DEF Draw, TypeOK
  <2>3. Now = open
    BY <2>1 DEF Now
  <2>4. \A p \in Panels : a[p] = anim[p]
    BY <1>1, <2>1 DEF Advanced
  <2>5. \A p \in closed : p \notin open
    BY <2>1, <2>3 DEF CloseAsks
  <2>6. open' = open
    BY <1>4, <2>1, <2>3, <2>5
  <2>7. \A p \in Panels : anim'[p] = anim[p]
    <3> SUFFICES ASSUME NEW p \in Panels
                 PROVE  anim'[p] = anim[p]
      OBVIOUS
    <3>1. CASE p \in closed
      <4>1. /\ anim[p] \in AnimType /\ ~Running(anim[p])
            /\ anim[p].value = anim[p].target /\ anim[p].target = Gone
        BY <1>2, <2>1, <2>5, <3>1 DEF IInv, TypeOK, Following
      <4>2. To(anim[p], Gone) = anim[p]
        BY <4>1, ToStays
      <4> QED
        BY <1>4, <2>4, <3>1, <4>2
    <3>2. CASE p \notin closed
      BY <1>4, <2>1, <2>4, <3>2
    <3> QED
      BY <3>1, <3>2
  <2>8. seen = open
    <3>1. \A p \in Panels : a[p].value = (IF p \in open THEN Full ELSE Gone)
      BY <2>1, <2>4 DEF IInv, Following
    <3> QED
      BY <1>2, <2>3, <3>1 DEF seen, Visible, TypeOK, Gone, Full
  <2>9. ok \subseteq {"dock"} /\ (ok # {} => open = {})
    <3>1. CASE ok = {}
      BY <3>1
    <3>2. CASE ok # {}
      <4>1. closed = Panels
        BY <3>2 DEF closed, Closed
      <4>2. open = {}
        BY <1>2, <2>5, <4>1 DEF TypeOK
      <4>3. Sources(seen) \subseteq {"dock"}
        BY <2>8, <4>2 DEF Sources
      <4> QED
        BY <2>1, <4>2, <4>3
    <3> QED
      BY <3>1, <3>2
  <2>10. painted' = (error' # "none")
    <3>1. /\ error' = ErrorAfter(ok, ok)
          /\ painted' = IF "dock" \in ok THEN "dock" \notin ok ELSE error # "none"
      BY <1>1, <2>1 DEF Handle, seen
    <3>2. CASE ok = {}
      BY <3>1, <3>2 DEF ErrorAfter
    <3>3. CASE ok # {}
      <4>1. ok = {"dock"}
        BY <2>9, <3>3
      <4> QED
        BY <3>1, <4>1 DEF ErrorAfter
    <3> QED
      BY <3>2, <3>3
  <2>11. /\ region' = (IF open' # {} THEN "all" ELSE "pills")
         /\ keyboard' = (IF open' # {} THEN "on_demand" ELSE "none")
    BY <1>1, <2>6, <2>8 DEF Handle, seen
  <2>12. \A p \in Panels : ~Running(anim'[p])
    BY <2>1, <2>7
  <2> QED
    BY <2>2, <2>10, <2>11, <2>12
<1> QED
  BY <1>5, <1>7, <1>8, <1>9, <1>10 DEF IInv

----------------------------------------------------------------------------
LEMMA Invariance == Spec => []IInv
<1>1. IInv /\ [Next]_vars => IInv'
  <2> SUFFICES ASSUME IInv, [Next]_vars
               PROVE  IInv'
    OBVIOUS
  <2>1. CASE Draw
    BY <2>1, DrawKeeps
  <2>2. CASE DrawTooSmall \/ Tick \/ Age \/ Input
    BY <2>2, OthersKeep
  <2>3. CASE UNCHANGED vars
    BY <2>3 DEF vars, panels, input, IInv, TypeOK, Following, OneOpen, Awaited, Remembered,
                Running
  <2> QED
    BY <2>1, <2>2, <2>3 DEF Next
<1> QED
  BY <1>1, InitInv, PTL DEF Spec

(* Every state of the shell has its types, and no animation outlasts its   *)
(* duration (Shell, Animation).                                            *)
THEOREM TypeCorrect == Spec => []TypeOK
<1>1. IInv => TypeOK
  BY DEF IInv
<1> QED
  BY <1>1, Invariance, PTL

(* At most one panel is open.                                              *)
THEOREM OnePanel == Spec => []OneOpen
<1>1. IInv => OneOpen
  BY DEF IInv
<1> QED
  BY <1>1, Invariance, PTL

(* When no frame is asked for, the input region, the keyboard and the      *)
(* error text are those of what is open, and nothing is left half way.     *)
THEOREM Settles == Spec => []Settled
<1>1. IInv => Settled
  <2> SUFFICES ASSUME IInv, ~frame
               PROVE  Settled
    BY DEF Settled
  <2>2. /\ dockIn = 0
        /\ \A p \in Panels : ~Running(anim[p])
        /\ region = (IF open # {} THEN "all" ELSE "pills")
        /\ keyboard = (IF open # {} THEN "on_demand" ELSE "none")
        /\ painted = (error # "none")
    BY DEF IInv, Awaited
  <2>3. ASSUME NEW p \in Panels
        PROVE  anim[p] = Still(IF p \in open THEN Full ELSE Gone)
    <3>1. /\ anim[p] \in AnimType
          /\ anim[p].target = (IF p \in open THEN Full ELSE Gone)
          /\ anim[p].value = anim[p].target
      BY <2>2 DEF IInv, TypeOK, Following
    <3>2. anim[p].left = 0
      BY <2>2, <3>1, MotionAssumption DEF AnimType, Running
    <3> QED
      BY <3>1, <3>2 DEF AnimType, Still
  <2> QED
    BY <2>2, <2>3 DEF Settled
<1> QED
  BY <1>1, Invariance, PTL

(* A click on a panel's button toggles it, and leaves no other one open.   *)
LEMMA ClickStep ==
  ASSUME IInv, Draw, released, ~escape,
         NEW p \in Panels, NEW was \in BOOLEAN, at.button = ButtonOf[p], <<p, was>> \in Armed
  PROVE  open' = IF was THEN {} ELSE {p}
<1>1. PICK a, ok : Handle(a, Visible(Now, a), ok)
  BY DrawParts
<1> DEFINE seen == Visible(Now, a)
<1>2. seen \subseteq Panels /\ TypeOK /\ open \subseteq Panels
  BY DEF IInv, TypeOK, Visible, Now
<1>3. ok \subseteq Sources(seen) /\ open' = (Now \cup Opens) \ Closed(Now, seen, ok)
  BY <1>1 DEF Handle
<1> HIDE DEF seen
<1>4. at.app = {} /\ at.button # "slot" /\ at.button # "power"
  BY <1>2, PlaceFacts, ButtonFacts
<1>5. ok = {}
  BY <1>3, <1>4 DEF Sources
<1>6. Toggled = {p}
  BY ButtonFacts DEF Toggled
<1>7. was = (p \in open)
  BY DEF Armed, IInv, Remembered
<1>8. p \notin Dismissed
  BY ButtonFacts DEF Dismissed
<1>9. Closed(Now, seen, ok) = {q \in Panels : IF p \in Now THEN q = p ELSE q \in ClosedFor(p)}
  <2> HIDE DEF Toggled, Now, Panels
  <2> QED
    BY <1>4, <1>5, <1>6 DEF Closed
<1>10. CASE p \in open
  <2>1. p \in Now /\ Now \subseteq {p} /\ Opens = {}
    BY <1>6, <1>8, <1>10 DEF Now, Opens, IInv, OneOpen
  <2> QED
    BY <1>2, <1>3, <1>7, <1>9, <1>10, <2>1
<1>11. CASE p \notin open
  <2>1. p \notin Now /\ Opens = {p} /\ Now \subseteq Panels
    BY <1>2, <1>6, <1>11 DEF Now, Opens
  <2> QED
    BY <1>3, <1>7, <1>9, <1>11, <2>1 DEF ClosedFor
<1> QED
  BY <1>10, <1>11

(* However a click falls into draws, it toggles (Shell::draw's dismissal   *)
(* and the handlers of the dock together).                                 *)
THEOREM Toggles == Spec => ClickToggles
<1>1. IInv /\ [Next]_vars =>
        [\A p \in Panels, was \in BOOLEAN :
           released /\ ~escape /\ at.button = ButtonOf[p] /\ <<p, was>> \in Armed /\ Draw
             => open' = IF was THEN {} ELSE {p}]_vars
  BY ClickStep
<1> QED
  BY <1>1, Invariance, PTL DEF ClickToggles, Spec

LEMMA LaunchStep ==
  ASSUME IInv, Draw, Cardinality(launches') > 1
  PROVE  \E p \in Panels \ open : Running(anim[p])
<1>1. PICK a, ok : Advanced(a) /\ Handle(a, Visible(Now, a), ok)
  BY DrawParts
<1> DEFINE seen == Visible(Now, a)
<1>2. launches' = Sources(seen) /\ TypeOK
  BY <1>1 DEF Handle, IInv
<1>3. "menu" \in at.app \cap seen /\ "search" \in at.app \cap seen
  <2> HIDE DEF seen
  <2>1. at \in Places
    BY <1>2 DEF TypeOK
  <2>2. at.button = "slot" => at.app = {}
    BY <2>1, PlacesAssumption DEF PlaceType, DockButtons
  <2>3. \/ launches' = {}
        \/ \E x \in {"dock", "menu", "search"} : launches' = {x}
        \/ launches' = {"menu", "search"} /\ released /\ at.button # "slot"
    BY <1>2, <2>2, PlaceFacts DEF Sources, Launchers
  <2>4. launches' = {"menu", "search"} /\ released /\ at.button # "slot"
    <3>1. Cardinality({}) = 0 /\ \A x : Cardinality({x}) = 1
      BY FS_EmptySet, FS_Singleton
    <3>2. launches' # {}
      <4>1. launches' = {} => Cardinality(launches') = 0
        BY <3>1, Zenon
      <4> QED
        BY <4>1
    <3>3. ASSUME NEW x, launches' = {x}
          PROVE  FALSE
      <4>1. Cardinality(launches') = 1
        BY <3>1, <3>3, Zenon
      <4> QED
        BY <4>1
    <3> QED
      BY <2>3, <3>2, <3>3
  <2> QED
    BY <1>2, <2>4 DEF Sources
<1>4. PICK p \in {"menu", "search"} : p \notin open
  BY DEF IInv, OneOpen
<1>5. p \in Panels /\ p \notin Dismissed
  BY <1>4 DEF Panels, Dismissed
<1>6. a[p].value > Gone
  BY <1>3, <1>4, <1>5 DEF Visible, Now
<1>7. Running(anim[p])
  <2> SUFFICES ASSUME ~Running(anim[p])
               PROVE  FALSE
    OBVIOUS
  <2>1. a[p] = anim[p]
    BY <1>1, <1>5 DEF Advanced
  <2>2. anim[p].value = Gone
    BY <1>4, <1>5 DEF IInv, Following
  <2> QED
    BY <1>6, <2>1, <2>2 DEF Gone
<1> QED
  BY <1>4, <1>5, <1>7

(* A release starts two applications only where a panel on its way out     *)
(* lies over another one.                                                  *)
THEOREM OneApp == Spec => OneAppPerClick
<1>1. IInv /\ [Next]_vars =>
        [Cardinality(launches') > 1 => \E p \in Panels \ open : Running(anim[p])]_vars
  <2> SUFFICES ASSUME IInv, Next, Cardinality(launches') > 1
               PROVE  \E p \in Panels \ open : Running(anim[p])
    <3> HIDE DEF IInv, Next, vars
    <3> QED
      OBVIOUS
  <2>1. launches' # {}
    BY FS_EmptySet
  <2>2. CASE DrawTooSmall \/ Tick \/ Age \/ Input
    BY <2>1, <2>2 DEF DrawTooSmall, Tick, Age, Input, MoveTo, Press, Release, Escape, TouchCancel
  <2> QED
    BY <2>2, LaunchStep DEF Next
<1> QED
  BY <1>1, Invariance, PTL DEF OneAppPerClick, Spec

----------------------------------------------------------------------------
(* Liveness.  Weak fairness of an action speaks of when it is ENABLED,     *)
(* which TLAPS does not evaluate.  The conditions here say it for what is  *)
(* fair.  They hold in every reachable state (TLC evaluates them as        *)
(* invariants), and the theorem names them as hypotheses.                  *)
DrawCanRun == frame => ENABLED <<Draw>>_vars
IdleTickCanRun == ~frame => ENABLED <<~frame /\ Tick>>_vars
AgeCanRun == error = "fresh" => ENABLED <<Age>>_vars

(* No input waits for a draw.                                              *)
Quiet == ~(pressed \/ released \/ escape)

(* A shell that is left alone from here on.                                *)
LeftAlone ==
  /\ []Quiet /\ [][at' = at]_at
  /\ []IInv /\ [][Next]_vars /\ Fairness
  /\ []DrawCanRun /\ []IdleTickCanRun /\ []AgeCanRun

(* Everything that moves is done in n more draws.                          *)
Within(n) == dockIn <= n /\ \A p \in Panels : anim[p].left <= n

Fits ==
  /\ region = (IF open # {} THEN "all" ELSE "pills")
  /\ keyboard = (IF open # {} THEN "on_demand" ELSE "none")
Rested == Within(0) /\ error = "none" /\ ~painted /\ Fits

(* A draw without input opens and closes nothing and moves on what moves.  *)
LEMMA QuietDraw ==
  ASSUME IInv, Quiet, Draw
  PROVE  /\ open' = open /\ error' = error /\ down' = down
         /\ painted' = (error # "none")
         /\ dockIn' \in Nat /\ (dockIn' < dockIn \/ dockIn' = 0)
         /\ \A p \in Panels : /\ anim'[p] \in AnimType
                              /\ anim'[p].left < anim[p].left \/ anim'[p].left = 0
         /\ Within(0) => ~frame' /\ Fits'
<1>1. PICK a, ok : Advanced(a) /\ Handle(a, Visible(Now, a), ok)
  BY DrawParts
<1> DEFINE seen == Visible(Now, a)
<1>2. TypeOK /\ Following /\ open \subseteq Panels
  BY DEF IInv, TypeOK
<1>3. Dismissed = {} /\ Toggled = {} /\ Opens = {} /\ Now = open /\ Sources(seen) = {}
  BY DEF Quiet, Dismissed, Toggled, Opens, Now, Sources
<1>4. ok = {} /\ seen \subseteq Panels
  BY <1>1, <1>2, <1>3 DEF Handle, Visible
<1> HIDE DEF seen
<1>5. Closed(Now, seen, ok) = {}
  BY <1>2, <1>4, ClosedFacts DEF Quiet
<1>6. open' = open /\ anim' = [p \in Panels |-> a[p]]
  BY <1>1, <1>3, <1>5 DEF Handle, seen
<1>7. error' = error /\ painted' = (error # "none")
  BY <1>1, <1>3 DEF Handle, seen, ErrorAfter
<1>8. frame' = (dockIn > 0 \/ \E p \in Panels : Running(anim[p]))
  BY <1>1, <1>3, <1>4, <1>5 DEF Handle, seen, Quiet
<1>9. /\ region' = (IF seen # {} THEN "all" ELSE "pills")
      /\ keyboard' = (IF seen # {} THEN "on_demand" ELSE "none")
  BY <1>1 DEF Handle, seen
<1>10. dockIn' \in Nat /\ (dockIn' < dockIn \/ dockIn' = 0)
  BY <1>2, MotionAssumption DEF Draw, TypeOK
<1>11. down' = down
  BY DEF Draw, ConsumeInput
<1>12. ASSUME NEW p \in Panels
       PROVE  /\ anim'[p] \in AnimType
              /\ anim'[p].left < anim[p].left \/ anim'[p].left = 0
  BY <1>1, <1>3, <1>6 DEF Advanced
<1>13. ASSUME Within(0)
       PROVE  ~frame' /\ Fits'
  <2>1. dockIn = 0 /\ \A p \in Panels : ~Running(anim[p])
    BY <1>2, <1>13, MotionAssumption DEF Within, Running, TypeOK, AnimType
  <2>2. \A p \in Panels : a[p].value = (IF p \in open THEN Full ELSE Gone)
    BY <1>1, <1>2, <1>3, <2>1 DEF Advanced, Following
  <2>3. seen = open
    BY <1>2, <1>3, <2>2 DEF seen, Visible, Gone, Full
  <2>4. ~frame'
    <3>1. ~(dockIn > 0 \/ \E p \in Panels : Running(anim[p]))
      BY <2>1
    <3> QED
      BY <1>8, <3>1, Zenon
  <2>5. open' = open
    BY <1>6
  <2> QED
    BY <1>9, <2>3, <2>4, <2>5 DEF Fits
<1> QED
  BY <1>6, <1>7, <1>10, <1>11, <1>12, <1>13

(* What else can happen to a shell that is left alone.                     *)
LEMMA QuietOthers ==
  ASSUME IInv, Quiet', at' = at, [Next]_vars, ~Draw
  PROVE  /\ UNCHANGED <<panels, painted>>
         /\ \/ error' = error
            \/ error = "fresh" /\ error' = "due"
            \/ error = "due" /\ error' = "none"
         /\ frame' = frame \/ error' # "due" \/ down
         /\ frame => frame'
         /\ down' => down
<1>1. CASE DrawTooSmall
  BY <1>1 DEF DrawTooSmall, ConsumeInput
<1>2. CASE Tick
  BY <1>2 DEF Tick, input
<1>3. CASE Age
  BY <1>3 DEF Age, input
<1>4. CASE TouchCancel
  BY <1>4 DEF TouchCancel, IInv, TypeOK
<1>5. CASE UNCHANGED vars
  BY <1>5 DEF vars, panels, input
<1>6. ASSUME Press \/ Release \/ Escape \/ (\E place \in Places : MoveTo(place))
      PROVE  FALSE
  BY <1>6 DEF Press, Release, Escape, MoveTo, Quiet
<1> QED
  BY <1>1, <1>2, <1>3, <1>4, <1>5, <1>6 DEF Next, Input

(* Left alone, what moves does not move for longer.                        *)
LEMMA WithinStays ==
  ASSUME IInv, Quiet, Quiet', at' = at, [Next]_vars, NEW n \in Nat
  PROVE  /\ Within(n) => Within(n)'
         /\ Within(n + 1) /\ Draw => Within(n)'
<1>1. CASE Draw
  <2>1. /\ dockIn \in Nat /\ dockIn' \in Nat /\ (dockIn' < dockIn \/ dockIn' = 0)
        /\ \A p \in Panels : /\ anim[p].left \in Nat /\ anim'[p].left \in Nat
                             /\ anim'[p].left < anim[p].left \/ anim'[p].left = 0
    BY <1>1, QuietDraw, MotionAssumption DEF IInv, TypeOK, AnimType
  <2> QED
    BY <2>1 DEF Within
<1>2. CASE ~Draw
  BY <1>2, QuietOthers DEF panels, Within
<1> QED
  BY <1>1, <1>2

(* From n more draws to m of them.                                         *)
Leads(n, m) == Within(n) ~> Within(m)
Advances(k) == \A n, m \in Nat : n = m + k => Leads(n, m)

LEMMA AdvancesByOne == LeftAlone => Advances(1)
<1> SUFFICES ASSUME NEW n \in Nat, NEW m \in Nat, n = m + 1
             PROVE  LeftAlone => Leads(n, m)
  BY DEF Advances
<1>1. IInv /\ Quiet /\ Quiet' /\ [at' = at]_at /\ [Next]_vars /\ Within(n) => Within(n)'
  BY WithinStays
<1>2. /\ IInv /\ Quiet /\ Quiet' /\ [at' = at]_at /\ [Next]_vars
      /\ Within(n) /\ <<Draw>>_vars
      => Within(m)'
  BY WithinStays
<1>3. DrawCanRun /\ IInv /\ ~Within(m) => ENABLED <<Draw>>_vars
  <2> SUFFICES ASSUME IInv, ~frame
               PROVE  Within(m)
    BY DEF DrawCanRun
  <2>1. dockIn = 0 /\ \A p \in Panels : anim[p].left = 0
    BY MotionAssumption DEF IInv, Awaited, Running, TypeOK, AnimType
  <2> QED
    BY <2>1 DEF Within
<1> HIDE DEF Within
<1>4. LeftAlone => (Within(n) ~> Within(m))
  BY <1>1, <1>2, <1>3, PTL DEF LeftAlone, Fairness
<1> QED
  BY <1>4 DEF Leads

LEMMA AdvancesByTwice ==
  ASSUME NEW k \in Nat, NEW l \in Nat, l = k + k, Advances(k)
  PROVE  Advances(l)
<1> SUFFICES ASSUME NEW n \in Nat, NEW m \in Nat, n = m + l
             PROVE  Leads(n, m)
  BY DEF Advances
<1> DEFINE i == m + k
<1>1. i \in Nat /\ i = m + k /\ n = i + k
  OBVIOUS
<1> HIDE DEF i
<1>2. Leads(n, i)
  BY <1>1 DEF Advances
<1>3. Leads(i, m)
  BY <1>1 DEF Advances
<1> QED
  BY <1>2, <1>3, PTL DEF Leads

LEMMA AdvancesFar == LeftAlone => Advances(256)
<1> SUFFICES ASSUME LeftAlone
             PROVE  Advances(256)
  OBVIOUS
<1>1. Advances(1)
  BY AdvancesByOne
<1>2. Advances(2)
  BY <1>1, AdvancesByTwice
<1>4. Advances(4)
  BY <1>2, AdvancesByTwice
<1>8. Advances(8)
  BY <1>4, AdvancesByTwice
<1>16. Advances(16)
  BY <1>8, AdvancesByTwice
<1>32. Advances(32)
  BY <1>16, AdvancesByTwice
<1>64. Advances(64)
  BY <1>32, AdvancesByTwice
<1>128. Advances(128)
  BY <1>64, AdvancesByTwice
<1> QED
  BY <1>128, AdvancesByTwice

(* Left alone, all that moves arrives.                                     *)
LEMMA AllArrives ==
  ASSUME MotionFrames <= 256
  PROVE  LeftAlone => <>[]Within(0)
<1>1. LeftAlone => Leads(256, 0)
  <2> SUFFICES ASSUME LeftAlone
               PROVE  Leads(256, 0)
    OBVIOUS
  <2>1. Advances(256)
    BY AdvancesFar
  <2> QED
    BY <2>1 DEF Advances
<1>2. IInv => Within(256)
  BY MotionAssumption DEF IInv, TypeOK, AnimType, Within
<1>3. IInv /\ Quiet /\ Quiet' /\ [at' = at]_at /\ [Next]_vars /\ Within(0) => Within(0)'
  BY WithinStays
<1>4. LeftAlone => (Within(256) ~> Within(0))
  BY <1>1 DEF Leads
<1> HIDE DEF Within
<1> QED
  BY <1>2, <1>3, <1>4, PTL DEF LeftAlone

(* Once nothing moves, an error goes away: it ages, the last draw leaves   *)
(* no frame asked for, and poll times out.  A touch that is cancelled asks *)
(* for one more draw, once.                                                *)
LEMMA ErrorGoes == LeftAlone => ([]Within(0) => <>[](error = "none"))
<1> DEFINE None == error = "none"
           Fresh == error = "fresh"
           Due == error = "due"
           Step == /\ IInv /\ Quiet /\ Quiet' /\ [at' = at]_at /\ [Next]_vars
                   /\ Within(0)
<1>1. IInv => None \/ Fresh \/ Due
  BY DEF IInv, TypeOK
<1>2. ASSUME Step
      PROVE  /\ error' = error \/ (Fresh /\ Due') \/ (Due /\ None')
             /\ down' => down
             /\ frame' => frame \/ ~Due' \/ down
  <2>1. CASE Draw
    BY <1>2, <2>1, QuietDraw DEF Draw
  <2>2. CASE ~Draw
    BY <1>2, <2>2, QuietOthers
  <2> QED
    BY <2>1, <2>2
<1>3. /\ Step /\ None => None'
      /\ Step /\ Fresh => Fresh' \/ Due'
      /\ Step /\ Due => Due' \/ None'
      /\ Step /\ ~down => ~down'
      /\ Step /\ ~frame /\ ~down /\ Due => ~frame' \/ None'
  BY <1>2
<1>4. Step /\ down /\ ~frame /\ Due => ~frame' \/ None' \/ ~down'
  <2> SUFFICES ASSUME Step, down, ~frame, Due, frame', ~None', down'
               PROVE  FALSE
    OBVIOUS
  <2>1. DrawTooSmall \/ Age \/ Tick \/ TouchCancel \/ UNCHANGED vars
    BY DEF Next, Input, Press, Release, Escape, MoveTo, Quiet, Draw
  <2> QED
    BY <2>1 DEF DrawTooSmall, Age, Tick, TouchCancel, vars
<1>5. /\ Fresh /\ AgeCanRun => ENABLED <<Age>>_vars
      /\ Fresh /\ <<Age>>_vars => ~Fresh'
  BY DEF AgeCanRun, Age
<1>6. /\ frame /\ DrawCanRun => ENABLED <<Draw>>_vars
      /\ Step /\ <<Draw>>_vars => ~frame'
  BY QuietDraw DEF DrawCanRun
<1>7. /\ ~frame /\ IdleTickCanRun => ENABLED <<~frame /\ Tick>>_vars
      /\ Due /\ <<~frame /\ Tick>>_vars => None'
  BY DEF IdleTickCanRun, Tick
<1> HIDE DEF None, Fresh, Due
<1>8. LeftAlone => ([]Within(0) => <>[]None)
  BY <1>1, <1>3, <1>4, <1>5, <1>6, <1>7, PTL DEF LeftAlone, Fairness, Step
<1> QED
  BY <1>8 DEF None

(* Without an error, one more draw shows that nothing moves.               *)
LEMMA RestComes ==
  LeftAlone => ([]Within(0) /\ [](error = "none") => <>[]Rested)
<1> DEFINE None == error = "none"
           Step == /\ IInv /\ Quiet /\ Quiet' /\ [at' = at]_at /\ [Next]_vars
                   /\ Within(0) /\ Within(0)' /\ None /\ None'
<1>1. IInv /\ Within(0) /\ None /\ ~frame => Rested
  BY DEF IInv, Awaited, Rested, Fits
<1>2. Step /\ Draw => Rested'
  BY QuietDraw DEF Rested
<1>3. Step /\ Rested => Rested'
  <2>1. CASE Draw
    BY <1>2, <2>1
  <2>2. CASE ~Draw
    BY <2>2, QuietOthers DEF Rested, Fits, panels
  <2> QED
    BY <2>1, <2>2
<1>4. Step /\ frame => frame' \/ Rested'
  BY <1>2, QuietOthers
<1>5. frame /\ DrawCanRun => ENABLED <<Draw>>_vars
  BY DEF DrawCanRun
<1>6. Step /\ <<Draw>>_vars => Rested'
  BY <1>2
<1> HIDE DEF None
<1>7. LeftAlone => ([]Within(0) /\ []None => <>[]Rested)
  BY <1>1, <1>3, <1>4, <1>5, <1>6, PTL DEF LeftAlone, Fairness, Step
<1> QED
  BY <1>7 DEF None

(* Left alone, the shell comes to rest: no animation of the code lasts 256 *)
(* draws, a panel that was closed gives the screen and the keyboard back,  *)
(* and an error goes away (Shell::draw, on_tick).                          *)
THEOREM RestsInTheEnd ==
  MotionFrames <= 256
    => (Spec /\ []DrawCanRun /\ []IdleTickCanRun /\ []AgeCanRun => ComesToRest)
<1> SUFFICES ASSUME MotionFrames <= 256
             PROVE  Spec /\ []DrawCanRun /\ []IdleTickCanRun /\ []AgeCanRun => ComesToRest
  OBVIOUS
<1>1. LeftAlone => <>[]Within(0)
  BY AllArrives
<1>2. Rested => AtRest
  BY DEF Rested, Fits, AtRest
<1>3. LeftAlone /\ []Within(0) /\ [](error = "none") => <>[]AtRest
  BY <1>2, RestComes, PTL
<1>4. LeftAlone => <>[]AtRest
  BY <1>1, <1>3, ErrorGoes, PTL DEF LeftAlone, Fairness
<1>5. /\ Spec /\ []DrawCanRun /\ []IdleTickCanRun /\ []AgeCanRun
      => (<>[]Quiet /\ <>[][at' = at]_at => <>[]AtRest)
  BY <1>4, Invariance, PTL DEF LeftAlone, Spec, Fairness
<1> QED
  BY <1>5 DEF ComesToRest, Quiet
================================================================================
