---------------------------- MODULE WidgetsProofs ---------------------------
(***************************************************************************)
(* Theorems about Widgets, for any widgets, places, pages and fingers.     *)
(*                                                                         *)
(* That a draw reports the user's click depends on what the latch and the  *)
(* widgets agree on between two draws; Agreement states it.                *)
(***************************************************************************)
EXTENDS Widgets, TLAPS

(* What is at a place is shown, enabled and a widget.                      *)
LEMMA WidgetsAtAreShown ==
  ASSUME TypeOK, NEW p
  PROVE  WidgetsAt(p) \subseteq DOMAIN page /\ WidgetsAt(p) \subseteq Widgets
BY PagesAssumption DEF TypeOK, WidgetsAt

(* Nothing a press or a draw holds is more than a widget. *)
LEMMA HeldAreWidgets ==
  ASSUME TypeOK
  PROVE  Held \subseteq Widgets
BY WidgetsAtAreShown DEF TypeOK, Held

(* Every handler and every draw keeps the shape of the latch, of the       *)
(* widgets' state and of the finger that is the pointer (app.cpp 697-862). *)
THEOREM TypeCorrect == Spec => []TypeOK
<1>1. Init => TypeOK
  BY DEF Init, TypeOK
<1>2. TypeOK /\ [Next]_vars => TypeOK'
  <2> SUFFICES ASSUME TypeOK, [Next]_vars PROVE TypeOK'
    OBVIOUS
  <2>0. \A p : WidgetsAt(p) \subseteq Widgets
    BY WidgetsAtAreShown
  <2> USE DEF TypeOK, envVars, latchVars, canvasVars, gestureVars
  <2>1. CASE \E p \in Places : MovePointer(p)
    BY <2>1 DEF MovePointer, HandleMotion
  <2>2. CASE LeaveSurface
    BY <2>2 DEF LeaveSurface, HandleMotion
  <2>3. CASE PressButton
    BY <2>0, <2>3 DEF PressButton, HandlePress
  <2>4. CASE ReleaseButton
    BY <2>4 DEF ReleaseButton, HandleRelease
  <2>5. CASE \E c \in Contacts, p \in Places : TouchDown(c, p)
    BY <2>0, <2>5 DEF TouchDown, HandlePress
  <2>6. CASE \E c \in Contacts, p \in Places \cup {Away} : TouchMotion(c, p)
    BY <2>6 DEF TouchMotion, HandleMotion
  <2>7. CASE \E c \in Contacts : TouchUp(c)
    BY <2>7 DEF TouchUp, HandleRelease
  <2>8. CASE TouchCancel
    BY <2>8 DEF TouchCancel
  <2>9. CASE Draw
    BY <2>9, HeldAreWidgets DEF Draw, ResetInput
  <2>10. CASE \E p \in Pages : TurnPage(p)
    BY <2>10 DEF TurnPage
  <2>11. CASE UNCHANGED vars
    BY <2>11 DEF vars
  <2> QED
    BY <2>1, <2>2, <2>3, <2>4, <2>5, <2>6, <2>7, <2>8, <2>9, <2>10, <2>11 DEF Next
<1> QED
  BY <1>1, <1>2, PTL DEF Spec

----------------------------------------------------------------------------
(* What the latch, the gesture and the widgets agree on.  The first two    *)
(* hold at all times, the others unless the frame is blurred.              *)
Latched ==
  /\ pressed => down \/ released
  /\ active \subseteq DOMAIN page \cup stray

PressSeen == pressed => target = WidgetsAt(x)
HoldSeen ==
  /\ HeldIsPressed
  /\ ~blurred => pressed \/ target \subseteq active
ReleaseSeen ==
  /\ released => ~down
  /\ ~down /\ ~released => active \subseteq stray
  /\ owed = IF released THEN target \cap WidgetsAt(x) \cap Buttons ELSE {}

Agreement ==
  /\ Latched
  /\ HoldSeen
  /\ ~blurred => PressSeen /\ ReleaseSeen

(* The three handlers that every pointer and touch event ends in.          *)
LEMMA MotionAgrees ==
  ASSUME TypeOK, Agreement, NEW p, HandleMotion(p),
         UNCHANGED <<down, pressed, released, active, page, target, owed>>,
         stray \subseteq stray'
  PROVE  Agreement'
<1> USE DEF HandleMotion, Agreement
<1>1. Latched'
  BY DEF Latched
<1>2. HoldSeen'
  BY DEF HoldSeen, HeldIsPressed
<1>3. ASSUME ~blurred' PROVE PressSeen' /\ ReleaseSeen'
  <2>1. ~blurred /\ (pressed \/ released => x' = x)
    BY <1>3 DEF TypeOK
  <2>2. PressSeen'
    BY <2>1 DEF PressSeen, WidgetsAt
  <2>3. ReleaseSeen'
    BY <2>1 DEF ReleaseSeen, WidgetsAt
  <2> QED
    BY <2>2, <2>3
<1> QED
  BY <1>1, <1>2, <1>3

(* handle_pointer_press. *)
LEMMA PressAgrees ==
  ASSUME TypeOK, Agreement, NEW p, HandlePress(p), x' = p,
         UNCHANGED <<active, page>>
  PROVE  Agreement'
<1> USE DEF HandlePress, Agreement
<1>1. Latched'
  BY DEF Latched
<1>2. WidgetsAt(p)' = WidgetsAt(p)
  BY DEF WidgetsAt
<1>3. HoldSeen'
  BY DEF HoldSeen, HeldIsPressed, ReleaseSeen
<1>4. ASSUME ~blurred' PROVE PressSeen' /\ ReleaseSeen'
  <2>1. ~blurred /\ ~released
    BY <1>4 DEF TypeOK
  <2>2. PressSeen'
    BY <1>2 DEF PressSeen, WidgetsAt
  <2>3. ReleaseSeen'
    BY <2>1 DEF ReleaseSeen
  <2> QED
    BY <2>2, <2>3
<1> QED
  BY <1>1, <1>3, <1>4

(* handle_pointer_release. *)
LEMMA ReleaseAgrees ==
  ASSUME TypeOK, Agreement, HandleRelease, UNCHANGED <<active, page>>
  PROVE  Agreement'
<1> USE DEF HandleRelease, Agreement
<1>1. Latched'
  BY DEF Latched
<1>2. WidgetsAt(x)' = WidgetsAt(x)
  BY DEF WidgetsAt
<1>3. HoldSeen'
  BY DEF HoldSeen, HeldIsPressed
<1>4. ASSUME ~blurred' PROVE PressSeen' /\ ReleaseSeen'
  BY <1>2, <1>4 DEF PressSeen, ReleaseSeen, WidgetsAt
<1> QED
  BY <1>1, <1>3, <1>4

(* A draw clears the latch; whatever is still held afterwards is held by a *)
(* button that is down, or stray.                                          *)
LEMMA DrawAgrees ==
  ASSUME TypeOK, Agreement, Draw
  PROVE  Agreement'
<1> USE DEF Draw, ResetInput
<1>1. Held \subseteq DOMAIN page \cup stray
  BY WidgetsAtAreShown DEF Agreement, Latched, Held
<1>2. ~blurred => Held \subseteq target \cup stray
  BY DEF Agreement, HoldSeen, HeldIsPressed, PressSeen, Held
<1>3. Latched'
  BY <1>1 DEF Latched, TypeOK
<1>4. ~blurred /\ ~down => active' \subseteq stray
  BY <1>1, <1>2 DEF Agreement, ReleaseSeen, Latched, LetGo, Held
<1>5. ~blurred /\ down => target \subseteq active'
  <2> SUFFICES ASSUME ~blurred, down PROVE target \subseteq active'
    OBVIOUS
  <2>1. target \subseteq Held
    BY DEF Agreement, HoldSeen, PressSeen, Held
  <2>2. ~released
    BY DEF Agreement, ReleaseSeen
  <2> QED
    BY <2>1, <2>2 DEF LetGo
<1>6. HoldSeen'
  BY <1>2, <1>4, <1>5 DEF HoldSeen, HeldIsPressed
<1>7. PressSeen' /\ ReleaseSeen'
  BY <1>4 DEF PressSeen, ReleaseSeen, TypeOK
<1> QED
  BY <1>3, <1>6, <1>7 DEF Agreement

(* Every event and every draw keeps what the latch, the user's gesture and *)
(* the widgets agree on (app.cpp 697-862, 1250-1258).                      *)
THEOREM LatchAgrees == Spec => []Agreement
<1>1. Init => Agreement
  BY DEF Init, Agreement, Latched, HoldSeen, HeldIsPressed, PressSeen, ReleaseSeen
<1>2. TypeOK /\ Agreement /\ [Next]_vars => Agreement'
  <2> SUFFICES ASSUME TypeOK, Agreement, [Next]_vars PROVE Agreement'
    OBVIOUS
  <2> USE DEF envVars, latchVars, canvasVars, gestureVars
  <2>0. ASSUME UNCHANGED <<latchVars, gestureVars, active, page>> PROVE Agreement'
    BY <2>0 DEF Agreement, Latched, HoldSeen, HeldIsPressed, PressSeen,
                ReleaseSeen, WidgetsAt
  <2>1. CASE \E p \in Places : MovePointer(p)
    BY <2>1, MotionAgrees DEF MovePointer
  <2>2. CASE LeaveSurface
    BY <2>2, MotionAgrees DEF LeaveSurface
  <2>3. CASE PressButton
    BY <2>0, <2>3, PressAgrees DEF PressButton
  <2>4. CASE ReleaseButton
    BY <2>0, <2>4, ReleaseAgrees DEF ReleaseButton
  <2>5. CASE \E c \in Contacts, p \in Places : TouchDown(c, p)
    BY <2>0, <2>5, PressAgrees DEF TouchDown
  <2>6. CASE \E c \in Contacts, p \in Places \cup {Away} : TouchMotion(c, p)
    BY <2>6, MotionAgrees DEF TouchMotion
  <2>7. CASE \E c \in Contacts : TouchUp(c)
    BY <2>0, <2>7, ReleaseAgrees DEF TouchUp
  <2>8. CASE TouchCancel
    <3>1. CASE touchId = None
      <4>1. UNCHANGED <<latchVars, gestureVars, active, page>>
        BY <2>8, <3>1 DEF TouchCancel
      <4> QED
        BY <4>1, <2>0
    <3>2. CASE touchId # None
      <4>1. ~pressed' /\ ~released' /\ target' = {} /\ owed' = {}
        BY <2>8, <3>2 DEF TouchCancel
      <4>2. active' = active /\ active \subseteq stray'
        BY <2>8, <3>2 DEF TouchCancel
      <4> QED
        BY <4>1, <4>2
        DEF Agreement, Latched, HoldSeen, HeldIsPressed, PressSeen, ReleaseSeen
    <3> QED
      BY <3>1, <3>2
  <2>9. CASE Draw
    BY <2>9, DrawAgrees
  <2>10. CASE \E p \in Pages : TurnPage(p)
    <3>1. Latched' /\ HoldSeen'
      <4>1. ~blurred' => ~blurred
        BY <2>10 DEF TurnPage, TypeOK
      <4>2. UNCHANGED <<down, pressed, released, active, target>> /\ stray' = stray \cup active
        BY <2>10 DEF TurnPage
      <4> QED
        BY <4>1, <4>2 DEF Agreement, Latched, HoldSeen, HeldIsPressed
    <3>2. ASSUME ~blurred' PROVE PressSeen' /\ ReleaseSeen'
      <4>1. ~blurred /\ ~pressed /\ ~released
        BY <2>10, <3>2 DEF TurnPage, TypeOK
      <4> QED
        BY <2>10, <4>1 DEF TurnPage, Agreement, PressSeen, ReleaseSeen
    <3> QED
      BY <3>1, <3>2 DEF Agreement
  <2>11. CASE UNCHANGED vars
    BY <2>0, <2>11 DEF vars
  <2> QED
    BY <2>1, <2>2, <2>3, <2>4, <2>5, <2>6, <2>7, <2>8, <2>9, <2>10, <2>11 DEF Next
<1> QED
  BY <1>1, <1>2, TypeCorrect, PTL DEF Spec

(* A widget is held by the user's press on it, or it is stray.             *)
THEOREM HoldsArePresses == Spec => []HeldIsPressed
<1>1. Agreement => HeldIsPressed
  BY DEF Agreement, HoldSeen
<1> QED
  BY <1>1, LatchAgrees, PTL

(* A draw reports exactly the user's click and drag, stray widgets apart   *)
(* (the widgets of canvas.cpp 804-1118 and reset_input).                   *)
THEOREM ActsAreReported == Spec => ActsAreTheUsers
<1> DEFINE Told == Draw /\ ~blurred =>
                     /\ owed \subseteq Clicked
                     /\ Clicked \subseteq owed \cup stray
                     /\ Dragged \subseteq target \cup stray
<1>1. TypeOK /\ Agreement => Told
  <2> SUFFICES ASSUME TypeOK, Agreement, ~blurred
               PROVE  /\ owed \subseteq Clicked
                      /\ Clicked \subseteq owed \cup stray
                      /\ Dragged \subseteq target \cup stray
    OBVIOUS
  <2>1. Held \subseteq target \cup stray
    BY DEF Agreement, HoldSeen, HeldIsPressed, PressSeen, Held
  <2>2. owed \subseteq Clicked /\ Clicked \subseteq owed \cup stray
    <3>1. CASE released
      <4>1. owed = target \cap WidgetsAt(x) \cap Buttons
        BY <3>1 DEF Agreement, ReleaseSeen
      <4>2. target \cap WidgetsAt(x) \subseteq Held
        BY DEF Agreement, HoldSeen, Held
      <4> QED
        BY <2>1, <3>1, <4>1, <4>2 DEF Clicked
    <3>2. CASE ~released
      BY <3>2 DEF Agreement, ReleaseSeen, Clicked
    <3> QED
      BY <3>1, <3>2
  <2>3. Dragged \subseteq Held
    BY DEF Dragged
  <2> QED
    BY <2>1, <2>2, <2>3
<1> QED
  BY <1>1, TypeCorrect, LatchAgrees, PTL DEF ActsAreTheUsers
=============================================================================
