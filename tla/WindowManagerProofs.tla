------------------------ MODULE WindowManagerProofs ------------------------
(***************************************************************************)
(* Theorems about WindowManager, for every number of windows, panels and   *)
(* keyboards, which come and go at any time.                               *)
(*                                                                         *)
(* Each invariant is proved on top of the ones before it.  The handlers    *)
(* share three helpers (Focus, FocusLayer, HandBack), so a lemma about the *)
(* helpers comes first wherever an invariant needs one.                    *)
(***************************************************************************)
EXTENDS WindowManager, TLAPS

(* Every step keeps the type of every variable (server.cpp, all handlers). *)
THEOREM TypeCorrect == Spec => []TypeOK
<1>1. Init => TypeOK
  BY NoneAssumption, WindowsAssumption
  DEF Init, TypeOK, Windows, WindowPhase, LayerPhase, CursorModes
<1>2. TypeOK /\ [Next]_vars => TypeOK'
  <2> SUFFICES ASSUME TypeOK, [Next]_vars PROVE TypeOK'
    OBVIOUS
  <2> USE DEF TypeOK, WindowPhase, LayerPhase, CursorModes
  <2> USE DEF clientVars, focusVars, grabVars, keyboardVars
  <2>1. ASSUME NEW t \in Windows, NEW p, Focus(t, p), p \in Windows \cup Layers \cup {None}
        PROVE  /\ under' \in [Windows -> SUBSET Windows]
               /\ activated' \subseteq Windows
               /\ focused' \in Windows \cup {None}
               /\ lastFocused' \in Windows \cup {None}
               /\ focusedLayer' \in Layers \cup {None}
               /\ seatFocus' \in Windows \cup Layers \cup {None}
    BY <2>1 DEF Focus, RaiseToTop, Alive
  <2>2. ASSUME NEW l \in Layers, FocusLayer(l) \/ HandBack(l)
        PROVE  /\ under' \in [Windows -> SUBSET Windows]
               /\ activated' \subseteq Windows
               /\ focused' \in Windows \cup {None}
               /\ lastFocused' \in Windows \cup {None}
               /\ focusedLayer' \in Layers \cup {None}
               /\ seatFocus' \in Windows \cup Layers \cup {None}
    <3>1. CASE FocusLayer(l)
      BY <3>1 DEF FocusLayer
    <3>2. CASE HandBack(l)
      BY <2>1, <3>2 DEF HandBack
    <3> QED
      BY <2>2, <3>1, <3>2
  <2>3. CASE AddToplevel
    BY <2>3, WindowsAssumption DEF AddToplevel, Alive, Windows
  <2>4. ASSUME NEW t \in Windows, WindowStep(t) PROVE TypeOK'
    <3>1. CASE InitialCommit(t)
      BY <3>1 DEF InitialCommit
    <3>2. CASE MapToplevel(t)
      BY <3>2, <2>1 DEF MapToplevel
    <3>3. CASE UnmapToplevel(t)
      BY <3>3 DEF UnmapToplevel
    <3>4. CASE DestroyToplevel(t)
      BY <3>4 DEF DestroyToplevel
    <3>5. CASE RequestMaximize(t)
      BY <3>5, <2>1 DEF RequestMaximize
    <3>6. CASE \E mode \in {"move", "resize"} : BeginInteractive(t, mode)
      BY <3>6 DEF BeginInteractive
    <3>7. CASE Press(t)
      BY <3>7, <2>1 DEF Press
    <3> QED
      BY <2>4, <3>1, <3>2, <3>3, <3>4, <3>5, <3>6, <3>7 DEF WindowStep
  <2>5. ASSUME NEW l \in Layers, LayerStep(l) PROVE TypeOK'
    <3>1. CASE AddLayer(l)
      BY <3>1 DEF AddLayer
    <3>2. CASE ConfigureLayer(l)
      BY <3>2 DEF ConfigureLayer
    <3>3. ASSUME NEW k \in BOOLEAN, MapLayer(l, k) PROVE TypeOK'
      BY <3>3, <2>2 DEF MapLayer
    <3>4. ASSUME NEW k \in BOOLEAN, CommitLayer(l, k) PROVE TypeOK'
      BY <3>4, <2>2 DEF CommitLayer
    <3>5. CASE UnmapLayer(l)
      BY <3>5 DEF UnmapLayer
    <3>6. CASE DestroyLayer(l)
      BY <3>6, <2>2 DEF DestroyLayer
    <3> QED
      BY <2>5, <3>1, <3>2, <3>3, <3>4, <3>5, <3>6 DEF LayerStep
  <2>6. ASSUME NEW k \in Keyboards, KeyboardStep(k) PROVE TypeOK'
    BY <2>6 DEF KeyboardStep, AddKeyboard, RemoveKeyboard, UseKeyboard
  <2>7. CASE DestroySurface
    BY <2>7 DEF DestroySurface
  <2>8. CASE Release
    BY <2>8 DEF Release
  <2>9. CASE CycleWindows
    BY <2>9, <2>1 DEF CycleWindows, Alive
  <2>10. CASE UNCHANGED vars
    BY <2>10 DEF vars
  <2> QED
    BY <2>3, <2>4, <2>5, <2>6, <2>7, <2>8, <2>9, <2>10 DEF Next
<1> QED
  BY <1>1, <1>2, PTL DEF Spec

----------------------------------------------------------------------------
(* The helpers only ever store a live window or panel: what NoDangling     *)
(* needs of Server::focus and Server::focus_layer.                         *)
LEMMA FocusKeepsAlive ==
  ASSUME TypeOK, NoDangling, NEW t \in Alive, NEW p, Focus(t, p)
  PROVE  /\ focused' \in Alive \cup {None}
         /\ lastFocused' \in Alive \cup {None}
         /\ focusedLayer' \in LiveLayers \cup {None}
BY DEF NoDangling, Focus

LEMMA LayerHelpersKeepAlive ==
  ASSUME TypeOK, NoDangling, NEW l \in Layers,
         \/ FocusLayer(l) /\ l \in LiveLayers
         \/ HandBack(l)
  PROVE  /\ focused' \in Alive \cup {None}
         /\ lastFocused' \in Alive \cup {None}
         /\ focusedLayer' \in LiveLayers \cup {None}
<1>1. CASE FocusLayer(l) /\ l \in LiveLayers
  BY <1>1 DEF NoDangling, FocusLayer, focusVars
<1>2. CASE HandBack(l) /\ focusedLayer = l /\ lastFocused # None
  <2>1. lastFocused \in Alive /\ Focus(lastFocused, None)
    BY <1>2 DEF NoDangling, HandBack
  <2> QED
    BY <2>1, FocusKeepsAlive
<1>3. CASE HandBack(l) /\ ~(focusedLayer = l /\ lastFocused # None)
  BY <1>3 DEF NoDangling, HandBack, focusVars
<1> QED
  BY <1>1, <1>2, <1>3

(* A panel that dies is let go of before its entry is erased               *)
(* (remove_layer).                                                         *)
LEMMA HandBackForgets ==
  ASSUME TypeOK, NEW l \in Layers, HandBack(l)
  PROVE  focusedLayer' # l
BY NoneAssumption DEF TypeOK, HandBack, Focus, focusVars

(* No use after free: focused_, last_focused_, grabbed_, focused_layer_    *)
(* and the seat's keyboard always name something that exists.              *)
THEOREM PointersLive == Spec => []NoDangling
<1>1. Init => NoDangling
  BY DEF Init, NoDangling
<1>2. TypeOK /\ TypeOK' /\ NoDangling /\ [Next]_vars => NoDangling'
  <2> SUFFICES ASSUME TypeOK, TypeOK', NoDangling, [Next]_vars PROVE NoDangling'
    OBVIOUS
  <2> USE DEF clientVars, grabVars, keyboardVars
  <2>1. CASE AddToplevel
    BY <2>1 DEF AddToplevel, NoDangling, TypeOK, Alive, LiveLayers, Windows
  <2>2. ASSUME NEW t \in Windows, WindowStep(t) PROVE NoDangling'
    <3>1. CASE InitialCommit(t)
      BY <3>1 DEF InitialCommit, NoDangling, TypeOK, Alive, LiveLayers, focusVars
    <3>2. CASE MapToplevel(t)
      <4>1. t \in Alive /\ Alive' = Alive /\ LiveLayers' = LiveLayers
        BY <3>2 DEF MapToplevel, Alive, LiveLayers, TypeOK
      <4> QED
        BY <3>2, <4>1, FocusKeepsAlive DEF MapToplevel, NoDangling
    <3>3. CASE UnmapToplevel(t)
      BY <3>3 DEF UnmapToplevel, NoDangling, TypeOK, Alive, LiveLayers
    <3>4. CASE DestroyToplevel(t)
      BY <3>4 DEF DestroyToplevel, NoDangling, TypeOK, Alive, LiveLayers
    <3>5. CASE RequestMaximize(t)
      <4>1. t \in Alive /\ Alive' = Alive /\ LiveLayers' = LiveLayers
        BY <3>5 DEF RequestMaximize, Alive, LiveLayers, TypeOK
      <4> QED
        BY <3>5, <4>1, FocusKeepsAlive DEF RequestMaximize, NoDangling
    <3>6. CASE \E mode \in {"move", "resize"} : BeginInteractive(t, mode)
      BY <3>6 DEF BeginInteractive, NoDangling, Alive, LiveLayers, focusVars
    <3>7. CASE Press(t)
      <4>1. t \in Alive /\ Alive' = Alive /\ LiveLayers' = LiveLayers
        BY <3>7 DEF Press, Alive, LiveLayers, TypeOK
      <4> QED
        BY <3>7, <4>1, FocusKeepsAlive DEF Press, NoDangling
    <3> QED
      BY <2>2, <3>1, <3>2, <3>3, <3>4, <3>5, <3>6, <3>7 DEF WindowStep
  <2>3. ASSUME NEW l \in Layers, LayerStep(l) PROVE NoDangling'
    <3>1. CASE AddLayer(l) \/ ConfigureLayer(l) \/ UnmapLayer(l)
      BY <3>1 DEF AddLayer, ConfigureLayer, UnmapLayer, NoDangling, TypeOK,
                  Alive, LiveLayers, focusVars
    <3>2. ASSUME NEW k \in BOOLEAN, MapLayer(l, k) PROVE NoDangling'
      <4>1. l \in LiveLayers /\ Alive' = Alive /\ LiveLayers' = LiveLayers
        BY <3>2 DEF MapLayer, Alive, LiveLayers, TypeOK
      <4> QED
        BY <3>2, <4>1, LayerHelpersKeepAlive DEF MapLayer, NoDangling
    <3>3. ASSUME NEW k \in BOOLEAN, CommitLayer(l, k) PROVE NoDangling'
      <4>1. l \in LiveLayers /\ Alive' = Alive /\ LiveLayers' = LiveLayers
        BY <3>3 DEF CommitLayer, Alive, LiveLayers, TypeOK
      <4> QED
        BY <3>3, <4>1, LayerHelpersKeepAlive DEF CommitLayer, NoDangling
    <3>4. CASE DestroyLayer(l)
      <4>1. Alive' = Alive /\ LiveLayers' = LiveLayers \ {l}
        BY <3>4 DEF DestroyLayer, Alive, LiveLayers, TypeOK
      <4> QED
        BY <3>4, <4>1, LayerHelpersKeepAlive, HandBackForgets
        DEF DestroyLayer, NoDangling
    <3> QED
      BY <2>3, <3>1, <3>2, <3>3, <3>4 DEF LayerStep
  <2>4. ASSUME NEW k \in Keyboards, KeyboardStep(k) PROVE NoDangling'
    BY <2>4 DEF KeyboardStep, AddKeyboard, RemoveKeyboard, UseKeyboard,
                NoDangling, Alive, LiveLayers, focusVars
  <2>5. CASE DestroySurface \/ Release
    BY <2>5 DEF DestroySurface, Release, NoDangling, Alive, LiveLayers, focusVars
  <2>6. CASE CycleWindows
    <3>1. PICK t \in Alive : Focus(t, seatFocus)
      BY <2>6 DEF CycleWindows
    <3>2. Alive' = Alive /\ LiveLayers' = LiveLayers
      BY <2>6 DEF CycleWindows, Alive, LiveLayers
    <3> QED
      BY <2>6, <3>1, <3>2, FocusKeepsAlive DEF CycleWindows, NoDangling
  <2>7. CASE UNCHANGED vars
    BY <2>7 DEF vars, NoDangling, Alive, LiveLayers, focusVars
  <2> QED
    BY <2>1, <2>2, <2>3, <2>4, <2>5, <2>6, <2>7 DEF Next
<1> QED
  BY <1>1, <1>2, TypeCorrect, PTL DEF Spec

----------------------------------------------------------------------------
(* The seat follows whichever helper last ran: what each helper leaves     *)
(* behind of the one-owner policy.                                         *)
LEMMA FocusOwner ==
  ASSUME TypeOK, NoDangling, OneKeyboardOwner, NEW t \in Alive,
         Focus(t, seatFocus)
  PROVE  \/ UNCHANGED <<focused, focusedLayer, seatFocus>>
         \/ focusedLayer' = None
BY DEF Focus

LEMMA FocusLayerOwner ==
  ASSUME TypeOK, NEW l \in Layers, FocusLayer(l)
  PROVE  \/ UNCHANGED <<focused, focusedLayer, seatFocus>>
         \/ focusedLayer' = l /\ focused' = None /\ seatFocus' = l
BY DEF FocusLayer, focusVars

LEMMA HandBackOwner ==
  ASSUME TypeOK, NEW l \in Layers, HandBack(l)
  PROVE  \/ focusedLayer # l /\ UNCHANGED <<focused, focusedLayer, seatFocus>>
         \/ focusedLayer = l /\ focusedLayer' = None
BY NoneAssumption DEF TypeOK, HandBack, Focus, focusVars

(* A panel and a window never both believe they own the keyboard, and the  *)
(* panel that does really has the seat (focus, focus_layer, remove_layer,  *)
(* on_layer_commit).                                                       *)
THEOREM OneOwner == Spec => []OneKeyboardOwner
<1>1. Init => OneKeyboardOwner
  BY DEF Init, OneKeyboardOwner
<1>2. TypeOK /\ NoDangling /\ OneKeyboardOwner /\ [Next]_vars => OneKeyboardOwner'
  <2> SUFFICES ASSUME TypeOK, NoDangling, OneKeyboardOwner, [Next]_vars
               PROVE  OneKeyboardOwner'
    OBVIOUS
  <2> USE DEF clientVars, grabVars, keyboardVars
  <2>1. ASSUME NEW t \in Alive, Focus(t, seatFocus), UNCHANGED <<layer, interactive>>
        PROVE  OneKeyboardOwner'
    BY <2>1, FocusOwner DEF OneKeyboardOwner
  <2>2. CASE AddToplevel \/ DestroySurface \/ Release
    BY <2>2, NoneAssumption
    DEF AddToplevel, DestroySurface, Release, OneKeyboardOwner, NoDangling, focusVars
  <2>3. ASSUME NEW t \in Windows, WindowStep(t) PROVE OneKeyboardOwner'
    <3>1. CASE InitialCommit(t) \/ UnmapToplevel(t) \/ DestroyToplevel(t)
      BY <3>1 DEF InitialCommit, UnmapToplevel, DestroyToplevel,
                  OneKeyboardOwner, focusVars
    <3>2. CASE MapToplevel(t) \/ RequestMaximize(t) \/ Press(t)
      BY <3>2, <2>1 DEF MapToplevel, RequestMaximize, Press, Alive
    <3>3. CASE \E mode \in {"move", "resize"} : BeginInteractive(t, mode)
      BY <3>3 DEF BeginInteractive, OneKeyboardOwner, focusVars
    <3> QED
      BY <2>3, <3>1, <3>2, <3>3 DEF WindowStep
  <2>4. ASSUME NEW l \in Layers, LayerStep(l) PROVE OneKeyboardOwner'
    <3>1. CASE AddLayer(l)
      <4>1. focusedLayer # l
        BY <3>1, NoneAssumption DEF AddLayer, NoDangling, LiveLayers
      <4> QED
        BY <3>1, <4>1 DEF AddLayer, OneKeyboardOwner, focusVars, TypeOK
    <3>2. CASE ConfigureLayer(l) \/ UnmapLayer(l)
      BY <3>2 DEF ConfigureLayer, UnmapLayer, OneKeyboardOwner, focusVars,
                  TypeOK, LayerPhase
    <3>3. ASSUME NEW k \in BOOLEAN, MapLayer(l, k) PROVE OneKeyboardOwner'
      BY <3>3, FocusLayerOwner, HandBackOwner
      DEF MapLayer, OneKeyboardOwner, TypeOK
    <3>4. ASSUME NEW k \in BOOLEAN, CommitLayer(l, k) PROVE OneKeyboardOwner'
      BY <3>4, FocusLayerOwner, HandBackOwner
      DEF CommitLayer, OneKeyboardOwner, TypeOK
    <3>5. CASE DestroyLayer(l)
      BY <3>5, HandBackOwner DEF DestroyLayer, OneKeyboardOwner, TypeOK
    <3> QED
      BY <2>4, <3>1, <3>2, <3>3, <3>4, <3>5 DEF LayerStep
  <2>5. ASSUME NEW k \in Keyboards, KeyboardStep(k) PROVE OneKeyboardOwner'
    BY <2>5 DEF KeyboardStep, AddKeyboard, RemoveKeyboard, UseKeyboard,
                OneKeyboardOwner, focusVars
  <2>6. CASE CycleWindows
    BY <2>6, <2>1 DEF CycleWindows
  <2>7. CASE UNCHANGED vars
    BY <2>7 DEF vars, OneKeyboardOwner, focusVars
  <2> QED
    BY <2>2, <2>3, <2>4, <2>5, <2>6, <2>7 DEF Next
<1> QED
  BY <1>1, <1>2, TypeCorrect, PointersLive, PTL DEF Spec

----------------------------------------------------------------------------
(* focused_ is set together with last_focused_ and the activated state,    *)
(* and each later change of one of them takes focused_ along (focus,       *)
(* focus_layer, on_toplevel_unmap, remove_toplevel).                       *)
LEMMA FocusActivates ==
  ASSUME TypeOK, FocusedIsActive, NEW t \in Alive, NEW p, Focus(t, p)
  PROVE  FocusedIsActive'
BY DEF FocusedIsActive, Focus

LEMMA LayerHelpersActivate ==
  ASSUME TypeOK, NoDangling, FocusedIsActive, NEW l \in Layers,
         FocusLayer(l) \/ HandBack(l)
  PROVE  FocusedIsActive'
<1>1. CASE FocusLayer(l)
  BY <1>1 DEF FocusLayer, FocusedIsActive, focusVars
<1>2. CASE HandBack(l) /\ focusedLayer = l /\ lastFocused # None
  BY <1>2, FocusActivates DEF HandBack, NoDangling
<1>3. CASE HandBack(l) /\ ~(focusedLayer = l /\ lastFocused # None)
  BY <1>3 DEF HandBack, FocusedIsActive, focusVars
<1> QED
  BY <1>1, <1>2, <1>3

THEOREM FocusedActive == Spec => []FocusedIsActive
<1>1. Init => FocusedIsActive
  BY DEF Init, FocusedIsActive
<1>2. TypeOK /\ NoDangling /\ FocusedIsActive /\ [Next]_vars => FocusedIsActive'
  <2> SUFFICES ASSUME TypeOK, NoDangling, FocusedIsActive, [Next]_vars
               PROVE  FocusedIsActive'
    OBVIOUS
  <2> USE DEF clientVars, grabVars, keyboardVars
  <2>1. CASE AddToplevel \/ DestroySurface \/ Release
    BY <2>1 DEF AddToplevel, DestroySurface, Release, FocusedIsActive, focusVars
  <2>2. ASSUME NEW t \in Windows, WindowStep(t) PROVE FocusedIsActive'
    <3>1. CASE InitialCommit(t) \/ \E mode \in {"move", "resize"} : BeginInteractive(t, mode)
      BY <3>1 DEF InitialCommit, BeginInteractive, FocusedIsActive, focusVars
    <3>2. CASE UnmapToplevel(t)
      BY <3>2 DEF UnmapToplevel, FocusedIsActive
    <3>3. CASE DestroyToplevel(t)
      BY <3>3 DEF DestroyToplevel, FocusedIsActive
    <3>4. CASE MapToplevel(t) \/ RequestMaximize(t) \/ Press(t)
      BY <3>4, FocusActivates
      DEF MapToplevel, RequestMaximize, Press, Alive
    <3> QED
      BY <2>2, <3>1, <3>2, <3>3, <3>4 DEF WindowStep
  <2>3. ASSUME NEW l \in Layers, LayerStep(l) PROVE FocusedIsActive'
    <3>1. CASE AddLayer(l) \/ ConfigureLayer(l) \/ UnmapLayer(l)
      BY <3>1 DEF AddLayer, ConfigureLayer, UnmapLayer, FocusedIsActive, focusVars
    <3>2. CASE \E k \in BOOLEAN : MapLayer(l, k) \/ CommitLayer(l, k)
      BY <3>2, LayerHelpersActivate DEF MapLayer, CommitLayer
    <3>3. CASE DestroyLayer(l)
      BY <3>3, LayerHelpersActivate DEF DestroyLayer
    <3> QED
      BY <2>3, <3>1, <3>2, <3>3 DEF LayerStep
  <2>4. ASSUME NEW k \in Keyboards, KeyboardStep(k) PROVE FocusedIsActive'
    BY <2>4 DEF KeyboardStep, AddKeyboard, RemoveKeyboard, UseKeyboard,
                FocusedIsActive, focusVars
  <2>5. CASE CycleWindows
    BY <2>5, FocusActivates DEF CycleWindows
  <2>6. CASE UNCHANGED vars
    BY <2>6 DEF vars, FocusedIsActive, focusVars
  <2> QED
    BY <2>1, <2>2, <2>3, <2>4, <2>5, <2>6 DEF Next
<1> QED
  BY <1>1, <1>2, TypeCorrect, PointersLive, PTL DEF Spec

----------------------------------------------------------------------------
(* The stacking argument.  Focus(t) either finds t in the seat, and then   *)
(* StackOrder already puts t below the focused window, or raises t above   *)
(* every live sibling.  S is the state of the windows after the handler,   *)
(* in which t may have become mapped.                                      *)
LEMMA FocusKeepsStack ==
  ASSUME TypeOK, NoDangling, StackOrder, NEW t \in Alive, Focus(t, seatFocus),
         created' = created, Alive' = Alive,
         Mapped' \subseteq Mapped \cup {t}
  PROVE  StackOrder'
<1>1. CASE seatFocus = t
  BY <1>1 DEF Focus, StackOrder, NoDangling
<1>2. CASE seatFocus # t
  <2>1. /\ focused' = t
        /\ under'[t] = Alive \ {t}
        /\ seatFocus' \in {t, seatFocus}
    BY <1>2 DEF Focus, RaiseToTop, Alive
  <2>2. \A u \in Windows : u > created => u # t
    BY DEF StackOrder
  <2> QED
    BY <2>1, <2>2 DEF StackOrder
<1> QED
  BY <1>1, <1>2

LEMMA LayerHelpersKeepStack ==
  ASSUME TypeOK, NoDangling, StackOrder, NEW l \in Layers,
         FocusLayer(l) \/ HandBack(l),
         created' = created, window' = window
  PROVE  StackOrder'
<1>1. Alive' = Alive /\ Mapped' = Mapped
  BY DEF Alive, Mapped
<1>2. l \notin Windows /\ None \notin Windows /\ Alive \subseteq Windows
  BY LayersAssumption, NoneAssumption DEF Windows, Alive
<1>3. CASE FocusLayer(l)
  BY <1>1, <1>2, <1>3 DEF FocusLayer, StackOrder, focusVars
<1>4. CASE HandBack(l) /\ focusedLayer = l /\ lastFocused # None
  <2>1. lastFocused \in Alive /\ lastFocused \in Windows /\ Focus(lastFocused, None)
    BY <1>4 DEF HandBack, NoDangling, Alive
  <2>2. /\ focused' = lastFocused
        /\ under'[lastFocused] = Alive \ {lastFocused}
        /\ seatFocus' \in {lastFocused, None}
    BY <1>2, <2>1 DEF Focus, RaiseToTop
  <2>3. \A u \in Windows : u > created => u # lastFocused
    BY <2>1 DEF StackOrder
  <2> QED
    BY <1>1, <1>2, <2>1, <2>2, <2>3 DEF StackOrder
<1>5. CASE HandBack(l) /\ ~(focusedLayer = l /\ lastFocused # None)
  BY <1>1, <1>2, <1>5 DEF HandBack, StackOrder, focusVars
<1> QED
  BY <1>3, <1>4, <1>5

(* Focus and stacking are one policy: the strengthening StackOrder is      *)
(* kept by every handler, and it implies that no mapped window covers the  *)
(* focused one.                                                            *)
THEOREM StackInvariant == Spec => []StackOrder
<1>1. Init => StackOrder
  BY NoneAssumption DEF Init, StackOrder, Alive, Windows
<1>2. TypeOK /\ NoDangling /\ StackOrder /\ [Next]_vars => StackOrder'
  <2> SUFFICES ASSUME TypeOK, NoDangling, StackOrder, [Next]_vars
               PROVE  StackOrder'
    OBVIOUS
  <2> USE DEF clientVars, grabVars, keyboardVars
  <2>1. CASE AddToplevel
    <3> DEFINE new == created + 1
    <3>1. /\ new \in Windows /\ new \notin Alive /\ seatFocus # new
          /\ Alive' = Alive \cup {new} /\ Mapped' = Mapped
      BY <2>1, WindowsAssumption
      DEF AddToplevel, Alive, Mapped, TypeOK, Windows, StackOrder
    <3>2. focused # new /\ (focused # None => under'[focused] = under[focused])
      BY <2>1, <3>1, NoneAssumption DEF AddToplevel, NoDangling, TypeOK, Windows
    <3>3. new \notin Mapped
      BY <3>1 DEF Alive, Mapped
    <3>4. \A u \in Windows : u > created' => u > created /\ u # new
      BY <2>1 DEF AddToplevel, TypeOK, Windows
    <3> QED
      BY <2>1, <3>1, <3>2, <3>3, <3>4 DEF AddToplevel, StackOrder
  <2>2. ASSUME NEW t \in Windows, WindowStep(t) PROVE StackOrder'
    <3>1. CASE InitialCommit(t)
      <4>1. Alive' = Alive /\ Mapped' \subseteq Mapped
        BY <3>1 DEF InitialCommit, Alive, Mapped, TypeOK
      <4> QED
        BY <3>1, <4>1 DEF InitialCommit, StackOrder, focusVars
    <3>2. CASE UnmapToplevel(t)
      <4>1. Alive' = Alive /\ Mapped' \subseteq Mapped
        BY <3>2 DEF UnmapToplevel, Alive, Mapped, TypeOK
      <4> QED
        BY <3>2, <4>1 DEF UnmapToplevel, StackOrder
    <3>3. CASE DestroyToplevel(t)
      <4>1. Alive' = Alive \ {t} /\ Mapped' \subseteq Mapped
        BY <3>3 DEF DestroyToplevel, Alive, Mapped, TypeOK
      <4>2. focused' # None => /\ focused' = focused /\ focused # t
                               /\ under'[focused] = under[focused] \ {t}
        BY <3>3, NoneAssumption DEF DestroyToplevel, TypeOK
      <4> QED
        BY <3>3, <4>1, <4>2 DEF DestroyToplevel, StackOrder
    <3>4. CASE MapToplevel(t)
      <4>1. t \in Alive /\ Alive' = Alive /\ Mapped' \subseteq Mapped \cup {t}
        BY <3>4 DEF MapToplevel, Alive, Mapped, TypeOK
      <4> QED
        BY <3>4, <4>1, FocusKeepsStack DEF MapToplevel
    <3>5. CASE RequestMaximize(t) \/ Press(t)
      <4>1. t \in Alive /\ Alive' = Alive /\ Mapped' = Mapped
        BY <3>5 DEF RequestMaximize, Press, Alive, Mapped
      <4> QED
        BY <3>5, <4>1, FocusKeepsStack DEF RequestMaximize, Press
    <3>6. CASE \E mode \in {"move", "resize"} : BeginInteractive(t, mode)
      BY <3>6 DEF BeginInteractive, StackOrder, Alive, Mapped, focusVars
    <3> QED
      BY <2>2, <3>1, <3>2, <3>3, <3>4, <3>5, <3>6 DEF WindowStep
  <2>3. ASSUME NEW l \in Layers, LayerStep(l) PROVE StackOrder'
    <3>1. CASE AddLayer(l) \/ ConfigureLayer(l) \/ UnmapLayer(l)
      BY <3>1 DEF AddLayer, ConfigureLayer, UnmapLayer, StackOrder, Alive,
                  Mapped, focusVars
    <3>2. CASE \E k \in BOOLEAN : MapLayer(l, k) \/ CommitLayer(l, k)
      BY <3>2, LayerHelpersKeepStack DEF MapLayer, CommitLayer
    <3>3. CASE DestroyLayer(l)
      BY <3>3, LayerHelpersKeepStack DEF DestroyLayer
    <3> QED
      BY <2>3, <3>1, <3>2, <3>3 DEF LayerStep
  <2>4. ASSUME NEW k \in Keyboards, KeyboardStep(k) PROVE StackOrder'
    BY <2>4 DEF KeyboardStep, AddKeyboard, RemoveKeyboard, UseKeyboard,
                StackOrder, Alive, Mapped, focusVars
  <2>5. CASE DestroySurface
    BY <2>5, NoneAssumption
    DEF DestroySurface, StackOrder, Alive, Mapped, Windows
  <2>6. CASE Release
    BY <2>6 DEF Release, StackOrder, Alive, Mapped, focusVars
  <2>7. CASE CycleWindows
    <3>1. PICK t \in Alive : Focus(t, seatFocus)
      BY <2>7 DEF CycleWindows
    <3>2. created' = created /\ Alive' = Alive /\ Mapped' = Mapped
      BY <2>7 DEF CycleWindows, Alive, Mapped
    <3> QED
      BY <3>1, <3>2, FocusKeepsStack
  <2>8. CASE UNCHANGED vars
    BY <2>8 DEF vars, StackOrder, Alive, Mapped, focusVars
  <2> QED
    BY <2>1, <2>2, <2>3, <2>4, <2>5, <2>6, <2>7, <2>8 DEF Next
<1> QED
  BY <1>1, <1>2, TypeCorrect, PointersLive, PTL DEF Spec

(* No mapped window ever covers the focused one. *)
THEOREM FocusedWindowOnTop == Spec => []FocusedOnTop
<1>1. StackOrder => FocusedOnTop
  BY DEF StackOrder, FocusedOnTop, Mapped, Alive
<1> QED
  BY <1>1, StackInvariant, PTL

----------------------------------------------------------------------------
(* While the seat never was without a keyboard it has one, and then the    *)
(* seat's focus follows focused_.  This is exactly what unplugging the     *)
(* last keyboard loses.                                                    *)
SeatHasKeyboard == steady => seatKeyboard \in Keyboards

(* Windows and panels come and go, take focus and lose it without a        *)
(* keyboard being added, removed or put in use.                            *)
LEMMA OthersLeaveKeyboards ==
  ASSUME Next
  PROVE  (\E k \in Keyboards : KeyboardStep(k)) \/ UNCHANGED <<steady, seatKeyboard>>
<1> USE DEF keyboardVars
<1>window. ASSUME NEW t \in Windows
           PROVE  WindowStep(t) => UNCHANGED <<steady, seatKeyboard>>
  BY DEF WindowStep, InitialCommit, MapToplevel, UnmapToplevel, DestroyToplevel,
         RequestMaximize, BeginInteractive, Press
<1>layer. ASSUME NEW l \in Layers
          PROVE  LayerStep(l) => UNCHANGED <<steady, seatKeyboard>>
  BY DEF LayerStep, AddLayer, ConfigureLayer, MapLayer, CommitLayer, UnmapLayer, DestroyLayer
<1> QED
  BY <1>window, <1>layer DEF Next, AddToplevel, DestroySurface, Release, CycleWindows

(* wlroots takes the seat's keyboard away only with the device, and then   *)
(* the seat has been without one (remove_keyboard, server.cpp:789).        *)
THEOREM KeyboardStays == Spec => []SeatHasKeyboard
<1>start. Init => SeatHasKeyboard
  BY DEF Init, SeatHasKeyboard
<1>device. ASSUME SeatHasKeyboard, NEW k \in Keyboards, KeyboardStep(k)
           PROVE  SeatHasKeyboard'
  BY <1>device DEF SeatHasKeyboard, KeyboardStep, AddKeyboard, RemoveKeyboard, UseKeyboard
<1>step. SeatHasKeyboard /\ [Next]_vars => SeatHasKeyboard'
  <2>unmoved. UNCHANGED <<steady, seatKeyboard>> => (SeatHasKeyboard' <=> SeatHasKeyboard)
    BY DEF SeatHasKeyboard
  <2>stutter. UNCHANGED vars => UNCHANGED <<steady, seatKeyboard>>
    BY DEF vars, keyboardVars
  <2> QED
    BY <1>device, <2>unmoved, <2>stutter, OthersLeaveKeyboards
<1> QED
  BY <1>start, <1>step, PTL DEF Spec

(* What the helpers do to the seat when it has a keyboard. *)
LEMMA FocusTakesSeat ==
  ASSUME TypeOK, SeatHasKeyboard, KeysFollowFocus, NEW t \in Windows,
         Focus(t, seatFocus), UNCHANGED steady
  PROVE  KeysFollowFocus'
BY NoneAssumption DEF SeatHasKeyboard, KeysFollowFocus, Focus

LEMMA LayerHelpersKeepSeat ==
  ASSUME TypeOK, SeatHasKeyboard, OneKeyboardOwner, KeysFollowFocus,
         NEW l \in Layers, FocusLayer(l) \/ HandBack(l), UNCHANGED steady
  PROVE  KeysFollowFocus'
<1>1. steady => seatKeyboard # None
  BY NoneAssumption DEF SeatHasKeyboard
<1>2. CASE FocusLayer(l)
  BY <1>1, <1>2 DEF FocusLayer, KeysFollowFocus
<1>3. CASE HandBack(l)
  BY <1>1, <1>3, NoneAssumption
  DEF HandBack, Focus, KeysFollowFocus, OneKeyboardOwner, TypeOK, focusVars
<1> QED
  BY <1>2, <1>3

(* Keys reach the window the server calls focused, as long as the keyboard *)
(* stays.                                                                  *)
THEOREM KeysReachFocused == Spec => []KeysFollowFocus
<1>1. Init => KeysFollowFocus
  BY DEF Init, KeysFollowFocus
<1>2. TypeOK /\ NoDangling /\ OneKeyboardOwner /\ SeatHasKeyboard /\ KeysFollowFocus
        /\ [Next]_vars => KeysFollowFocus'
  <2> SUFFICES ASSUME TypeOK, NoDangling, OneKeyboardOwner, SeatHasKeyboard,
                      KeysFollowFocus, [Next]_vars
               PROVE  KeysFollowFocus'
    OBVIOUS
  <2> USE DEF clientVars, grabVars, keyboardVars
  <2>1. ASSUME NEW t \in Windows, WindowStep(t) PROVE KeysFollowFocus'
    <3>1. CASE MapToplevel(t) \/ RequestMaximize(t) \/ Press(t)
      BY <3>1, FocusTakesSeat DEF MapToplevel, RequestMaximize, Press
    <3>2. CASE InitialCommit(t) \/ \E mode \in {"move", "resize"} : BeginInteractive(t, mode)
      BY <3>2 DEF InitialCommit, BeginInteractive, KeysFollowFocus, focusVars
    <3>3. CASE UnmapToplevel(t) \/ DestroyToplevel(t)
      BY <3>3 DEF UnmapToplevel, DestroyToplevel, KeysFollowFocus
    <3> QED
      BY <2>1, <3>1, <3>2, <3>3 DEF WindowStep
  <2>2. ASSUME NEW l \in Layers, LayerStep(l) PROVE KeysFollowFocus'
    <3>1. CASE AddLayer(l) \/ ConfigureLayer(l) \/ UnmapLayer(l)
      BY <3>1 DEF AddLayer, ConfigureLayer, UnmapLayer, KeysFollowFocus, focusVars
    <3>2. CASE \E k \in BOOLEAN : MapLayer(l, k) \/ CommitLayer(l, k)
      BY <3>2, LayerHelpersKeepSeat DEF MapLayer, CommitLayer
    <3>3. CASE DestroyLayer(l)
      BY <3>3, LayerHelpersKeepSeat DEF DestroyLayer
    <3> QED
      BY <2>2, <3>1, <3>2, <3>3 DEF LayerStep
  <2>3. ASSUME NEW k \in Keyboards, KeyboardStep(k) PROVE KeysFollowFocus'
    BY <2>3 DEF KeyboardStep, AddKeyboard, RemoveKeyboard, UseKeyboard,
                KeysFollowFocus, focusVars
  <2>4. CASE DestroySurface
    \* a focused window is live, so the surface that goes is not its own
    BY <2>4 DEF DestroySurface, KeysFollowFocus, NoDangling
  <2>5. CASE AddToplevel \/ Release
    BY <2>5 DEF AddToplevel, Release, KeysFollowFocus, focusVars
  <2>6. CASE CycleWindows
    BY <2>6, FocusTakesSeat DEF CycleWindows, Alive
  <2>7. CASE UNCHANGED vars
    BY <2>7 DEF vars, KeysFollowFocus, focusVars
  <2> QED
    BY <2>1, <2>2, <2>3, <2>4, <2>5, <2>6, <2>7 DEF Next
<1> QED
  BY <1>1, <1>2, TypeCorrect, PointersLive, OneOwner, KeyboardStays, PTL DEF Spec

(* Whatever takes the keyboard from a panel gives it to the last focused   *)
(* window, if there is one (on_layer_commit, remove_layer, focus).         *)
THEOREM PanelsGiveBack == Spec => KeyboardReturns
<1> DEFINE Return == steady /\ focusedLayer # None /\ focusedLayer' = None
                       /\ lastFocused' # None
                       => focused' = lastFocused' /\ seatFocus' = lastFocused'
<1>1. TypeOK /\ SeatHasKeyboard /\ [Next]_vars => [Return]_vars
  <2> SUFFICES ASSUME TypeOK, SeatHasKeyboard, [Next]_vars PROVE Return
    OBVIOUS
  <2> USE DEF clientVars, grabVars, keyboardVars
  <2>1. ASSUME NEW t, NEW p, Focus(t, p) PROVE Return
    BY <2>1, NoneAssumption DEF Focus, SeatHasKeyboard
  <2>2. ASSUME NEW l \in Layers, FocusLayer(l) \/ HandBack(l) PROVE Return
    BY <2>2, <2>1, NoneAssumption DEF FocusLayer, HandBack, focusVars
  <2>3. ASSUME NEW t \in Windows, WindowStep(t) PROVE Return
    BY <2>3, <2>1 DEF WindowStep, InitialCommit, MapToplevel, UnmapToplevel,
       DestroyToplevel, RequestMaximize, BeginInteractive,
       Press, focusVars
  <2>4. ASSUME NEW l \in Layers, LayerStep(l) PROVE Return
    BY <2>4, <2>2 DEF LayerStep, AddLayer, ConfigureLayer, MapLayer, CommitLayer,
       UnmapLayer, DestroyLayer, focusVars
  <2>5. ASSUME NEW k \in Keyboards, KeyboardStep(k) PROVE Return
    BY <2>5 DEF KeyboardStep, AddKeyboard, RemoveKeyboard, UseKeyboard, focusVars
  <2>6. CASE CycleWindows
    BY <2>6, <2>1 DEF CycleWindows
  <2>7. CASE AddToplevel \/ DestroySurface \/ Release
    BY <2>7 DEF AddToplevel, DestroySurface, Release, focusVars
  <2>8. CASE UNCHANGED vars
    BY <2>8 DEF vars, focusVars
  <2> QED
    BY <2>3, <2>4, <2>5, <2>6, <2>7, <2>8 DEF Next
<1> QED
  BY <1>1, TypeCorrect, KeyboardStays, PTL DEF Spec, KeyboardReturns

----------------------------------------------------------------------------
(* The policy of KeyboardPolicy, step by step: each helper takes, borrows, *)
(* gives back or does nothing, and so does each handler.                   *)
Owner == IF focusedLayer # None THEN focusedLayer ELSE focused

LEMMA FocusTakes ==
  ASSUME TypeOK, NoDangling, NEW t \in Alive, NEW p, Focus(t, p)
  PROVE  Policy!Take(t) \/ UNCHANGED <<Owner, lastFocused>>
BY DEF Focus, Policy!Take, Owner

LEMMA FocusLayerBorrows ==
  ASSUME TypeOK, NoDangling, NEW l \in LiveLayers, FocusLayer(l)
  PROVE  Policy!Borrow(l) \/ UNCHANGED <<Owner, lastFocused>>
BY NoneAssumption DEF FocusLayer, focusVars, Policy!Borrow, Owner, LiveLayers

LEMMA HandBackGivesBack ==
  ASSUME TypeOK, NoDangling, OneKeyboardOwner, NEW l \in LiveLayers, HandBack(l)
  PROVE  Policy!GiveBack \/ UNCHANGED <<Owner, lastFocused>>
<1>1. CASE focusedLayer # l
  BY <1>1 DEF HandBack, focusVars, Owner
<1>2. CASE focusedLayer = l /\ lastFocused = None
  BY <1>2, NoneAssumption
  DEF HandBack, Policy!GiveBack, OneKeyboardOwner, LiveLayers
<1>3. CASE focusedLayer = l /\ lastFocused # None
  BY <1>3, NoneAssumption DEF HandBack, Focus, Policy!GiveBack, LiveLayers
<1> QED
  BY <1>1, <1>2, <1>3

(* The windows that go: the pointers that named one are null afterwards.   *)
LEMMA DestroyForgets ==
  ASSUME TypeOK, OneKeyboardOwner, NEW t \in Windows, DestroyToplevel(t)
  PROVE  Policy!Forget(t)
<1>1. focusedLayer # t
  BY LayersAssumption, NoneAssumption DEF TypeOK, Windows
<1> QED
  BY <1>1, NoneAssumption DEF DestroyToplevel, Policy!Forget, TypeOK, Alive,
     OneKeyboardOwner

(* The keyboard has one owner that exists; windows take it, panels borrow  *)
(* it, and nothing else the compositor does moves it (focus, focus_layer,  *)
(* on_layer_commit, remove_layer, on_toplevel_unmap, remove_toplevel).     *)
THEOREM PolicyKept == Spec => KeepsPolicy
<1>1. Init => Policy!Init
  BY DEF Init, Policy!Init
<1>2. TypeOK /\ NoDangling /\ OneKeyboardOwner /\ [Next]_vars =>
        Policy!Next \/ UNCHANGED <<Owner, lastFocused>>
  <2> SUFFICES ASSUME TypeOK, NoDangling, OneKeyboardOwner, [Next]_vars
               PROVE  Policy!Next \/ UNCHANGED <<Owner, lastFocused>>
    OBVIOUS
  <2>1. ASSUME NEW t \in Alive, NEW p, Focus(t, p)
        PROVE  Policy!Next \/ UNCHANGED <<Owner, lastFocused>>
    BY <2>1, FocusTakes DEF Policy!Next, Alive
  <2>2. ASSUME NEW l \in LiveLayers, FocusLayer(l) \/ HandBack(l)
        PROVE  Policy!Next \/ UNCHANGED <<Owner, lastFocused>>
    BY <2>2, FocusLayerBorrows, HandBackGivesBack DEF Policy!Next, LiveLayers
  <2>3. ASSUME NEW t \in Windows, WindowStep(t)
        PROVE  Policy!Next \/ UNCHANGED <<Owner, lastFocused>>
    <3>1. CASE InitialCommit(t) \/ \E mode \in {"move", "resize"} : BeginInteractive(t, mode)
      BY <3>1 DEF InitialCommit, BeginInteractive, focusVars, Owner
    <3>2. CASE MapToplevel(t) \/ RequestMaximize(t) \/ Press(t)
      BY <2>1, <3>2 DEF MapToplevel, RequestMaximize, Press, Alive
    <3>3. CASE UnmapToplevel(t)
      BY <3>3, NoneAssumption
      DEF UnmapToplevel, Owner, Policy!Next, Policy!LetGo, OneKeyboardOwner, Alive
    <3>4. CASE DestroyToplevel(t)
      BY <3>4, DestroyForgets DEF Policy!Next
    <3> QED
      BY <2>3, <3>1, <3>2, <3>3, <3>4 DEF WindowStep
  <2>4. ASSUME NEW l \in Layers, LayerStep(l)
        PROVE  Policy!Next \/ UNCHANGED <<Owner, lastFocused>>
    <3>1. CASE AddLayer(l) \/ ConfigureLayer(l) \/ UnmapLayer(l)
      BY <3>1 DEF AddLayer, ConfigureLayer, UnmapLayer, focusVars, Owner
    <3>2. CASE \/ \E k \in BOOLEAN : MapLayer(l, k) \/ CommitLayer(l, k)
               \/ DestroyLayer(l)
      BY <2>2, <3>2 DEF MapLayer, CommitLayer, DestroyLayer, LiveLayers
    <3> QED
      BY <2>4, <3>1, <3>2 DEF LayerStep
  <2>5. CASE CycleWindows
    BY <2>1, <2>5 DEF CycleWindows
  <2>6. ASSUME NEW k \in Keyboards, KeyboardStep(k)
        PROVE  UNCHANGED <<Owner, lastFocused>>
    BY <2>6 DEF KeyboardStep, AddKeyboard, RemoveKeyboard, UseKeyboard, focusVars, Owner
  <2>7. CASE AddToplevel \/ DestroySurface \/ Release \/ UNCHANGED vars
    BY <2>7 DEF AddToplevel, DestroySurface, Release, vars, focusVars, Owner
  <2> QED
    BY <2>3, <2>4, <2>5, <2>6, <2>7 DEF Next
<1>3. NoDangling => Policy!Exists
  BY DEF NoDangling, Policy!Exists
<1> QED
  BY <1>1, <1>2, <1>3, TypeCorrect, PointersLive, OneOwner, PTL
  DEF Spec, KeepsPolicy, Policy!Spec, Owner
============================================================================
