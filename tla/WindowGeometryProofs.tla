------------------------ MODULE WindowGeometryProofs ------------------------
(***************************************************************************)
(* Theorems about WindowGeometry, for any windows, panels, zones, screens  *)
(* and positions, and without the bound on acts being reached.             *)
(***************************************************************************)
EXTENDS WindowGeometry, TLAPS, FiniteSetTheorems, SequenceTheorems

(* The cascade of add_toplevel is a position, however many windows live.   *)
LEMMA CascadeIsPosition == 40 + 32 * (Cardinality(Live) % 8) \in Int
<1>1. IsFiniteSet(Live)
  BY WindowsAssumption, FS_Subset DEF Live
<1>2. Cardinality(Live) \in Nat
  BY <1>1, FS_CardinalityType
<1> QED
  BY <1>2

(* An entrance is over exactly where it leads.                             *)
LEMMA OffsetEnds ==
  /\ \A t \in 0 .. Ticks : Offset(t) \in Int
  /\ Offset(Ticks) = 0
<1>1. Ticks \in Nat /\ Ticks > 0
  BY TicksAssumption
<1>2. \A k \in Nat \ {0} : (14 * k) \div k = 14
  OBVIOUS
<1> QED
  BY <1>1, <1>2 DEF Offset, Lift

(* The area a layer leaves, and the one they leave together, is never      *)
(* empty (configure_layer, apply_output_config).                           *)
LEMMA AreaIsArea ==
  ASSUME TypeOK
  PROVE  /\ \A p \in Panels, z \in Zones : Configure(p, z, screen, usable) \in [y : Nat, h : Nat \ {0}]
         /\ \A h \in Screens : ConfigureAll(h) => usable' \in [y : Nat, h : Nat \ {0}]
<1>1. \A p \in Panels, z \in Nat, h \in Nat : h - z > 0 => Without(p, z, h) \in [y : Nat, h : Nat \ {0}]
  BY DEF Without
<1>2. Screens \subseteq Nat \ {0} /\ Zones \subseteq Nat
  BY ScreensAssumption, ZonesAssumption
<1>3. \A n \in DOMAIN layers : layers[n] \in Panels /\ zone[layers[n]] \in Nat
  BY DEF TypeOK, AreaOK
<1> QED
  BY <1>1, <1>2, <1>3 DEF TypeOK, AreaOK, Configure, ConfigureAll, Whole

(* A client draws a height, asked for or its own.                          *)
LEMMA HeightsAreHeights == TypeOK => \A w \in Windows : \A h \in Heights(w) : h \in Nat
<1> SUFFICES ASSUME TypeOK, NEW w \in Windows, NEW h \in Heights(w) PROVE h \in Nat
  OBVIOUS
<1>1. CASE asked[w] = 0
  BY <1>1, OwnAssumption DEF Heights
<1>2. CASE asked[w] # 0
  BY <1>2 DEF Heights, TypeOK, WindowsOK
<1> QED
  BY <1>1, <1>2

(* The held edge never passes the other (process_cursor_resize).           *)
LEMMA EdgesApart ==
  ASSUME TypeOK, NEW border \in Int, grab.mode \in {"top", "bottom"}
  PROVE  /\ TopEdge(border) \in Int /\ BottomEdge(border) \in Int
         /\ BottomEdge(border) - TopEdge(border) \in Nat
  BY DEF TypeOK, GrabOK, TopEdge, BottomEdge, Greater

(* While an entrance is under way its time is from 0 to Ticks.             *)
LEMMA EntrancesRun ==
  TypeOK => \A w \in opening : entrance[w].to \in Int /\ entrance[w].elapsed \in 0 .. Ticks
  BY DEF TypeOK, EntranceOK, opening

(* Every handler writes heights and positions.                             *)
LEMMA WindowsTyped ==
  ASSUME TypeOK, [Next]_vars
  PROVE  WindowsOK'
<1> USE DEF TypeOK, clientVars, askVars, placeVars, entranceVars, maxVars, grabVars,
            areaVars
<1>1. ASSUME NEW w \in Windows, AddToplevel(w) PROVE WindowsOK'
  BY <1>1, CascadeIsPosition DEF AddToplevel, WindowsOK
<1>2. ASSUME NEW w \in Windows, InitialCommit(w) PROVE WindowsOK'
  BY <1>2 DEF InitialCommit, WindowsOK
<1>3. ASSUME NEW w \in Windows, NEW h \in Heights(w), Draw(w, h)
      PROVE  WindowsOK'
  BY <1>3, HeightsAreHeights DEF Draw, WindowsOK
<1>4. ASSUME NEW w \in Windows, NEW h \in Heights(w), MapToplevel(w, h)
      PROVE  WindowsOK'
  <2>1. h \in Nat
    BY HeightsAreHeights DEF TypeOK
  <2>2. node' \in [Windows -> Int]
    BY <1>4 DEF MapToplevel, WindowsOK, Lift
  <2> QED
    BY <1>4, <2>1, <2>2 DEF MapToplevel, WindowsOK
<1>5. ASSUME NEW w \in Windows, UnmapToplevel(w) PROVE WindowsOK'
  BY <1>5 DEF UnmapToplevel, WindowsOK
<1>6. ASSUME NEW w \in Windows, DestroyToplevel(w) PROVE WindowsOK'
  BY <1>6 DEF DestroyToplevel, WindowsOK, Whole
<1>7. CASE Tick
  BY <1>7 DEF Tick, WindowsOK
<1>8. CASE Animate
  <2>1. \A w \in opening : Position(w) \in Int
    BY EntrancesRun, OffsetEnds DEF Position
  <2> QED
    BY <1>8, <2>1 DEF Animate, WindowsOK, opening
<1>9. ASSUME NEW w \in Windows, Maximize(w) PROVE WindowsOK'
  BY <1>9 DEF Maximize, WindowsOK, AreaOK
<1>10. ASSUME NEW w \in Windows, Unmaximize(w) PROVE WindowsOK'
  BY <1>10 DEF Unmaximize, WindowsOK
<1>11. ASSUME NEW w \in Windows, NEW c \in Cursors, BeginMove(w, c)
      PROVE  WindowsOK'
  BY <1>11 DEF BeginMove, WindowsOK
<1>12. ASSUME NEW w \in Windows, NEW edge \in {"top", "bottom"}, NEW c \in Cursors,
             BeginResize(w, edge, c)
      PROVE  WindowsOK'
  BY <1>12 DEF BeginResize, WindowsOK
<1>13. ASSUME NEW c \in Cursors, MoveCursor(c) PROVE WindowsOK'
  <2>1. c \in Int /\ grab.offset \in Int
    BY OwnAssumption DEF GrabOK
  <2>2. CASE DragWindow(c)
    <3>1. c - grab.offset \in Int
      BY <2>1
    <3>2. node' \in [Windows -> Int] /\ home' \in [Windows -> Int]
      BY <2>2, <3>1 DEF DragWindow, Put, WindowsOK
    <3> QED
      BY <1>13, <2>2, <3>2 DEF MoveCursor, DragWindow, WindowsOK
  <2>3. CASE DragEdge(c)
    <3>1. /\ TopEdge(c - grab.offset) \in Int
          /\ BottomEdge(c - grab.offset) - TopEdge(c - grab.offset) \in Nat
      BY <2>1, <2>3, EdgesApart DEF TypeOK, DragEdge
    <3> QED
      BY <1>13, <2>3, <3>1 DEF MoveCursor, DragEdge, Put, WindowsOK
  <2> QED
    BY <1>13, <2>2, <2>3 DEF MoveCursor
<1>14. CASE Release
  BY <1>14 DEF Release, WindowsOK
<1>15. ASSUME NEW h \in Screens, ApplyOutputConfig(h) PROVE WindowsOK'
  <2>1. usable' \in [y : Nat, h : Nat \ {0}]
    BY <1>15, AreaIsArea DEF ApplyOutputConfig, TypeOK
  <2>2. \A y \in Int : Clamp(y, usable') \in Int
    BY <2>1 DEF Clamp, Greater, Keep, Back
  <2>3. node' \in [Windows -> Int]
    BY <1>15, <2>1, <2>2 DEF ApplyOutputConfig, WindowsOK
  <2> QED
    BY <1>15, <2>1, <2>3 DEF ApplyOutputConfig, WindowsOK
<1>16. ASSUME NEW p \in Panels, AddLayer(p) PROVE WindowsOK'
  BY <1>16 DEF AddLayer, WindowsOK
<1>17. ASSUME NEW p \in Panels, NEW z \in Zones, CommitLayer(p, z)
      PROVE  WindowsOK'
  BY <1>17 DEF CommitLayer, WindowsOK
<1>18. ASSUME NEW p \in Panels, RemoveLayer(p) PROVE WindowsOK'
  BY <1>18 DEF RemoveLayer, WindowsOK
<1>19. CASE UNCHANGED vars
  BY <1>19 DEF vars, WindowsOK
<1> QED
  BY <1>1, <1>2, <1>3, <1>4, <1>5, <1>6, <1>7, <1>8, <1>9, <1>10,
     <1>11, <1>12, <1>13, <1>14, <1>15, <1>16, <1>17, <1>18, <1>19,
     HandledAssumption DEF Next, FreeStep, BoundedStep

(* The lists name live windows: destroy takes the window off all of them.  *)
LEMMA ListsAreOfLive ==
  ASSUME TypeOK, [Next]_vars
  PROVE  ListsOK'
<1> USE DEF TypeOK, clientVars, askVars, placeVars, entranceVars, maxVars, grabVars,
            areaVars
<1>1. ASSUME NEW w \in Windows, AddToplevel(w) PROVE ListsOK'
  BY <1>1 DEF AddToplevel, ListsOK, Live, opening, Still
<1>2. ASSUME NEW w \in Windows, InitialCommit(w) PROVE ListsOK'
  BY <1>2 DEF InitialCommit, ListsOK, Live, opening, Still
<1>3. ASSUME NEW w \in Windows, NEW h \in Heights(w), Draw(w, h) PROVE ListsOK'
  BY <1>3 DEF Draw, ListsOK, Live, opening, Still
<1>4. ASSUME NEW w \in Windows, NEW h \in Heights(w), MapToplevel(w, h)
      PROVE  ListsOK'
  <2>1. Live' = Live /\ w \in Live
    BY <1>4 DEF MapToplevel, Live, WindowsOK
  <2>2. opening' \subseteq opening \cup {w}
    <3>1. CASE w \in opened \/ Reduced
      BY <1>4, <3>1 DEF MapToplevel, opening
    <3>2. CASE ~(w \in opened \/ Reduced)
      BY <1>4, <3>2 DEF MapToplevel, opening, EntranceOK
    <3> QED
      BY <3>1, <3>2
  <2> QED
    BY <1>4, <2>1, <2>2 DEF MapToplevel, ListsOK
<1>5. ASSUME NEW w \in Windows, UnmapToplevel(w) PROVE ListsOK'
  BY <1>5 DEF UnmapToplevel, ListsOK, Live, opening, Still
<1>6. ASSUME NEW w \in Windows, DestroyToplevel(w) PROVE ListsOK'
  <2>1. Live' = Live \ {w}
    BY <1>6 DEF DestroyToplevel, Live, WindowsOK
  <2>2. opening' = opening \ {w}
    BY <1>6 DEF DestroyToplevel, opening, EntranceOK
  <2> QED
    BY <1>6, <2>1, <2>2 DEF DestroyToplevel, ListsOK
<1>7. CASE Tick
  BY <1>7 DEF Tick, ListsOK, Live, opening, Still
<1>8. CASE Animate
  BY <1>8 DEF Animate, ListsOK, Live, opening, Still
<1>9. ASSUME NEW w \in Windows, Maximize(w) PROVE ListsOK'
  BY <1>9 DEF Maximize, ListsOK, Live, opening, Still, Configurable
<1>10. ASSUME NEW w \in Windows, Unmaximize(w) PROVE ListsOK'
  BY <1>10 DEF Unmaximize, ListsOK, Live, opening, Still, Configurable
<1>11. ASSUME NEW w \in Windows, NEW c \in Cursors, BeginMove(w, c)
      PROVE  ListsOK'
  BY <1>11 DEF BeginMove, ListsOK, Live, opening, Still, Configurable
<1>12. ASSUME NEW w \in Windows, NEW edge \in {"top", "bottom"}, NEW c \in Cursors,
             BeginResize(w, edge, c)
      PROVE  ListsOK'
  BY <1>12 DEF BeginResize, ListsOK, Live, opening, Still, Configurable
<1>13. ASSUME NEW c \in Cursors, MoveCursor(c) PROVE ListsOK'
  <2>1. Live' = Live /\ opening' = opening /\ cut' \subseteq cut
    BY <1>13 DEF MoveCursor, DragWindow, DragEdge, Put, Live, opening
  <2>2. pending' \subseteq Live
    BY <1>13 DEF MoveCursor, DragWindow, DragEdge, ListsOK, GrabOK, NoGrab
  <2> QED
    BY <1>13, <2>1, <2>2 DEF MoveCursor, ListsOK
<1>14. CASE Release
  BY <1>14 DEF Release, ListsOK, Live, opening, Still
<1>15. ASSUME NEW h \in Screens, ApplyOutputConfig(h) PROVE ListsOK'
  BY <1>15 DEF ApplyOutputConfig, ListsOK, Live, opening, Still, Configurable
<1>16. ASSUME NEW p \in Panels, AddLayer(p) PROVE ListsOK'
  BY <1>16 DEF AddLayer, ListsOK, Live, opening, Still
<1>17. ASSUME NEW p \in Panels, NEW z \in Zones, CommitLayer(p, z)
      PROVE  ListsOK'
  BY <1>17 DEF CommitLayer, ListsOK, Live, opening, Still
<1>18. ASSUME NEW p \in Panels, RemoveLayer(p) PROVE ListsOK'
  BY <1>18 DEF RemoveLayer, ListsOK, Live, opening, Still
<1>19. CASE UNCHANGED vars
  BY <1>19 DEF vars, ListsOK, Live, opening, Still
<1> QED
  BY <1>1, <1>2, <1>3, <1>4, <1>5, <1>6, <1>7, <1>8, <1>9, <1>10,
     <1>11, <1>12, <1>13, <1>14, <1>15, <1>16, <1>17, <1>18, <1>19,
     HandledAssumption DEF Next, FreeStep, BoundedStep

(* An entrance keeps its shape.                                            *)
LEMMA EntranceTyped ==
  ASSUME TypeOK, [Next]_vars
  PROVE  EntranceOK'
<1> USE DEF TypeOK, clientVars, askVars, placeVars, entranceVars, maxVars, grabVars,
            areaVars
<1>1. ASSUME NEW w \in Windows, AddToplevel(w) PROVE EntranceOK'
  BY <1>1 DEF AddToplevel, EntranceOK, WindowsOK, Still
<1>2. ASSUME NEW w \in Windows, InitialCommit(w) PROVE EntranceOK'
  BY <1>2 DEF InitialCommit, EntranceOK, WindowsOK, Still
<1>3. ASSUME NEW w \in Windows, NEW h \in Heights(w), Draw(w, h)
      PROVE  EntranceOK'
  BY <1>3 DEF Draw, EntranceOK, WindowsOK, Still
<1>4. ASSUME NEW w \in Windows, NEW h \in Heights(w), MapToplevel(w, h)
      PROVE  EntranceOK'
  <2>1. CASE w \in opened \/ Reduced
    BY <1>4, <2>1 DEF MapToplevel, EntranceOK
  <2>2. CASE ~(w \in opened \/ Reduced)
    <3>1. [to |-> node[w], elapsed |-> 0] \in [to : Int, elapsed : 0 .. Ticks]
      BY TicksAssumption DEF WindowsOK
    <3> QED
      BY <1>4, <2>2, <3>1 DEF MapToplevel, EntranceOK
  <2> QED
    BY <2>1, <2>2
<1>5. ASSUME NEW w \in Windows, UnmapToplevel(w) PROVE EntranceOK'
  BY <1>5 DEF UnmapToplevel, EntranceOK, WindowsOK, Still
<1>6. ASSUME NEW w \in Windows, DestroyToplevel(w) PROVE EntranceOK'
  BY <1>6 DEF DestroyToplevel, EntranceOK, WindowsOK, Still
<1>7. CASE Tick
  <2>1. ASSUME NEW w \in Windows
        PROVE  entrance'[w] \in [to : Int, elapsed : 0 .. Ticks] \cup {Still}
    <3>1. CASE entrance[w].elapsed \in 0 .. Ticks - 1
      <5>1. entrance[w].to \in Int
        BY <3>1 DEF EntranceOK, Still
      <5> QED
        BY <1>7, <3>1, <5>1, TicksAssumption DEF Tick
    <3>2. CASE entrance[w].elapsed \notin 0 .. Ticks - 1
      BY <1>7, <3>2 DEF Tick, EntranceOK
    <3> QED
      BY <3>1, <3>2
  <2> QED
    BY <1>7, <2>1 DEF Tick, EntranceOK
<1>8. CASE Animate
  BY <1>8 DEF Animate, EntranceOK, AnyLeft
<1>9. ASSUME NEW w \in Windows, Maximize(w) PROVE EntranceOK'
  BY <1>9 DEF Maximize, EntranceOK, WindowsOK, Still
<1>10. ASSUME NEW w \in Windows, Unmaximize(w) PROVE EntranceOK'
  BY <1>10 DEF Unmaximize, EntranceOK, WindowsOK, Still
<1>11. ASSUME NEW w \in Windows, NEW c \in Cursors, BeginMove(w, c)
      PROVE  EntranceOK'
  BY <1>11 DEF BeginMove, EntranceOK, WindowsOK, Still
<1>12. ASSUME NEW w \in Windows, NEW edge \in {"top", "bottom"}, NEW c \in Cursors,
             BeginResize(w, edge, c)
      PROVE  EntranceOK'
  BY <1>12 DEF BeginResize, EntranceOK, WindowsOK, Still
<1>13. ASSUME NEW c \in Cursors, MoveCursor(c) PROVE EntranceOK'
  BY <1>13 DEF MoveCursor, EntranceOK, WindowsOK, Still
<1>14. CASE Release
  BY <1>14 DEF Release, EntranceOK, WindowsOK, Still
<1>15. ASSUME NEW h \in Screens, ApplyOutputConfig(h) PROVE EntranceOK'
  BY <1>15 DEF ApplyOutputConfig, EntranceOK, WindowsOK, Still
<1>16. ASSUME NEW p \in Panels, AddLayer(p) PROVE EntranceOK'
  BY <1>16 DEF AddLayer, EntranceOK, WindowsOK, Still
<1>17. ASSUME NEW p \in Panels, NEW z \in Zones, CommitLayer(p, z)
      PROVE  EntranceOK'
  BY <1>17 DEF CommitLayer, EntranceOK, WindowsOK, Still
<1>18. ASSUME NEW p \in Panels, RemoveLayer(p) PROVE EntranceOK'
  BY <1>18 DEF RemoveLayer, EntranceOK, WindowsOK, Still
<1>19. CASE UNCHANGED vars
  BY <1>19 DEF vars, EntranceOK, WindowsOK, Still
<1> QED
  BY <1>1, <1>2, <1>3, <1>4, <1>5, <1>6, <1>7, <1>8, <1>9, <1>10,
     <1>11, <1>12, <1>13, <1>14, <1>15, <1>16, <1>17, <1>18, <1>19,
     HandledAssumption DEF Next, FreeStep, BoundedStep

(* The grab is of a live window.                                           *)
LEMMA GrabTyped ==
  ASSUME TypeOK, [Next]_vars
  PROVE  GrabOK'
<1> USE DEF TypeOK, clientVars, askVars, placeVars, entranceVars, maxVars, grabVars,
            areaVars
<1>1. ASSUME NEW w \in Windows, AddToplevel(w) PROVE GrabOK'
  BY <1>1 DEF AddToplevel, GrabOK, Live, WindowsOK
<1>2. ASSUME NEW w \in Windows, InitialCommit(w) PROVE GrabOK'
  BY <1>2 DEF InitialCommit, GrabOK, Live, WindowsOK
<1>3. ASSUME NEW w \in Windows, NEW h \in Heights(w), Draw(w, h) PROVE GrabOK'
  BY <1>3 DEF Draw, GrabOK, Live, WindowsOK
<1>4. ASSUME NEW w \in Windows, NEW h \in Heights(w), MapToplevel(w, h)
      PROVE  GrabOK'
  BY <1>4 DEF MapToplevel, GrabOK, Live, WindowsOK
<1>5. ASSUME NEW w \in Windows, UnmapToplevel(w) PROVE GrabOK'
  BY <1>5 DEF UnmapToplevel, GrabOK, Live, WindowsOK
<1>6. ASSUME NEW w \in Windows, DestroyToplevel(w) PROVE GrabOK'
  <2>1. Live' = Live \ {w}
    BY <1>6 DEF DestroyToplevel, Live, WindowsOK
  <2>2. CASE grab.window = w
    BY <1>6, <2>2, NoneAssumption DEF DestroyToplevel, GrabWithout, NoGrab, GrabOK
  <2>3. CASE grab.window # w
    BY <1>6, <2>1, <2>3 DEF DestroyToplevel, GrabWithout, GrabOK
  <2> QED
    BY <2>2, <2>3
<1>7. CASE Tick
  BY <1>7 DEF Tick, GrabOK, Live, WindowsOK
<1>8. CASE Animate
  BY <1>8 DEF Animate, GrabOK, Live, WindowsOK
<1>9. ASSUME NEW w \in Windows, Maximize(w) PROVE GrabOK'
  BY <1>9 DEF Maximize, GrabOK, Live, Configurable, WindowsOK
<1>10. ASSUME NEW w \in Windows, Unmaximize(w) PROVE GrabOK'
  BY <1>10 DEF Unmaximize, GrabOK, Live, Configurable, WindowsOK
<1>11. ASSUME NEW w \in Windows, NEW c \in Cursors, BeginMove(w, c)
      PROVE  GrabOK'
  <2>1. w \in Live /\ Live' = Live
    BY <1>11 DEF BeginMove, Live, Configurable
  <2>2. c - node[w] \in Int
    BY OwnAssumption DEF WindowsOK
  <2> QED
    <3>1. grab' \in [mode : {"passthrough", "move", "top", "bottom"},
                     window : Live' \cup {None}, offset : Int, top : Int, bottom : Int]
      BY <1>11, <2>1, <2>2 DEF BeginMove
    <3>2. grab'.mode # "passthrough" /\ grab'.window = w
          /\ grab'.top <= grab'.bottom /\ steered' = FALSE
      BY <1>11, <2>2 DEF BeginMove
    <3> QED
      BY <2>1, <3>1, <3>2 DEF GrabOK
<1>12. ASSUME NEW w \in Windows, NEW edge \in {"top", "bottom"}, NEW c \in Cursors,
             BeginResize(w, edge, c)
      PROVE  GrabOK'
  <2>1. w \in Live /\ Live' = Live
    BY <1>12 DEF BeginResize, Live, Configurable
  <2>2. node[w] \in Int /\ size[w] \in Nat /\ c \in Int
    BY OwnAssumption DEF WindowsOK
  <2> QED
    <3>1. grab' \in [mode : {"passthrough", "move", "top", "bottom"},
                     window : Live' \cup {None}, offset : Int, top : Int, bottom : Int]
      BY <1>12, <2>1, <2>2 DEF BeginResize
    <3>2. grab'.mode # "passthrough" /\ grab'.window = w
          /\ grab'.top <= grab'.bottom /\ steered' = FALSE
      BY <1>12, <2>2 DEF BeginResize
    <3> QED
      BY <2>1, <3>1, <3>2 DEF GrabOK
<1>13. ASSUME NEW c \in Cursors, MoveCursor(c) PROVE GrabOK'
  <2>1. Live' = Live
    BY <1>13 DEF MoveCursor, Live
  <2>2. grab' = grab /\ steered' \in BOOLEAN
    BY <1>13 DEF MoveCursor, DragWindow, DragEdge, GrabOK
  <2> QED
    BY <2>1, <2>2 DEF GrabOK
<1>14. CASE Release
  BY <1>14 DEF Release, GrabOK, Live, WindowsOK, NoGrab
<1>15. ASSUME NEW h \in Screens, ApplyOutputConfig(h) PROVE GrabOK'
  BY <1>15 DEF ApplyOutputConfig, GrabOK, Live, Configurable, WindowsOK
<1>16. ASSUME NEW p \in Panels, AddLayer(p) PROVE GrabOK'
  BY <1>16 DEF AddLayer, GrabOK, Live, WindowsOK
<1>17. ASSUME NEW p \in Panels, NEW z \in Zones, CommitLayer(p, z) PROVE GrabOK'
  BY <1>17 DEF CommitLayer, GrabOK, Live, WindowsOK
<1>18. ASSUME NEW p \in Panels, RemoveLayer(p) PROVE GrabOK'
  BY <1>18 DEF RemoveLayer, GrabOK, Live, WindowsOK
<1>19. CASE UNCHANGED vars
  BY <1>19 DEF vars, GrabOK, Live, WindowsOK
<1> QED
  BY <1>1, <1>2, <1>3, <1>4, <1>5, <1>6, <1>7, <1>8, <1>9, <1>10,
     <1>11, <1>12, <1>13, <1>14, <1>15, <1>16, <1>17, <1>18, <1>19,
     HandledAssumption DEF Next, FreeStep, BoundedStep

(* The area is never empty.                                                *)
LEMMA AreaTyped ==
  ASSUME TypeOK, [Next]_vars
  PROVE  AreaOK'
<1> USE DEF TypeOK, clientVars, askVars, placeVars, entranceVars, maxVars, grabVars,
            areaVars
<1>1. ASSUME NEW w \in Windows, AddToplevel(w) PROVE AreaOK'
  BY <1>1 DEF AddToplevel, AreaOK
<1>2. ASSUME NEW w \in Windows, InitialCommit(w) PROVE AreaOK'
  BY <1>2 DEF InitialCommit, AreaOK
<1>3. ASSUME NEW w \in Windows, NEW h \in Heights(w), Draw(w, h) PROVE AreaOK'
  BY <1>3 DEF Draw, AreaOK
<1>4. ASSUME NEW w \in Windows, NEW h \in Heights(w), MapToplevel(w, h)
      PROVE  AreaOK'
  BY <1>4 DEF MapToplevel, AreaOK
<1>5. ASSUME NEW w \in Windows, UnmapToplevel(w) PROVE AreaOK'
  BY <1>5 DEF UnmapToplevel, AreaOK
<1>6. ASSUME NEW w \in Windows, DestroyToplevel(w) PROVE AreaOK'
  BY <1>6 DEF DestroyToplevel, AreaOK
<1>7. CASE Tick
  BY <1>7 DEF Tick, AreaOK
<1>8. CASE Animate
  BY <1>8 DEF Animate, AreaOK
<1>9. ASSUME NEW w \in Windows, Maximize(w) PROVE AreaOK'
  BY <1>9 DEF Maximize, AreaOK
<1>10. ASSUME NEW w \in Windows, Unmaximize(w) PROVE AreaOK'
  BY <1>10 DEF Unmaximize, AreaOK
<1>11. ASSUME NEW w \in Windows, NEW c \in Cursors, BeginMove(w, c)
      PROVE  AreaOK'
  BY <1>11 DEF BeginMove, AreaOK
<1>12. ASSUME NEW w \in Windows, NEW edge \in {"top", "bottom"}, NEW c \in Cursors,
             BeginResize(w, edge, c)
      PROVE  AreaOK'
  BY <1>12 DEF BeginResize, AreaOK
<1>13. ASSUME NEW c \in Cursors, MoveCursor(c) PROVE AreaOK'
  BY <1>13 DEF MoveCursor, AreaOK
<1>14. CASE Release
  BY <1>14 DEF Release, AreaOK
<1>15. ASSUME NEW h \in Screens, ApplyOutputConfig(h) PROVE AreaOK'
  BY <1>15, AreaIsArea DEF ApplyOutputConfig, AreaOK
<1>16. ASSUME NEW p \in Panels, AddLayer(p) PROVE AreaOK'
  BY <1>16 DEF AddLayer, AreaOK
<1>17. ASSUME NEW p \in Panels, NEW z \in Zones, CommitLayer(p, z) PROVE AreaOK'
  <2>1. usable' \in [y : Nat, h : Nat \ {0}]
    <3>1. CASE p \in configured
      BY <1>17, <3>1 DEF CommitLayer, AreaOK
    <3>2. CASE p \notin configured
      BY <1>17, <3>2, AreaIsArea DEF CommitLayer
    <3> QED
      BY <3>1, <3>2
  <2> QED
    BY <1>17, <2>1, ZonesAssumption DEF CommitLayer, AreaOK
<1>18. ASSUME NEW p \in Panels, RemoveLayer(p) PROVE AreaOK'
  <2>1. PICK n \in DOMAIN layers : layers' = RemoveAt(layers, n)
    BY <1>18 DEF RemoveLayer
  <2>2. /\ layers \in Seq(Panels) /\ n \in 1 .. Len(layers)
        /\ \A i \in 1 .. Len(layers) : layers[i] \in Panels
    BY DEF AreaOK
  <2>3. /\ \A i \in 1 .. n - 1 : layers[i] \in Panels
        /\ \A i \in n + 1 .. Len(layers) : layers[i] \in Panels
    BY <2>2
  <2>4. /\ SubSeq(layers, 1, n - 1) \in Seq(Panels)
        /\ SubSeq(layers, n + 1, Len(layers)) \in Seq(Panels)
    BY <2>2, <2>3, SubSeqProperties, Z3
  <2>5. layers' \in Seq(Panels)
    BY <2>1, <2>4, ConcatProperties DEF RemoveAt
  <2> QED
    BY <1>18, <2>5 DEF RemoveLayer, AreaOK
<1>19. CASE UNCHANGED vars
  BY <1>19 DEF vars, AreaOK
<1> QED
  BY <1>1, <1>2, <1>3, <1>4, <1>5, <1>6, <1>7, <1>8, <1>9, <1>10,
     <1>11, <1>12, <1>13, <1>14, <1>15, <1>16, <1>17, <1>18, <1>19,
     HandledAssumption DEF Next, FreeStep, BoundedStep

(* Every handler keeps the shape of what it writes, and the lists of       *)
(* windows only name live ones (server.cpp, all geometry handlers).        *)
THEOREM TypeCorrect == Spec => []TypeOK
<1>1. Init => TypeOK
  <2> SUFFICES ASSUME Init PROVE TypeOK
    OBVIOUS
  <2>1. WindowsOK
    BY DEF Init, WindowsOK, Whole
  <2>2. ListsOK
    BY DEF Init, ListsOK, opening
  <2>3. EntranceOK
    BY DEF Init, EntranceOK
  <2>4. GrabOK
    <3>1. NoGrab \in [mode : {"passthrough", "move", "top", "bottom"},
                     window : Live \cup {None}, offset : Int, top : Int, bottom : Int]
      BY DEF NoGrab
    <3>2. NoGrab.mode = "passthrough" /\ NoGrab.top <= NoGrab.bottom
      BY DEF NoGrab
    <3> QED
      BY <3>1, <3>2 DEF Init, GrabOK
  <2>5. AreaOK
    BY ScreensAssumption DEF Init, AreaOK, Whole
  <2> QED
    BY <2>1, <2>2, <2>3, <2>4, <2>5, TicksAssumption DEF Init, TypeOK
<1>2. TypeOK /\ [Next]_vars => TypeOK'
  <2> SUFFICES ASSUME TypeOK, [Next]_vars PROVE TypeOK'
    OBVIOUS
  <2>1. (acts \in 0 .. MaxActs)'
    BY TicksAssumption DEF Next, vars, TypeOK
  <2> QED
    BY <2>1, WindowsTyped, ListsAreOfLive, EntranceTyped, GrabTyped, AreaTyped DEF TypeOK
<1> QED
  BY <1>1, <1>2, PTL DEF Spec

----------------------------------------------------------------------------
(* Where a window stands (StandsWherePut, RestoreKept).                    *)

(* What StandsWherePut needs to be inductive: an entrance, which only a    *)
(* mapped window has, leads where the window belongs, and what maximize    *)
(* saved is that place.                                                    *)
LeadsHome ==
  \A w \in Live :
    /\ w \in opening => phase[w] = "mapped"
    /\ w \in opening \ (maximized \cup cut) => entrance[w].to = home[w]
    /\ w \notin opening \cup maximized \cup cut => node[w] = home[w]
    /\ w \in maximized \ cut => restore[w].y = home[w]

(* Every handler that moves a window keeps it so.                          *)
LEMMA LeadsHomeKept ==
  ASSUME TypeOK, LeadsHome, [Next]_vars
  PROVE  LeadsHome'
<1> USE DEF TypeOK, clientVars, askVars, placeVars, entranceVars, maxVars, grabVars,
            areaVars
<1>1. ASSUME NEW w \in Windows, AddToplevel(w) PROVE LeadsHome'
  <2>1. Live' = Live \cup {w} /\ opening' = opening /\ w \notin opening \cup maximized
    BY <1>1 DEF AddToplevel, Live, opening, WindowsOK, ListsOK
  <2>2. node'[w] = home'[w]
    BY <1>1 DEF AddToplevel, WindowsOK
  <2>3. \A v \in Live : v # w
    BY <1>1 DEF AddToplevel, Live
  <2> QED
    BY <1>1, <2>1, <2>2, <2>3 DEF AddToplevel, LeadsHome, WindowsOK, Live
<1>2. ASSUME NEW w \in Windows, InitialCommit(w) PROVE LeadsHome'
  BY <1>2 DEF InitialCommit, LeadsHome, Live, opening, WindowsOK
<1>3. ASSUME NEW w \in Windows, NEW h \in Heights(w), Draw(w, h)
      PROVE  LeadsHome'
  BY <1>3 DEF Draw, LeadsHome, Live, opening, WindowsOK
<1>4. ASSUME NEW w \in Windows, NEW h \in Heights(w), MapToplevel(w, h)
      PROVE  LeadsHome'
  <2>1. w \in Live /\ w \notin opening /\ Live' = Live
    BY <1>4 DEF MapToplevel, Live, WindowsOK, LeadsHome
  <2>2. CASE w \in opened \/ Reduced
    <3>1. opening' = opening
      BY <1>4, <2>2 DEF MapToplevel, opening
    <3> QED
      BY <1>4, <2>1, <2>2, <3>1 DEF MapToplevel, LeadsHome, WindowsOK
  <2>3. CASE ~(w \in opened \/ Reduced)
    <3>1. opening' = opening \cup {w}
      BY <1>4, <2>3 DEF MapToplevel, opening, EntranceOK, Still
    <3>2. /\ entrance'[w].to = node[w] /\ phase'[w] = "mapped"
          /\ \A v \in Windows \ {w} : entrance'[v] = entrance[v] /\ node'[v] = node[v] /\ phase'[v] = phase[v]
          /\ maximized' = maximized /\ cut' = cut /\ home' = home /\ restore' = restore
      BY <1>4, <2>3 DEF MapToplevel, WindowsOK, EntranceOK
    <3> QED
      BY <2>1, <3>1, <3>2 DEF LeadsHome, Live
  <2> QED
    BY <2>2, <2>3
<1>5. ASSUME NEW w \in Windows, UnmapToplevel(w) PROVE LeadsHome'
  <2>1. Live' = Live /\ opening' = opening \ {w}
    BY <1>5 DEF UnmapToplevel, Live, opening, WindowsOK, EntranceOK
  <2> QED
    BY <1>5, <2>1 DEF UnmapToplevel, LeadsHome, WindowsOK, EntranceOK, Live
<1>6. ASSUME NEW w \in Windows, DestroyToplevel(w) PROVE LeadsHome'
  <2>1. Live' = Live \ {w} /\ opening' = opening \ {w}
    BY <1>6 DEF DestroyToplevel, Live, opening, WindowsOK, EntranceOK
  <2> QED
    BY <1>6, <2>1 DEF DestroyToplevel, LeadsHome, WindowsOK, EntranceOK, Live
<1>7. CASE Tick
  <2>1. Live' = Live /\ opening' = opening
    BY <1>7 DEF Tick, Live, opening, Still, EntranceOK
  <2>2. \A w \in Windows : entrance'[w].to = entrance[w].to
    BY <1>7 DEF Tick
  <2> QED
    BY <1>7, <2>1, <2>2 DEF Tick, LeadsHome, Live
<1>8. CASE Animate
  <2>1. Live' = Live /\ opening' \subseteq opening
    BY <1>8 DEF Animate, Live, opening, Still
  <2>2. ASSUME NEW w \in Live, w \in opening, w \notin opening', w \notin maximized \cup cut
        PROVE  node'[w] = home[w]
    <3>1. entrance[w].elapsed = Ticks
      BY <1>8, <2>2 DEF Animate, opening, Live
    <3>2. node'[w] = entrance[w].to + Offset(Ticks) /\ entrance[w].to = home[w]
      BY <1>8, <2>2, <3>1 DEF Animate, Position, LeadsHome, Live
    <3> QED
      BY <3>2, OffsetEnds DEF WindowsOK, Live
  <2>3. \A w \in opening' : entrance'[w] = entrance[w]
    BY <1>8 DEF Animate, opening
  <2>4. \A w \in Windows \ opening : node'[w] = node[w]
    BY <1>8 DEF Animate
  <2> QED
    BY <1>8, <2>1, <2>2, <2>3, <2>4 DEF Animate, LeadsHome, Live
<1>9. ASSUME NEW w \in Windows, Maximize(w) PROVE LeadsHome'
  <2>1. Live' = Live /\ opening' = opening \ {w}
    BY <1>9 DEF Maximize, Live, opening, EntranceOK
  <2>2. /\ restore'[w].y = node[w] /\ w \notin maximized
        /\ \A v \in Windows \ {w} : entrance'[v] = entrance[v] /\ node'[v] = node[v] /\ restore'[v] = restore[v]
        /\ maximized' = maximized \cup {w} /\ home' = home /\ phase' = phase
        /\ cut' = cut \cup (opening \cap {w})
    BY <1>9 DEF Maximize, MayMaximize, WindowsOK, EntranceOK
  <2> QED
    BY <2>1, <2>2 DEF LeadsHome, Live
<1>10. ASSUME NEW w \in Windows, Unmaximize(w) PROVE LeadsHome'
  <2>1. Live' = Live /\ opening' = opening \ {w}
    BY <1>10 DEF Unmaximize, Live, opening, EntranceOK
  <2> QED
    BY <1>10, <2>1 DEF Unmaximize, LeadsHome, WindowsOK, EntranceOK, Live
<1>11. ASSUME NEW w \in Windows, NEW c \in Cursors, BeginMove(w, c)
      PROVE  LeadsHome'
  BY <1>11 DEF BeginMove, LeadsHome, Live, opening, WindowsOK
<1>12. ASSUME NEW w \in Windows, NEW edge \in {"top", "bottom"}, NEW c \in Cursors,
             BeginResize(w, edge, c)
      PROVE  LeadsHome'
  BY <1>12 DEF BeginResize, LeadsHome, Live, opening, WindowsOK
<1>13. ASSUME NEW c \in Cursors, MoveCursor(c) PROVE LeadsHome'
  <2>1. Live' = Live /\ opening' = opening
    BY <1>13 DEF MoveCursor, Live, opening
  <2>2. ASSUME NEW y, Put(grab.window, y) PROVE LeadsHome'
    BY <1>13, <2>1, <2>2 DEF MoveCursor, Put, LeadsHome, Live, WindowsOK
  <2> QED
    BY <1>13, <2>2 DEF MoveCursor, DragWindow, DragEdge
<1>14. CASE Release
  BY <1>14 DEF Release, LeadsHome, Live, opening, WindowsOK
<1>15. ASSUME NEW h \in Screens, ApplyOutputConfig(h) PROVE LeadsHome'
  <2>1. Live' = Live /\ opening' = opening
    BY <1>15 DEF ApplyOutputConfig, Live, opening
  <2> QED
    BY <1>15, <2>1 DEF ApplyOutputConfig, LeadsHome, Live
<1>16. ASSUME NEW p \in Panels, AddLayer(p) PROVE LeadsHome'
  BY <1>16 DEF AddLayer, LeadsHome, Live, opening, WindowsOK
<1>17. ASSUME NEW p \in Panels, NEW z \in Zones, CommitLayer(p, z)
      PROVE  LeadsHome'
  BY <1>17 DEF CommitLayer, LeadsHome, Live, opening, WindowsOK
<1>18. ASSUME NEW p \in Panels, RemoveLayer(p) PROVE LeadsHome'
  BY <1>18 DEF RemoveLayer, LeadsHome, Live, opening, WindowsOK
<1>19. CASE UNCHANGED vars
  BY <1>19 DEF vars, LeadsHome, Live, opening, WindowsOK
<1> QED
  BY <1>1, <1>2, <1>3, <1>4, <1>5, <1>6, <1>7, <1>8, <1>9, <1>10,
     <1>11, <1>12, <1>13, <1>14, <1>15, <1>16, <1>17, <1>18, <1>19,
     HandledAssumption DEF Next, FreeStep, BoundedStep

LEMMA LeadsHomeAlways == Spec => []LeadsHome
<1>1. Init => LeadsHome
  BY DEF Init, LeadsHome, Live
<1>2. TypeOK /\ LeadsHome /\ [Next]_vars => LeadsHome'
  BY LeadsHomeKept
<1> QED
  BY <1>1, <1>2, TypeCorrect, PTL DEF Spec

(* A floating window at rest stands where it was created, dragged to or    *)
(* brought back to, whatever entrances, maximizes and displays came in     *)
(* between (server.cpp:385-411, 920-1017, 557-624).                        *)
THEOREM WindowsStand == Spec => []StandsWherePut
<1>1. LeadsHome => StandsWherePut
  BY DEF LeadsHome, StandsWherePut
<1> QED
  BY <1>1, LeadsHomeAlways, PTL

(* What RestoreKept needs to be inductive: a window with every configure   *)
(* answered has the height it drew, and one that has not mapped has its    *)
(* first configure to answer.                                              *)
Answered ==
  \A w \in Live :
    /\ phase[w] = "initialized" => w \in pending
    /\ phase[w] = "mapped" /\ w \notin maximized \cup pending => size[w] = drawn[w]
    /\ w \in maximized \ hasty => restore[w].h = drawn[w]

(* Every handler that asks a client for a height keeps it so.              *)
LEMMA AnsweredKept ==
  ASSUME TypeOK, Answered, [Next]_vars
  PROVE  Answered'
<1> USE DEF TypeOK, clientVars, askVars, placeVars, entranceVars, maxVars, grabVars,
            areaVars
<1>1. ASSUME NEW w \in Windows, AddToplevel(w) PROVE Answered'
  <2>1. Live' = Live \cup {w} /\ w \notin maximized /\ phase'[w] = "new"
    BY <1>1 DEF AddToplevel, Live, WindowsOK, ListsOK
  <2>2. \A v \in Live : v # w
    BY <1>1 DEF AddToplevel, Live
  <2> QED
    BY <1>1, <2>1, <2>2 DEF AddToplevel, Answered, WindowsOK, Live
<1>2. ASSUME NEW w \in Windows, InitialCommit(w) PROVE Answered'
  BY <1>2 DEF InitialCommit, Answered, Live, WindowsOK
<1>3. ASSUME NEW w \in Windows, NEW h \in Heights(w), Draw(w, h) PROVE Answered'
  BY <1>3 DEF Draw, Answered, Live, WindowsOK
<1>4. ASSUME NEW w \in Windows, NEW h \in Heights(w), MapToplevel(w, h)
      PROVE  Answered'
  BY <1>4 DEF MapToplevel, Answered, Live, WindowsOK
<1>5. ASSUME NEW w \in Windows, UnmapToplevel(w) PROVE Answered'
  BY <1>5 DEF UnmapToplevel, Answered, Live, WindowsOK
<1>6. ASSUME NEW w \in Windows, DestroyToplevel(w) PROVE Answered'
  <2>1. Live' = Live \ {w}
    BY <1>6 DEF DestroyToplevel, Live, WindowsOK
  <2> QED
    BY <1>6, <2>1 DEF DestroyToplevel, Answered, WindowsOK, Live
<1>7. CASE Tick
  BY <1>7 DEF Tick, Answered, Live, WindowsOK
<1>8. CASE Animate
  BY <1>8 DEF Animate, Answered, Live, WindowsOK
<1>9. ASSUME NEW w \in Windows, Maximize(w) PROVE Answered'
  <2>1. /\ restore'[w].h = size[w] /\ w \notin maximized /\ phase[w] \in {"initialized", "mapped"}
        /\ \A v \in Windows \ {w} : restore'[v] = restore[v]
        /\ maximized' = maximized \cup {w} /\ pending' = pending \cup {w}
        /\ hasty' = IF w \in pending THEN hasty \cup {w} ELSE hasty \ {w}
        /\ phase' = phase /\ size' = size /\ drawn' = drawn
    BY <1>9 DEF Maximize, MayMaximize, Configurable, WindowsOK
  <2> QED
    BY <2>1 DEF Answered, Live
<1>10. ASSUME NEW w \in Windows, Unmaximize(w) PROVE Answered'
  BY <1>10 DEF Unmaximize, Answered, Live, WindowsOK, Configurable
<1>11. ASSUME NEW w \in Windows, NEW c \in Cursors, BeginMove(w, c)
      PROVE  Answered'
  BY <1>11 DEF BeginMove, Answered, Live, WindowsOK, Configurable
<1>12. ASSUME NEW w \in Windows, NEW edge \in {"top", "bottom"}, NEW c \in Cursors,
             BeginResize(w, edge, c)
      PROVE  Answered'
  BY <1>12 DEF BeginResize, Answered, Live, WindowsOK, Configurable
<1>13. ASSUME NEW c \in Cursors, MoveCursor(c) PROVE Answered'
  <2>1. Live' = Live /\ pending \subseteq pending'
    BY <1>13 DEF MoveCursor, DragWindow, DragEdge, Live
  <2> QED
    BY <1>13, <2>1 DEF MoveCursor, Answered
<1>14. CASE Release
  BY <1>14 DEF Release, Answered, Live, WindowsOK
<1>15. ASSUME NEW h \in Screens, ApplyOutputConfig(h) PROVE Answered'
  <2>1. Live' = Live /\ pending \subseteq pending'
    BY <1>15 DEF ApplyOutputConfig, Live
  <2> QED
    BY <1>15, <2>1 DEF ApplyOutputConfig, Answered
<1>16. ASSUME NEW p \in Panels, AddLayer(p) PROVE Answered'
  BY <1>16 DEF AddLayer, Answered, Live, WindowsOK
<1>17. ASSUME NEW p \in Panels, NEW z \in Zones, CommitLayer(p, z)
      PROVE  Answered'
  BY <1>17 DEF CommitLayer, Answered, Live, WindowsOK
<1>18. ASSUME NEW p \in Panels, RemoveLayer(p) PROVE Answered'
  BY <1>18 DEF RemoveLayer, Answered, Live, WindowsOK
<1>19. CASE UNCHANGED vars
  BY <1>19 DEF vars, Answered, Live, WindowsOK
<1> QED
  BY <1>1, <1>2, <1>3, <1>4, <1>5, <1>6, <1>7, <1>8, <1>9, <1>10,
     <1>11, <1>12, <1>13, <1>14, <1>15, <1>16, <1>17, <1>18, <1>19,
     HandledAssumption DEF Next, FreeStep, BoundedStep

(* What maximize saved is the place and the height the window had as a     *)
(* floating window (server.cpp:920-956).                                   *)
THEOREM SavedIsWhatWas == Spec => []RestoreKept
<1>1. Init => LeadsHome /\ Answered
  BY DEF Init, LeadsHome, Answered, Live
<1>2. TypeOK /\ LeadsHome /\ Answered /\ [Next]_vars => LeadsHome' /\ Answered'
  BY LeadsHomeKept, AnsweredKept
<1>3. TypeOK /\ LeadsHome /\ Answered => RestoreKept
  BY DEF TypeOK, ListsOK, LeadsHome, Answered, RestoreKept
<1> QED
  BY <1>1, <1>2, <1>3, TypeCorrect, PTL DEF Spec

----------------------------------------------------------------------------
(* Interactive resizes (OtherEdgeStays).                                   *)

(* What OtherEdgeStays needs to be inductive: the height a resize asks for *)
(* is the distance of the two edges, and a client with nothing to answer   *)
(* has drawn what it was asked for.                                        *)
Steering ==
  /\ \A w \in Windows :
       phase[w] = "mapped" /\ w \notin pending => size[w] = asked[w] \/ asked[w] = 0
  /\ steered /\ grab.mode \in {"top", "bottom"} =>
       LET w == grab.window IN
         /\ asked[w] >= 1
         /\ grab.mode = "bottom" => node[w] = grab.top
         /\ grab.mode = "top" => asked[w] = grab.bottom - node[w]

(* Whatever else sets the grabbed window or asks it for a height ends the  *)
(* steering; a drag of an edge keeps the other where it is.                *)
LEMMA SteeringKept ==
  ASSUME TypeOK, Steering, [Next]_vars
  PROVE  Steering'
<1> USE DEF TypeOK, clientVars, askVars, placeVars, entranceVars, maxVars, grabVars,
            areaVars
<1>1. ASSUME NEW w \in Windows, AddToplevel(w) PROVE Steering'
  <2>1. grab.mode \in {"top", "bottom"} => grab.window # w
    BY <1>1 DEF AddToplevel, GrabOK, Live
  <2> QED
    BY <1>1, <2>1 DEF AddToplevel, Steering, WindowsOK
<1>2. ASSUME NEW w \in Windows, InitialCommit(w) PROVE Steering'
  <2>1. steered' => steered /\ grab.window # w
    BY <1>2 DEF InitialCommit
  <2>2. grab.mode \in {"top", "bottom"} => grab.window \in Windows
    BY DEF GrabOK, Live
  <2>3. /\ \A v \in Windows \ {w} : node'[v] = node[v] /\ asked'[v] = asked[v]
        /\ \A v \in Windows \ {w} : phase'[v] = phase[v] /\ size'[v] = size[v]
        /\ phase'[w] = "mapped" => w \in pending'
        /\ pending' \in {pending \cup {w}, pending \ {w}}
    BY <1>2 DEF InitialCommit, WindowsOK
  <2>4. grab' = grab
    BY <1>2, <2>1 DEF InitialCommit, GrabWithout
  <2> QED
    BY <2>1, <2>2, <2>3, <2>4 DEF Steering
<1>3. ASSUME NEW w \in Windows, NEW h \in Heights(w), Draw(w, h) PROVE Steering'
  BY <1>3 DEF Draw, Heights, Steering, WindowsOK
<1>4. ASSUME NEW w \in Windows, NEW h \in Heights(w), MapToplevel(w, h)
      PROVE  Steering'
  <2>1. h = asked[w] \/ asked[w] = 0
    BY DEF Heights
  <2>2. CASE w \in opened \/ Reduced
    BY <1>4, <2>1, <2>2 DEF MapToplevel, Steering, WindowsOK
  <2>3. CASE ~(w \in opened \/ Reduced)
    <3>1. steered' => steered /\ grab.window # w
      BY <1>4, <2>3 DEF MapToplevel
    <3>2. /\ \A v \in Windows \ {w} : node'[v] = node[v] /\ phase'[v] = phase[v] /\ size'[v] = size[v]
          /\ size'[w] = h /\ asked' = asked /\ grab' = grab /\ pending' = pending \ {w}
      BY <1>4, <2>3 DEF MapToplevel, WindowsOK
    <3> QED
      BY <2>1, <3>1, <3>2 DEF Steering, GrabOK, Live
  <2> QED
    BY <2>2, <2>3
<1>5. ASSUME NEW w \in Windows, UnmapToplevel(w) PROVE Steering'
  BY <1>5 DEF UnmapToplevel, Steering, WindowsOK
<1>6. ASSUME NEW w \in Windows, DestroyToplevel(w) PROVE Steering'
  <2>1. steered' => steered /\ grab.window # w
    BY <1>6 DEF DestroyToplevel
  <2>2. grab.mode \in {"top", "bottom"} => grab.window \in Windows
    BY DEF GrabOK, Live
  <2>3. /\ \A v \in Windows \ {w} : node'[v] = node[v] /\ asked'[v] = asked[v]
        /\ \A v \in Windows \ {w} : phase'[v] = phase[v] /\ size'[v] = size[v]
        /\ phase'[w] = "mapped" => w \in pending'
        /\ pending' \in {pending \cup {w}, pending \ {w}}
    BY <1>6 DEF DestroyToplevel, WindowsOK
  <2>4. steered' => grab' = grab
    BY <1>6, <2>1 DEF DestroyToplevel, GrabWithout
  <2> QED
    BY <2>1, <2>2, <2>3, <2>4 DEF Steering
<1>7. CASE Tick
  BY <1>7 DEF Tick, Steering, WindowsOK
<1>8. CASE Animate
  <2>1. grab.mode \in {"top", "bottom"} => grab.window \in Windows
    BY DEF GrabOK, Live
  <2> QED
    BY <1>8, <2>1 DEF Animate, Steering, WindowsOK
<1>9. ASSUME NEW w \in Windows, Maximize(w) PROVE Steering'
  <2>1. steered' => steered /\ grab.window # w
    BY <1>9 DEF Maximize
  <2>2. grab.mode \in {"top", "bottom"} => grab.window \in Windows
    BY DEF GrabOK, Live
  <2>3. /\ \A v \in Windows \ {w} : node'[v] = node[v] /\ asked'[v] = asked[v]
        /\ \A v \in Windows \ {w} : phase'[v] = phase[v] /\ size'[v] = size[v]
        /\ phase'[w] = "mapped" => w \in pending'
        /\ pending' \in {pending \cup {w}, pending \ {w}}
    BY <1>9 DEF Maximize, WindowsOK
  <2>4. grab' = grab
    BY <1>9, <2>1 DEF Maximize, GrabWithout
  <2> QED
    BY <2>1, <2>2, <2>3, <2>4 DEF Steering
<1>10. ASSUME NEW w \in Windows, Unmaximize(w) PROVE Steering'
  <2>1. steered' => steered /\ grab.window # w
    BY <1>10 DEF Unmaximize
  <2>2. grab.mode \in {"top", "bottom"} => grab.window \in Windows
    BY DEF GrabOK, Live
  <2>3. /\ \A v \in Windows \ {w} : node'[v] = node[v] /\ asked'[v] = asked[v]
        /\ \A v \in Windows \ {w} : phase'[v] = phase[v] /\ size'[v] = size[v]
        /\ phase'[w] = "mapped" => w \in pending'
        /\ pending' \in {pending \cup {w}, pending \ {w}}
    BY <1>10 DEF Unmaximize, WindowsOK
  <2>4. grab' = grab
    BY <1>10, <2>1 DEF Unmaximize, GrabWithout
  <2> QED
    BY <2>1, <2>2, <2>3, <2>4 DEF Steering
<1>11. ASSUME NEW w \in Windows, NEW c \in Cursors, BeginMove(w, c)
      PROVE  Steering'
  BY <1>11 DEF BeginMove, Steering, WindowsOK, Configurable
<1>12. ASSUME NEW w \in Windows, NEW edge \in {"top", "bottom"}, NEW c \in Cursors,
             BeginResize(w, edge, c)
      PROVE  Steering'
  BY <1>12 DEF BeginResize, Steering, WindowsOK, Configurable
<1>13. ASSUME NEW c \in Cursors, MoveCursor(c) PROVE Steering'
  <2>1. CASE DragWindow(c)
    <3>1. grab.mode = "move" /\ grab' = grab
      BY <1>13, <2>1 DEF MoveCursor, DragWindow
    <3> QED
      BY <1>13, <2>1, <3>1 DEF MoveCursor, DragWindow, Steering
  <2>2. CASE DragEdge(c)
    <3>1. c - grab.offset \in Int /\ grab.window \in Windows
      BY <2>2, OwnAssumption DEF DragEdge, GrabOK, Live
    <3> DEFINE border == c - grab.offset
    <3>2. /\ node'[grab.window] = TopEdge(border)
          /\ asked'[grab.window] = BottomEdge(border) - TopEdge(border)
          /\ grab' = grab /\ grab.mode \in {"top", "bottom"}
      BY <1>13, <2>2, <3>1 DEF MoveCursor, DragEdge, Put, WindowsOK
    <3>3. /\ BottomEdge(border) - TopEdge(border) >= 1
          /\ grab.mode = "bottom" => TopEdge(border) = grab.top
          /\ grab.mode = "top" => BottomEdge(border) = grab.bottom
      BY <3>1, <3>2 DEF TopEdge, BottomEdge, Greater, GrabOK
    <3>4. \A w \in Windows : phase'[w] = "mapped" /\ w \notin pending'
             => size'[w] = asked'[w] \/ asked'[w] = 0
      BY <1>13, <2>2 DEF MoveCursor, DragEdge, Steering, WindowsOK
    <3> QED
      BY <3>2, <3>3, <3>4 DEF Steering
  <2> QED
    BY <1>13, <2>1, <2>2 DEF MoveCursor
<1>14. CASE Release
  BY <1>14 DEF Release, Steering, WindowsOK, NoGrab
<1>15. ASSUME NEW h \in Screens, ApplyOutputConfig(h) PROVE Steering'
  BY <1>15 DEF ApplyOutputConfig, Steering, WindowsOK, Configurable
<1>16. ASSUME NEW p \in Panels, AddLayer(p) PROVE Steering'
  BY <1>16 DEF AddLayer, Steering, WindowsOK
<1>17. ASSUME NEW p \in Panels, NEW z \in Zones, CommitLayer(p, z)
      PROVE  Steering'
  BY <1>17 DEF CommitLayer, Steering, WindowsOK
<1>18. ASSUME NEW p \in Panels, RemoveLayer(p) PROVE Steering'
  BY <1>18 DEF RemoveLayer, Steering, WindowsOK
<1>19. CASE UNCHANGED vars
  BY <1>19 DEF vars, Steering, WindowsOK
<1> QED
  BY <1>1, <1>2, <1>3, <1>4, <1>5, <1>6, <1>7, <1>8, <1>9, <1>10,
     <1>11, <1>12, <1>13, <1>14, <1>15, <1>16, <1>17, <1>18, <1>19,
     HandledAssumption DEF Next, FreeStep, BoundedStep

(* A resize never moves the edge that is not held, and asks for a pixel at *)
(* least (server.cpp:989-1017).                                            *)
THEOREM ResizeKeepsOtherEdge == Spec => []OtherEdgeStays
<1>1. Init => Steering
  BY DEF Init, Steering
<1>2. TypeOK /\ Steering /\ [Next]_vars => Steering'
  BY SteeringKept
<1>3. TypeOK /\ Steering => OtherEdgeStays
  BY DEF TypeOK, GrabOK, Live, WindowsOK, Steering, OtherEdgeStays
<1> QED
  BY <1>1, <1>2, <1>3, TypeCorrect, PTL DEF Spec

----------------------------------------------------------------------------
(* The timer of the entrances.                                             *)

(* The timer is armed when an entrance begins and re-armed while one is    *)
(* left, whichever window it was armed for.                                *)
LEMMA TimerRunsKept ==
  ASSUME TypeOK, TimerRuns, [Next]_vars
  PROVE  TimerRuns'
<1> USE DEF TypeOK, clientVars, askVars, placeVars, entranceVars, maxVars, grabVars,
            areaVars
<1>1. ASSUME NEW w \in Windows, AddToplevel(w) PROVE TimerRuns'
  BY <1>1 DEF AddToplevel, TimerRuns, opening
<1>2. ASSUME NEW w \in Windows, InitialCommit(w) PROVE TimerRuns'
  BY <1>2 DEF InitialCommit, TimerRuns, opening
<1>3. ASSUME NEW w \in Windows, NEW h \in Heights(w), Draw(w, h)
      PROVE  TimerRuns'
  BY <1>3 DEF Draw, TimerRuns, opening
<1>4. ASSUME NEW w \in Windows, NEW h \in Heights(w), MapToplevel(w, h)
      PROVE  TimerRuns'
  <2>1. CASE w \in opened \/ Reduced
    BY <1>4, <2>1 DEF MapToplevel, TimerRuns, opening
  <2>2. CASE ~(w \in opened \/ Reduced)
    BY <1>4, <2>2 DEF MapToplevel, TimerRuns
  <2> QED
    BY <2>1, <2>2
<1>5. ASSUME NEW w \in Windows, UnmapToplevel(w) PROVE TimerRuns'
  <2>1. opening' \subseteq opening
    BY <1>5 DEF UnmapToplevel, opening, EntranceOK, Still
  <2> QED
    BY <1>5, <2>1 DEF UnmapToplevel, TimerRuns
<1>6. ASSUME NEW w \in Windows, DestroyToplevel(w) PROVE TimerRuns'
  <2>1. opening' \subseteq opening
    BY <1>6 DEF DestroyToplevel, opening, EntranceOK, Still
  <2> QED
    BY <1>6, <2>1 DEF DestroyToplevel, TimerRuns
<1>7. CASE Tick
  <2>1. opening' \subseteq opening
    BY <1>7 DEF Tick, opening, EntranceOK, Still
  <2> QED
    BY <1>7, <2>1 DEF Tick, TimerRuns
<1>8. CASE Animate
  <2>1. \A w \in opening' : w \in opening /\ entrance[w].elapsed # Ticks
    BY <1>8 DEF Animate, opening
  <2>2. \A w \in opening' : entrance[w].elapsed < Ticks
    BY <2>1, EntrancesRun, TicksAssumption
  <2> QED
    BY <1>8, <2>1, <2>2 DEF Animate, TimerRuns, AnyLeft
<1>9. ASSUME NEW w \in Windows, Maximize(w) PROVE TimerRuns'
  <2>1. opening' \subseteq opening
    BY <1>9 DEF Maximize, opening, EntranceOK, Still
  <2> QED
    BY <1>9, <2>1 DEF Maximize, TimerRuns
<1>10. ASSUME NEW w \in Windows, Unmaximize(w) PROVE TimerRuns'
  <2>1. opening' \subseteq opening
    BY <1>10 DEF Unmaximize, opening, EntranceOK, Still
  <2> QED
    BY <1>10, <2>1 DEF Unmaximize, TimerRuns
<1>11. ASSUME NEW w \in Windows, NEW c \in Cursors, BeginMove(w, c)
      PROVE  TimerRuns'
  BY <1>11 DEF BeginMove, TimerRuns, opening
<1>12. ASSUME NEW w \in Windows, NEW edge \in {"top", "bottom"}, NEW c \in Cursors,
             BeginResize(w, edge, c)
      PROVE  TimerRuns'
  BY <1>12 DEF BeginResize, TimerRuns, opening
<1>13. ASSUME NEW c \in Cursors, MoveCursor(c) PROVE TimerRuns'
  BY <1>13 DEF MoveCursor, TimerRuns, opening
<1>14. CASE Release
  BY <1>14 DEF Release, TimerRuns, opening
<1>15. ASSUME NEW h \in Screens, ApplyOutputConfig(h) PROVE TimerRuns'
  BY <1>15 DEF ApplyOutputConfig, TimerRuns, opening
<1>16. ASSUME NEW p \in Panels, AddLayer(p) PROVE TimerRuns'
  BY <1>16 DEF AddLayer, TimerRuns, opening
<1>17. ASSUME NEW p \in Panels, NEW z \in Zones, CommitLayer(p, z)
      PROVE  TimerRuns'
  BY <1>17 DEF CommitLayer, TimerRuns, opening
<1>18. ASSUME NEW p \in Panels, RemoveLayer(p) PROVE TimerRuns'
  BY <1>18 DEF RemoveLayer, TimerRuns, opening
<1>19. CASE UNCHANGED vars
  BY <1>19 DEF vars, TimerRuns, opening
<1> QED
  BY <1>1, <1>2, <1>3, <1>4, <1>5, <1>6, <1>7, <1>8, <1>9, <1>10,
     <1>11, <1>12, <1>13, <1>14, <1>15, <1>16, <1>17, <1>18, <1>19,
     HandledAssumption DEF Next, FreeStep, BoundedStep

(* No entrance is left without the timer that carries it on                *)
(* (server.cpp:357-411).                                                   *)
THEOREM TimerNeverLost == Spec => []TimerRuns
<1>1. Init => TimerRuns
  BY DEF Init, TimerRuns, opening
<1>2. TypeOK /\ TimerRuns /\ [Next]_vars => TimerRuns'
  BY TimerRunsKept
<1> QED
  BY <1>1, <1>2, TypeCorrect, PTL DEF Spec

----------------------------------------------------------------------------
(* Entrances end.  That time can pass and that a timer that is armed can   *)
(* run are hypotheses, which TLC checks in every reachable state.          *)

TickCanRun == AnyLeft => ENABLED <<Tick /\ UNCHANGED acts>>_vars
Due(w) == w \in opening /\ entrance[w].elapsed = Ticks
AnimateCanRun ==
  timer /\ (\E w \in Windows : Due(w)) => ENABLED <<Animate /\ UNCHANGED acts>>_vars

(* How far the entrance of w is.                                           *)
Reached(w, n) == w \in opening /\ entrance[w].elapsed \in Nat /\ entrance[w].elapsed >= n
Ending(w) == w \notin opening \/ Due(w)

(* No step takes an entrance back.                                         *)
LEMMA EntranceGoesOn ==
  ASSUME TypeOK, LeadsHome, [Next]_vars, NEW w \in Windows, w \in opening
  PROVE  \/ entrance'[w] = entrance[w]
         \/ w \notin opening'
         \/ Tick
<1> USE DEF TypeOK, clientVars, askVars, placeVars, entranceVars, maxVars, grabVars,
            areaVars
<1>1. ASSUME NEW v \in Windows, AddToplevel(v) PROVE entrance'[w] = entrance[w]
  BY <1>1 DEF AddToplevel
<1>2. ASSUME NEW v \in Windows, InitialCommit(v) PROVE entrance'[w] = entrance[w]
  BY <1>2 DEF InitialCommit
<1>3. ASSUME NEW v \in Windows, NEW h \in Heights(v), Draw(v, h)
      PROVE  entrance'[w] = entrance[w]
  BY <1>3 DEF Draw
<1>4. ASSUME NEW v \in Windows, NEW h \in Heights(v), MapToplevel(v, h)
      PROVE  entrance'[w] = entrance[w]
  <2>1. w # v
    BY <1>4 DEF MapToplevel, LeadsHome, ListsOK
  <2> QED
    BY <1>4, <2>1 DEF MapToplevel, EntranceOK
<1>5. ASSUME NEW v \in Windows, UnmapToplevel(v)
      PROVE  entrance'[w] = entrance[w] \/ w \notin opening'
  BY <1>5 DEF UnmapToplevel, opening, EntranceOK
<1>6. ASSUME NEW v \in Windows, DestroyToplevel(v)
      PROVE  entrance'[w] = entrance[w] \/ w \notin opening'
  BY <1>6 DEF DestroyToplevel, opening, EntranceOK
<1>7. CASE Animate
  BY <1>7 DEF Animate, opening
<1>8. ASSUME NEW v \in Windows, Maximize(v)
      PROVE  entrance'[w] = entrance[w] \/ w \notin opening'
  BY <1>8 DEF Maximize, opening, EntranceOK
<1>9. ASSUME NEW v \in Windows, Unmaximize(v)
      PROVE  entrance'[w] = entrance[w] \/ w \notin opening'
  BY <1>9 DEF Unmaximize, opening, EntranceOK
<1>10. ASSUME NEW v \in Windows, NEW c \in Cursors, BeginMove(v, c)
       PROVE  entrance'[w] = entrance[w]
  BY <1>10 DEF BeginMove
<1>11. ASSUME NEW v \in Windows, NEW edge \in {"top", "bottom"}, NEW c \in Cursors,
              BeginResize(v, edge, c)
       PROVE  entrance'[w] = entrance[w]
  BY <1>11 DEF BeginResize
<1>12. ASSUME NEW c \in Cursors, MoveCursor(c) PROVE entrance'[w] = entrance[w]
  BY <1>12 DEF MoveCursor
<1>13. CASE Release
  BY <1>13 DEF Release
<1>14. ASSUME NEW h \in Screens, ApplyOutputConfig(h) PROVE entrance'[w] = entrance[w]
  BY <1>14 DEF ApplyOutputConfig
<1>15. ASSUME NEW p \in Panels, AddLayer(p) PROVE entrance'[w] = entrance[w]
  BY <1>15 DEF AddLayer
<1>16. ASSUME NEW p \in Panels, NEW z \in Zones, CommitLayer(p, z)
       PROVE  entrance'[w] = entrance[w]
  BY <1>16 DEF CommitLayer
<1>17. ASSUME NEW p \in Panels, RemoveLayer(p) PROVE entrance'[w] = entrance[w]
  BY <1>17 DEF RemoveLayer
<1>18. CASE UNCHANGED vars
  BY <1>18 DEF vars
<1> QED
  BY <1>1, <1>2, <1>3, <1>4, <1>5, <1>6, <1>7, <1>8, <1>9, <1>10, <1>11, <1>12,
     <1>13, <1>14, <1>15, <1>16, <1>17, <1>18,
     HandledAssumption DEF Next, FreeStep, BoundedStep

LEMMA TicksAdd ==
  ASSUME TypeOK, Tick, NEW w \in Windows, w \in opening, entrance[w].elapsed < Ticks
  PROVE  w \in opening' /\ entrance'[w].elapsed = entrance[w].elapsed + 1
<1>1. entrance[w].elapsed \in 0 .. Ticks - 1
  BY EntrancesRun, TicksAssumption
<1>2. entrance'[w] = [to |-> entrance[w].to, elapsed |-> entrance[w].elapsed + 1]
  BY <1>1 DEF Tick
<1> QED
  BY <1>1, <1>2 DEF opening, Still

(* From any point of the entrance of w to k ticks on, or to its end.       *)
Leads(w, n, m) == Reached(w, n) ~> Reached(w, m) \/ Ending(w)
Advances(w, k) == \A n, m \in Nat : m = n + k => Leads(w, n, m)

LEMMA AdvancesByOne ==
  ASSUME NEW w \in Windows
  PROVE  Spec /\ []TickCanRun => Advances(w, 1)
<1> SUFFICES ASSUME NEW n \in Nat, NEW m \in Nat, m = n + 1
             PROVE  Spec /\ []TickCanRun => Leads(w, n, m)
  BY DEF Advances
<1> DEFINE Here == w \in opening /\ entrance[w].elapsed = n /\ n < Ticks
           Out == Reached(w, m) \/ Ending(w)
<1>1. TypeOK /\ Reached(w, n) => Here \/ Out
  BY EntrancesRun, TicksAssumption DEF Reached, Ending, Due
<1>2. TypeOK /\ LeadsHome /\ Here /\ [Next]_vars => Here' \/ Out'
  BY EntranceGoesOn, TicksAdd DEF Reached, Ending
<1>3. TypeOK /\ Here /\ <<Tick /\ UNCHANGED acts>>_vars => ~Here'
  BY TicksAdd
<1>4. TickCanRun /\ Here => ENABLED <<Tick /\ UNCHANGED acts>>_vars
  BY DEF TickCanRun, AnyLeft
<1> HIDE DEF Here, Out
<1>5. Spec /\ []TickCanRun => (Reached(w, n) ~> Out)
  BY <1>1, <1>2, <1>3, <1>4, TypeCorrect, LeadsHomeAlways,
     PTL DEF Spec, Fairness
<1> QED
  BY <1>5 DEF Leads, Out

LEMMA AdvancesByTwice ==
  ASSUME NEW w, NEW k \in Nat, NEW l \in Nat, l = k + k, Advances(w, k)
  PROVE  Advances(w, l)
<1> SUFFICES ASSUME NEW n \in Nat, NEW m \in Nat, m = n + l
             PROVE  Leads(w, n, m)
  BY DEF Advances
<1> DEFINE i == n + k
<1>1. i \in Nat /\ i = n + k /\ m = i + k
  OBVIOUS
<1> HIDE DEF i
<1>2. Leads(w, n, i)
  BY <1>1 DEF Advances
<1>3. Leads(w, i, m)
  BY <1>1 DEF Advances
<1> QED
  BY <1>2, <1>3, PTL DEF Leads

LEMMA AdvancesFar ==
  ASSUME NEW w \in Windows
  PROVE  Spec /\ []TickCanRun => Advances(w, 256)
<1> SUFFICES ASSUME Spec /\ []TickCanRun
             PROVE  Advances(w, 256)
  OBVIOUS
<1>1. Advances(w, 1)
  BY AdvancesByOne
<1>2. Advances(w, 2)
  BY <1>1, AdvancesByTwice
<1>4. Advances(w, 4)
  BY <1>2, AdvancesByTwice
<1>8. Advances(w, 8)
  BY <1>4, AdvancesByTwice
<1>16. Advances(w, 16)
  BY <1>8, AdvancesByTwice
<1>32. Advances(w, 32)
  BY <1>16, AdvancesByTwice
<1>64. Advances(w, 64)
  BY <1>32, AdvancesByTwice
<1>128. Advances(w, 128)
  BY <1>64, AdvancesByTwice
<1> QED
  BY <1>128, AdvancesByTwice

(* Every entrance ends: an entrance of the code lasts 220 ms, so 256 ticks *)
(* are more than a clock that counts milliseconds can show of it           *)
(* (begin_open_animation, animate_windows).                                *)
THEOREM EntrancesEnd ==
  Ticks <= 256 => (Spec /\ []TickCanRun /\ []AnimateCanRun => EntranceEnds)
<1> SUFFICES ASSUME Ticks <= 256, NEW w \in Windows
             PROVE  Spec /\ []TickCanRun /\ []AnimateCanRun =>
                      (w \in opening ~> w \notin opening)
  BY DEF EntranceEnds
<1> DEFINE Out == w \notin opening
<1>1. Spec /\ []TickCanRun => Leads(w, 0, 256)
  <2>1. 0 \in Nat /\ 256 \in Nat /\ 256 = 0 + 256
    OBVIOUS
  <2> QED
    BY <2>1, AdvancesFar DEF Advances
<1>2. TypeOK /\ Reached(w, 256) => Ending(w)
  BY EntrancesRun, TicksAssumption DEF Reached, Ending, Due
<1>3. TypeOK => (Out \/ Reached(w, 0))
  BY EntrancesRun, TicksAssumption DEF Reached
<1>4. Ending(w) <=> Out \/ Due(w)
  BY DEF Ending
<1>5. TypeOK /\ LeadsHome /\ Due(w) /\ [Next]_vars => Due(w)' \/ Out'
  <2>1. TypeOK /\ Due(w) => ~(Tick /\ entrance'[w] # entrance[w])
    BY TicksAssumption DEF Tick, Due, TypeOK, EntranceOK
  <2> QED
    BY <2>1, EntranceGoesOn DEF Due, opening
<1>6. TypeOK /\ Due(w) /\ <<Animate /\ UNCHANGED acts>>_vars => ~Due(w)'
  BY TicksAssumption DEF Due, Animate, opening
<1>7. TimerRuns /\ AnimateCanRun /\ Due(w) => ENABLED <<Animate /\ UNCHANGED acts>>_vars
  BY DEF AnimateCanRun, TimerRuns, Due
<1> HIDE DEF Out
<1>8. Spec /\ []TickCanRun /\ []AnimateCanRun => (w \in opening ~> Out)
  BY <1>1, <1>2, <1>3, <1>4, <1>5, <1>6, <1>7, TypeCorrect, LeadsHomeAlways,
     TimerNeverLost, PTL DEF Spec, Fairness, Leads
<1> QED
  BY <1>8 DEF Out
=============================================================================
