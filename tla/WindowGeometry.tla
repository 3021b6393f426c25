--------------------------- MODULE WindowGeometry --------------------------
(***************************************************************************)
(* Where finn-comp puts the windows (src/comp/server.cpp): the place of a  *)
(* new window, its entrance, interactive moves and resizes, maximize and   *)
(* restore, the area the panels leave, and a change of the display.        *)
(*                                                                         *)
(* Six handlers write the position of a window (scene_tree->node.y) and    *)
(* four ask its client for a height; each runs to its end on the one event *)
(* loop, and they come in any order.  A client answers a configure later,  *)
(* so the height the server reads (geometry.height) may be the one before. *)
(*                                                                         *)
(* One axis is modelled, the vertical: the code treats x as it treats y    *)
(* but for the entrance, which moves y alone.  One output stays plugged in.*)
(* geometry.y is added and subtracted alike and is taken as 0.             *)
(*                                                                         *)
(* External (wlroots): a toplevel maps after an initial commit and a first *)
(* buffer, and begins anew after an unmap; a move or resize is requested   *)
(* with any serial the seat ever gave out, also one of a press long over.  *)
(***************************************************************************)
EXTENDS Integers, SequencesExt

CONSTANTS
  Windows,     \* the toplevels
  Panels,      \* the layer surfaces
  Anchor,      \* Anchor[p]: the edge panel p reserves room at
  Zones,       \* the exclusive zones a panel may ask for
  Screens,     \* the logical heights the display may be set to
  Own,         \* the heights a client chooses when it may
  Cursors,     \* where the pointer may be, cursor_->y
  Ticks,       \* how many steps of time an entrance lasts (220 ms)
  Handled,     \* bound: the windows that are moved, resized and maximized
  MaxActs,     \* bound: new windows and panels, unmaps, maximizes, grabs and
               \* changes of the display in one behaviour
  Reduced,     \* FINN_REDUCED_MOTION, read from the server's environment
  None         \* the null pointer

ASSUME WindowsAssumption == IsFiniteSet(Windows)
ASSUME AnchorAssumption == Anchor \in [Panels -> {"top", "bottom"}]
ASSUME ScreensAssumption == Screens \subseteq Nat \ {0} /\ Screens # {}
ASSUME ZonesAssumption == Zones \subseteq Nat
ASSUME OwnAssumption == Own \subseteq Nat \ {0} /\ Cursors \subseteq Int
ASSUME TicksAssumption == Ticks \in Nat \ {0} /\ MaxActs \in Nat
ASSUME HandledAssumption == Handled \subseteq Windows
ASSUME ReducedAssumption == Reduced \in BOOLEAN
ASSUME NoneAssumption == None \notin Windows

Lift   == 14                 \* how far below its place a window enters
Keep   == 80                 \* a window starting lower than this much above
Back   == 200                \* the end of the area is put this far above it

VARIABLES
  phase,       \* phase[w]: "absent", "new", "initialized" or "mapped"
  node,        \* node[w]: scene_tree->node.y
  size,        \* size[w]: geometry.height, what the client last drew
  asked,       \* asked[w]: the height last sent to it; 0: its own choice
  pending,     \* the windows with a configure their client has not answered
  opened,      \* Toplevel::opened_once
  entrance,    \* entrance[w]: its open_to_y and the time since open_start_ms
  timer,       \* TRUE: anim_source_ is armed
  maximized,   \* Toplevel::maximized
  restore,     \* restore[w]: restore_y and restore_h
  grab,        \* grabbed_, cursor_mode_, grab_y_, grab_gy_, grab_gh_
  acts,        \* how many of the bounded acts there were
  screen,      \* height of the output in the layout
  usable,      \* usable_y_ and usable_h_
  layers,      \* layers_, in order of creation
  zone,        \* zone[p]: the zone panel p asked for in its last commit
  configured,  \* Layer::configured
  home,        \* history: where window w was put as a floating window
  drawn,       \* history: the height w last drew as a floating window
  cut,         \* history: windows whose entrance was ended by something else
  hasty,       \* history: windows maximized before they had settled
  steered      \* history: the grabbed window was last set by its resize

clientVars   == <<phase, size, drawn>>
askVars      == <<asked, pending>>
placeVars    == <<node, home>>
entranceVars == <<opened, entrance, timer, cut>>
maxVars      == <<maximized, restore, hasty>>
grabVars     == <<grab, steered>>
areaVars     == <<screen, usable, layers, zone, configured>>
vars == <<clientVars, askVars, placeVars, entranceVars, maxVars,
          grabVars, areaVars, acts>>

Live == {w \in Windows : phase[w] # "absent"}
Configurable(w) == phase[w] \in {"initialized", "mapped"}
Still == [to |-> 0, elapsed |-> -1]         \* no entrance is under way
opening == {w \in Windows : entrance[w] # Still}
NoGrab == [mode |-> "passthrough", window |-> None, offset |-> 0,
           top |-> 0, bottom |-> 0]
Greater(a, b) == IF a > b THEN a ELSE b

----------------------------------------------------------------------------
(* The area panels leave free.                                             *)

Whole(h) == [y |-> 0, h |-> h]

(* wlr_scene_layer_surface_v1_configure on the whole screen: panel p takes *)
(* zone z at its edge.                                                     *)
Without(p, z, h) ==
  [y |-> IF Anchor[p] = "top" THEN z ELSE 0, h |-> h - z]

(* Server::configure_layer: the area becomes what THIS layer leaves of the *)
(* whole screen, unless that is nothing.                                   *)
Configure(p, z, h, area) == IF h - z > 0 THEN Without(p, z, h) ELSE area

(* The loop of apply_output_config configures every layer in turn: the     *)
(* last one that leaves something decides.                                 *)
ConfigureAll(h) ==
  LET fitting == {n \in DOMAIN layers : h - zone[layers[n]] > 0} IN
  \/ /\ fitting = {}
     /\ usable' = Whole(h)
  \/ \E n \in fitting :
       /\ \A m \in fitting : m <= n
       /\ usable' = Without(layers[n], zone[layers[n]], h)

(* A window that starts too low for area a comes back into it.             *)
Clamp(y, a) == IF y > a.h - Keep THEN Greater(0, a.h - Back) ELSE y

----------------------------------------------------------------------------
(* Toplevels.                                                              *)

(* Server::add_toplevel: a cascade that starts again after eight windows.  *)
AddToplevel(w) ==
  /\ phase[w] = "absent"
  /\ LET y == 40 + 32 * (Cardinality(Live) % 8) IN
       /\ node' = [node EXCEPT ![w] = y]
       /\ home' = [home EXCEPT ![w] = y]
  /\ phase' = [phase EXCEPT ![w] = "new"]
  /\ UNCHANGED <<size, drawn, askVars, entranceVars, maxVars, grabVars,
                 areaVars>>

(* on_toplevel_commit with initial_commit: the client may choose.          *)
InitialCommit(w) ==
  /\ phase[w] = "new"
  /\ phase' = [phase EXCEPT ![w] = "initialized"]
  /\ asked' = [asked EXCEPT ![w] = 0]
  /\ pending' = pending \cup {w}
  /\ steered' = (steered /\ grab.window # w)
  /\ UNCHANGED <<size, drawn, placeVars, entranceVars, maxVars, grab,
                 areaVars>>

(* What a client may draw: the height asked for, or its own.               *)
Heights(w) == IF asked[w] = 0 THEN Own ELSE {asked[w]}

(* The client answers its last configure, or draws anew.                   *)
Draw(w, h) ==
  /\ phase[w] = "mapped"
  /\ size' = [size EXCEPT ![w] = h]
  /\ drawn' = [drawn EXCEPT ![w] = IF w \in maximized THEN @ ELSE h]
  /\ pending' = pending \ {w}
  /\ UNCHANGED <<phase, asked, placeVars, entranceVars, maxVars, grabVars,
                 areaVars>>

(* on_toplevel_map of the first buffer: begin_open_animation, whose first  *)
(* position is Lift below the place, and focus (WindowManager).            *)
MapToplevel(w, h) ==
  /\ phase[w] = "initialized"
  /\ phase' = [phase EXCEPT ![w] = "mapped"]
  /\ size' = [size EXCEPT ![w] = h]
  /\ drawn' = [drawn EXCEPT ![w] = IF w \in maximized THEN @ ELSE h]
  /\ pending' = pending \ {w}
  /\ opened' = opened \cup {w}
  /\ IF w \in opened \/ Reduced
     THEN UNCHANGED <<node, entrance, timer, steered>>
     ELSE /\ entrance' = [entrance EXCEPT ![w] = [to |-> node[w], elapsed |-> 0]]
          /\ node' = [node EXCEPT ![w] = @ + Lift]
          /\ timer' = TRUE
          /\ steered' = (steered /\ grab.window # w)
  /\ UNCHANGED <<asked, home, cut, maxVars, grab, areaVars>>

(* on_toplevel_unmap: the entrance ends where it was; nothing else is      *)
(* reset, Toplevel::maximized and restore_y neither.                       *)
UnmapToplevel(w) ==
  /\ phase[w] = "mapped"
  /\ phase' = [phase EXCEPT ![w] = "new"]
  /\ size' = [size EXCEPT ![w] = 0]
  /\ pending' = pending \ {w}
  /\ entrance' = [entrance EXCEPT ![w] = Still]
  /\ cut' = cut \cup (opening \cap {w})
  /\ UNCHANGED <<drawn, asked, placeVars, opened, timer, maxVars, grabVars,
                 areaVars>>

GrabKept(w) == grab                 \* mutant: the grab is not reset

(* The part of remove_toplevel that looks at grabbed_.                     *)
GrabWithout(w) == IF grab.window = w THEN NoGrab ELSE grab

(* on_toplevel_destroy: remove_toplevel, with all the entry holds.         *)
DestroyToplevel(w) ==
  /\ phase[w] # "absent"
  /\ phase' = [phase EXCEPT ![w] = "absent"]
  /\ node' = [node EXCEPT ![w] = 0]
  /\ home' = [home EXCEPT ![w] = 0]
  /\ size' = [size EXCEPT ![w] = 0]
  /\ drawn' = [drawn EXCEPT ![w] = 0]
  /\ asked' = [asked EXCEPT ![w] = 0]
  /\ restore' = [restore EXCEPT ![w] = Whole(0)]
  /\ pending' = pending \ {w}
  /\ opened' = opened \ {w}
  /\ entrance' = [entrance EXCEPT ![w] = Still]
  /\ cut' = cut \ {w}
  /\ maximized' = maximized \ {w}
  /\ hasty' = hasty \ {w}
  /\ grab' = GrabWithout(w)
  /\ steered' = (steered /\ grab.window # w)
  /\ UNCHANGED <<timer, areaVars>>

----------------------------------------------------------------------------
(* The entrance.                                                           *)

(* Time passes for every entrance alike; the code measures it as k, from 0 *)
(* to 1.                                                                   *)
Tick ==
  /\ \E w \in opening : entrance[w].elapsed < Ticks
  /\ entrance' = [w \in Windows |->
                    IF entrance[w].elapsed \in 0 .. Ticks - 1
                    THEN [to |-> entrance[w].to, elapsed |-> entrance[w].elapsed + 1]
                    ELSE entrance[w]]
  /\ UNCHANGED <<clientVars, askVars, placeVars, opened, timer, cut, maxVars,
                 grabVars, areaVars>>

(* How far below its place a window is: Lift at first, 0 when it is over.  *)
(* ease_out_cubic in between is taken as a line.                           *)
Offset(t) == Lift - (Lift * t) \div Ticks

PositionByStep(w) == node[w] - Lift \div Ticks     \* mutant: a step further

(* The position follows from the time, not from where the window is: what  *)
(* else moved it is undone.                                                *)
Position(w) == entrance[w].to + Offset(entrance[w].elapsed)

UntilOneEnds ==                     \* mutant: the last one decides `active`
  \A w \in opening : entrance[w].elapsed < Ticks

(* What animate_windows returns: the timer is needed again.                *)
AnyLeft == \E w \in opening : entrance[w].elapsed < Ticks

(* on_animation: animate_windows. *)
Animate ==
  /\ timer
  /\ node' = [w \in Windows |-> IF w \in opening THEN Position(w) ELSE node[w]]
  /\ entrance' = [w \in Windows |->
                    IF entrance[w].elapsed = Ticks THEN Still ELSE entrance[w]]
  /\ timer' = AnyLeft
  /\ steered' = (steered /\ grab.window \notin opening)
  /\ UNCHANGED <<clientVars, askVars, home, opened, cut, maxVars, grab,
                 areaVars>>

----------------------------------------------------------------------------
(* Maximize and restore.                                                   *)

EvenIfMaximized(w) == TRUE          \* mutant: a maximized one is saved too

(* Server::maximize returns at once for a window that is maximized.  There *)
(* is always an area to fill.                                              *)
MayMaximize(w) == w \notin maximized

(* on_toplevel_request_maximize, Server::maximize. *)
Maximize(w) ==
  /\ Configurable(w)
  /\ MayMaximize(w)
  /\ restore' = [restore EXCEPT ![w] = [y |-> node[w], h |-> size[w]]]
  /\ maximized' = maximized \cup {w}
  /\ entrance' = [entrance EXCEPT ![w] = Still]
  /\ node' = [node EXCEPT ![w] = usable.y]
  /\ asked' = [asked EXCEPT ![w] = usable.h]
  /\ pending' = pending \cup {w}
  /\ cut' = cut \cup (opening \cap {w})
  /\ hasty' = IF w \in pending THEN hasty \cup {w} ELSE hasty \ {w}
  /\ steered' = (steered /\ grab.window # w)
  /\ UNCHANGED <<clientVars, home, opened, timer, grab, areaVars>>

(* on_toplevel_request_maximize, Server::unmaximize.                       *)
Unmaximize(w) ==
  /\ Configurable(w)
  /\ w \in maximized
  /\ maximized' = maximized \ {w}
  /\ entrance' = [entrance EXCEPT ![w] = Still]
  /\ node' = [node EXCEPT ![w] = restore[w].y]
  /\ asked' = [asked EXCEPT ![w] = IF restore[w].h > 0 THEN restore[w].h ELSE @]
  /\ pending' = pending \cup {w}
  /\ steered' = (steered /\ grab.window # w)
  /\ UNCHANGED <<clientVars, home, opened, timer, cut, hasty, restore, grab,
                 areaVars>>

----------------------------------------------------------------------------
(* Interactive move and resize.                                            *)

(* on_toplevel_request_move: begin_interactive, whether or not a button is *)
(* held.                                                                   *)
BeginMove(w, c) ==
  /\ Configurable(w)
  /\ grab' = [mode |-> "move", window |-> w, offset |-> c - node[w],
              top |-> 0, bottom |-> 0]
  /\ steered' = FALSE
  /\ UNCHANGED <<clientVars, askVars, placeVars, entranceVars, maxVars,
                 areaVars>>

(* on_toplevel_request_resize by the top or the bottom edge (a side alone  *)
(* leaves this axis as it is): begin_interactive keeps the rectangle the   *)
(* client last drew.                                                       *)
BeginResize(w, edge, c) ==
  /\ Configurable(w)
  /\ grab' = [mode |-> edge, window |-> w,
              offset |-> c - node[w] - (IF edge = "bottom" THEN size[w] ELSE 0),
              top |-> node[w], bottom |-> node[w] + size[w]]
  /\ steered' = FALSE
  /\ UNCHANGED <<clientVars, askVars, placeVars, entranceVars, maxVars,
                 areaVars>>

(* A floating window that is put somewhere belongs there, unless it is on  *)
(* its way in: the entrance has the last word.                             *)
Put(w, y) ==
  /\ node' = [node EXCEPT ![w] = y]
  /\ IF w \in maximized \cup opening THEN UNCHANGED <<home, cut>>
     ELSE home' = [home EXCEPT ![w] = y] /\ cut' = cut \ {w}

(* process_cursor_move: the point that was taken stays under the pointer.  *)
DragWindow(c) ==
  /\ grab.mode = "move"
  /\ Put(grab.window, c - grab.offset)
  /\ UNCHANGED <<askVars, steered>>

TopThrough(border) == IF grab.mode = "top" THEN border ELSE grab.top
                                    \* mutant: the edges may cross

(* The edges of the window, with the held one at border; it stops a pixel  *)
(* before the other.                                                       *)
TopEdge(border) ==
  IF grab.mode # "top" THEN grab.top
  ELSE IF border >= grab.bottom THEN grab.bottom - 1 ELSE border
BottomEdge(border) ==
  IF grab.mode # "bottom" THEN grab.bottom ELSE Greater(border, grab.top + 1)

(* process_cursor_resize. *)
DragEdge(c) ==
  LET border == c - grab.offset
      height == BottomEdge(border) - TopEdge(border)
  IN  /\ grab.mode \in {"top", "bottom"}
      /\ Put(grab.window, TopEdge(border))
      /\ asked' = [asked EXCEPT ![grab.window] = height]
      /\ pending' = pending \cup {grab.window}
      /\ steered' = TRUE

(* on_cursor_motion and on_cursor_motion_absolute: process_cursor_motion   *)
(* with a grab; without one the motion goes to the surface below.          *)
MoveCursor(c) ==
  /\ DragWindow(c) \/ DragEdge(c)
  /\ UNCHANGED <<clientVars, opened, entrance, timer, maxVars, grab, areaVars>>

(* on_cursor_button, released: reset_cursor_mode.                          *)
Release ==
  /\ grab # NoGrab
  /\ grab' = NoGrab
  /\ UNCHANGED <<clientVars, askVars, placeVars, entranceVars, maxVars, steered,
                 areaVars>>

----------------------------------------------------------------------------
(* The display and the panels.                                             *)

(* update_display_settings or a new output: apply_output_config, with a    *)
(* commit that is accepted.                                                *)
ApplyOutputConfig(h) ==
  /\ screen' = h
  /\ ConfigureAll(h)
  /\ node' = [w \in Windows |->
                IF w \notin Live THEN node[w]
                ELSE IF w \in maximized THEN usable'.y
                ELSE Clamp(node[w], usable')]
  /\ home' = [w \in Windows |->
                IF w \in Live \ (maximized \cup opening \cup cut) THEN node'[w]
                ELSE home[w]]
  /\ asked' = [w \in Windows |-> IF w \in maximized THEN usable'.h ELSE asked[w]]
  /\ pending' = pending \cup {w \in maximized : Configurable(w)}
  /\ steered' = FALSE
  /\ UNCHANGED <<clientVars, entranceVars, maxVars, grab, layers,
                 zone, configured>>

(* Server::add_layer. *)
AddLayer(p) ==
  /\ \A n \in DOMAIN layers : layers[n] # p
  /\ layers' = Append(layers, p)
  /\ UNCHANGED <<clientVars, askVars, placeVars, entranceVars, maxVars,
                 grabVars, screen, usable, zone, configured>>

(* on_layer_commit: only the first commit configures the layer, and so the *)
(* area; the windows are left where they are.                              *)
CommitLayer(p, z) ==
  /\ \E n \in DOMAIN layers : layers[n] = p
  /\ zone' = [zone EXCEPT ![p] = z]
  /\ configured' = configured \cup {p}
  /\ usable' = IF p \in configured THEN usable ELSE Configure(p, z, screen, usable)
  /\ UNCHANGED <<clientVars, askVars, placeVars, entranceVars, maxVars,
                 grabVars, screen, layers>>

(* on_layer_destroy: remove_layer.  The area is not computed again.        *)
RemoveLayer(p) ==
  /\ \E n \in DOMAIN layers : layers[n] = p /\ layers' = RemoveAt(layers, n)
  /\ zone' = [zone EXCEPT ![p] = 0]
  /\ configured' = configured \ {p}
  /\ UNCHANGED <<clientVars, askVars, placeVars, entranceVars, maxVars,
                 grabVars, screen, usable>>

----------------------------------------------------------------------------
Init ==
  /\ phase = [w \in Windows |-> "absent"]
  /\ node = [w \in Windows |-> 0]
  /\ size = [w \in Windows |-> 0]
  /\ asked = [w \in Windows |-> 0]
  /\ pending = {} /\ opened = {}
  /\ entrance = [w \in Windows |-> Still]
  /\ timer = FALSE
  /\ maximized = {}
  /\ restore = [w \in Windows |-> Whole(0)]
  /\ grab = NoGrab
  /\ acts = 0
  /\ screen \in Screens
  /\ usable = Whole(screen)
  /\ layers = <<>>
  /\ zone = [p \in Panels |-> 0]
  /\ configured = {}
  /\ home = [w \in Windows |-> 0]
  /\ drawn = [w \in Windows |-> 0]
  /\ cut = {} /\ hasty = {}
  /\ steered = FALSE

FreeStep ==
  \/ \E w \in Windows :
       \/ InitialCommit(w)
       \/ \E h \in Heights(w) : Draw(w, h)
       \/ \E h \in Heights(w) : MapToplevel(w, h)
       \/ DestroyToplevel(w)
       \/ Unmaximize(w)
  \/ \E p \in Panels :
       \/ \E z \in Zones : CommitLayer(p, z)
       \/ RemoveLayer(p)
  \/ \E c \in Cursors : MoveCursor(c)
  \/ Tick
  \/ Animate
  \/ Release

BoundedStep ==
  \/ \E w \in Windows : AddToplevel(w) \/ UnmapToplevel(w)
  \/ \E w \in Handled :
       \/ Maximize(w)
       \/ \E c \in Cursors :
            \/ BeginMove(w, c)
            \/ \E edge \in {"top", "bottom"} : BeginResize(w, edge, c)
  \/ \E p \in Panels : AddLayer(p)
  \/ \E h \in Screens : ApplyOutputConfig(h)

Next ==
  \/ FreeStep /\ UNCHANGED acts
  \/ BoundedStep /\ acts < MaxActs /\ acts' = acts + 1

(* Time passes, and the event loop runs a timer that is due.  No client    *)
(* and no user has to do anything.                                         *)
Fairness == WF_vars(Tick /\ UNCHANGED acts) /\ WF_vars(Animate /\ UNCHANGED acts)

Spec == Init /\ [][Next]_vars /\ Fairness

----------------------------------------------------------------------------
(* Properties.                                                             *)

(* Every variable keeps its shape; the lists name live windows, a grab is  *)
(* of a live window, and the area is never empty, so maximize always has   *)
(* one to fill.                                                            *)
WindowsOK ==
  /\ phase \in [Windows -> {"absent", "new", "initialized", "mapped"}]
  /\ node \in [Windows -> Int] /\ home \in [Windows -> Int]
  /\ size \in [Windows -> Nat] /\ asked \in [Windows -> Nat]
  /\ drawn \in [Windows -> Nat]
  /\ restore \in [Windows -> [y : Int, h : Nat]]
ListsOK ==
  pending \cup opened \cup opening \cup maximized \cup cut \cup hasty \subseteq Live
EntranceOK ==
  /\ entrance \in [Windows -> [to : Int, elapsed : 0 .. Ticks] \cup {Still}]
  /\ timer \in BOOLEAN
GrabOK ==
  /\ grab \in [mode : {"passthrough", "move", "top", "bottom"},
               window : Live \cup {None}, offset : Int, top : Int, bottom : Int]
  /\ IF grab.mode = "passthrough" THEN grab = NoGrab ELSE grab.window \in Live
  /\ grab.top <= grab.bottom
  /\ steered \in BOOLEAN
AreaOK ==
  /\ screen \in Screens
  /\ usable \in [y : Nat, h : Nat \ {0}]
  /\ layers \in Seq(Panels)
  /\ zone \in [Panels -> Nat]
  /\ configured \subseteq Panels
TypeOK ==
  WindowsOK /\ ListsOK /\ EntranceOK /\ GrabOK /\ AreaOK /\ acts \in 0 .. MaxActs

(* A floating window at rest stands where it belongs: where it was created,*)
(* dragged to, or brought back to when the display shrank, whatever        *)
(* entrances, drags of it while it was maximized and changes of the        *)
(* display came in between.  An entrance that something cut short leaves   *)
(* it where it was (cut).                                                  *)
StandsWherePut ==
  \A w \in Live \ (opening \cup maximized \cup cut) : node[w] = home[w]

(* What maximize saved is what the window was before: its place, also when *)
(* it is maximized again and again, dragged or resized as maximized, or    *)
(* the display changes, and the height it drew, unless it was maximized    *)
(* with a configure still to answer (hasty).                               *)
RestoreKept ==
  \A w \in maximized :
    /\ w \notin cut   => restore[w].y = home[w]
    /\ w \notin hasty => restore[w].h = drawn[w]

(* While a resize is the last to have set its window, the edge that is not *)
(* held is where it was when the resize began, once the client has drawn   *)
(* what it was asked for; and the client is asked for a pixel at least,    *)
(* however far the pointer passes the other edge: a height of 0 would      *)
(* leave it the choice.                                                    *)
OtherEdgeStays ==
  steered /\ grab.mode \in {"top", "bottom"} =>
    LET w == grab.window IN
      /\ asked[w] >= 1
      /\ grab.mode = "bottom" => node[w] = grab.top
      /\ grab.mode = "top" /\ phase[w] = "mapped" /\ w \notin pending
           => node[w] + size[w] = grab.bottom

(* The one timer serves every entrance: it is armed while one is under way.*)
TimerRuns == opening # {} => timer

(* Every entrance ends, whichever others begin, end or are cut short while *)
(* it lasts.                                                               *)
EntranceEnds == \A w \in Windows : w \in opening ~> w \notin opening

(* server.hpp:195: usable_ is the area "remaining after reserving screen   *)
(* regions for anchored layer-shell panels (dock, status) so maximized     *)
(* windows do not cover them".                                             *)
PanelsLeftFree ==
  \A n \in DOMAIN layers :
    LET p == layers[n] IN
      p \in configured =>
        IF Anchor[p] = "top" THEN usable.y >= zone[p]
        ELSE usable.y + usable.h <= screen - zone[p]
============================================================================
