--------------------------- MODULE WindowManager ---------------------------
(***************************************************************************)
(* Focus, stacking and the pointer grab of finn-comp (src/comp/server.cpp).*)
(*                                                                         *)
(* One wl_event_loop runs every handler to its end, so a handler is one    *)
(* step here; what interleaves is the ORDER in which requests of several   *)
(* clients, seat events and device events reach the loop.                  *)
(*                                                                         *)
(* The server keeps four raw pointers into two vectors it erases from      *)
(* (focused_, last_focused_, focused_layer_, grabbed_), and wlroots keeps  *)
(* a fifth notion of "who has the keyboard", the seat's focused surface.   *)
(* The properties relate these five.                                       *)
(*                                                                         *)
(* External (wlroots, modelled from how the code uses it): a surface maps  *)
(* and unmaps, an unmapped toplevel needs a new initial commit, the seat   *)
(* forgets a focused surface only when the wl_surface is destroyed, and    *)
(* forgets its keyboard when that device goes.  Geometry is WindowGeometry,*)
(* frames and outputs are not here.  Alt+Escape ends the process: a        *)
(* behaviour that stutters for ever.                                       *)
(***************************************************************************)
EXTENDS Naturals

CONSTANTS
  MaxWindows,   \* bound: how many toplevels are created in one behaviour
  Layers,       \* the layer surfaces the clients may create
  Keyboards,    \* the keyboard devices
  None          \* the null pointer

ASSUME WindowsAssumption == MaxWindows \in Nat
ASSUME LayersAssumption  == Layers \cap Nat = {}
ASSUME NoneAssumption    == None \notin Nat \cup Layers \cup Keyboards

(* A toplevel is named by its rank of creation, so the order of the ids is *)
(* the order of the vector toplevels_, which only ever push_backs.         *)
Windows == 1 .. MaxWindows

WindowPhase == {"absent", "new", "initialized", "mapped"}
LayerPhase  == {"absent", "new", "configured", "mapped", "unmapped"}
CursorModes == {"passthrough", "move", "resize"}

VARIABLES
  created,       \* number of toplevels created so far
  window,        \* window[t]: what xdg-shell knows of toplevel t
  under,         \* under[t]: the toplevels drawn below t in toplevel_tree_
  activated,     \* toplevels whose last set_activated was TRUE
  layer,         \* layer[l]: what layer-shell knows of layer surface l
  interactive,   \* layers with current.keyboard_interactive # 0
  focused,       \* focused_
  lastFocused,   \* last_focused_
  focusedLayer,  \* focused_layer_
  seatFocus,     \* seat_->keyboard_state.focused_surface, by its owner
  grabbed,       \* grabbed_
  cursorMode,    \* cursor_mode_
  keyboards,     \* keyboards_
  seatKeyboard,  \* wlr_seat_get_keyboard(seat_)
  steady         \* history: the seat has had a keyboard since boot

clientVars   == <<created, window, layer, interactive>>
focusVars    == <<under, activated, focused, lastFocused, focusedLayer, seatFocus>>
grabVars     == <<grabbed, cursorMode>>
keyboardVars == <<keyboards, seatKeyboard, steady>>
vars == <<clientVars, focusVars, grabVars, keyboardVars>>

Alive  == {t \in Windows : window[t] # "absent"}
Mapped == {t \in Windows : window[t] = "mapped"}
LiveLayers == {l \in Layers : layer[l] # "absent"}

----------------------------------------------------------------------------
(* Helpers shared by the handlers.                                         *)

(* wlr_scene_node_raise_to_top on the tree of t: above every sibling.      *)
RaiseToTop(t) ==
  [u \in Windows |-> IF u = t THEN Alive \ {t} ELSE under[u] \ {t}]

(* Server::focus(t), entered with the seat focus being `previous`: nothing *)
(* when t has it already; otherwise the previous toplevel is deactivated,  *)
(* t is raised and activated, and the seat follows if it has a keyboard.   *)
Focus(t, previous) ==
  \/ /\ previous = t
     /\ seatFocus' = previous
     /\ UNCHANGED <<under, activated, focused, lastFocused, focusedLayer>>
  \/ /\ previous # t
     /\ under' = RaiseToTop(t)
     /\ activated' = (activated \ {previous}) \cup {t}
     /\ seatFocus' = IF seatKeyboard = None THEN previous ELSE t
     /\ focused' = t
     /\ lastFocused' = t
     /\ focusedLayer' = None

FocusLayerKeepsFocused(l) ==        \* mutant: focused_ is not reset
  \/ /\ seatKeyboard = None
     /\ UNCHANGED focusVars
  \/ /\ seatKeyboard # None
     /\ seatFocus' = l
     /\ activated' = activated \ {focused}
     /\ focusedLayer' = l
     /\ UNCHANGED <<under, focused, lastFocused>>

FocusLayerAsLast(l) ==              \* mutant: remembered as last_focused_
  \/ /\ seatKeyboard = None
     /\ UNCHANGED focusVars
  \/ /\ seatKeyboard # None
     /\ seatFocus' = l
     /\ activated' = activated \ {focused}
     /\ focused' = None
     /\ lastFocused' = l
     /\ focusedLayer' = l
     /\ UNCHANGED under

(* Server::focus_layer(l) for an l that maps or commits with keyboard      *)
(* interactivity: without a seat keyboard it returns early.                *)
FocusLayer(l) ==
  \/ /\ seatKeyboard = None
     /\ UNCHANGED focusVars
  \/ /\ seatKeyboard # None
     /\ seatFocus' = l
     /\ activated' = activated \ {focused}
     /\ focused' = None
     /\ focusedLayer' = l
     /\ UNCHANGED <<under, lastFocused>>

HandBackToNobody(l) ==              \* mutant: last_focused_ is not consulted
  \/ /\ focusedLayer # l
     /\ UNCHANGED focusVars
  \/ /\ focusedLayer = l
     /\ focusedLayer' = None
     /\ seatFocus' = None
     /\ UNCHANGED <<under, activated, focused, lastFocused>>

(* The tail shared by remove_layer and on_layer_commit: the layer that     *)
(* holds the keyboard lets go of it, and last_focused_ gets it back.       *)
HandBack(l) ==
  \/ /\ focusedLayer # l
     /\ UNCHANGED focusVars
  \/ /\ focusedLayer = l
     /\ lastFocused = None
     /\ focusedLayer' = None
     /\ seatFocus' = None
     /\ UNCHANGED <<under, activated, focused, lastFocused>>
  \/ /\ focusedLayer = l
     /\ lastFocused # None
     /\ Focus(lastFocused, None)

----------------------------------------------------------------------------
(* xdg toplevels.                                                          *)

(* Server::add_toplevel: a new scene tree is the topmost child.            *)
AddToplevel ==
  /\ created < MaxWindows
  /\ created' = created + 1
  /\ window' = [window EXCEPT ![created + 1] = "new"]
  /\ under' = [under EXCEPT ![created + 1] = Alive]
  /\ UNCHANGED <<activated, layer, interactive, focused,
                 lastFocused, focusedLayer, seatFocus, grabVars, keyboardVars>>

(* on_toplevel_commit with initial_commit: answered with a size of 0x0.    *)
InitialCommit(t) ==
  /\ window[t] = "new"
  /\ window' = [window EXCEPT ![t] = "initialized"]
  /\ UNCHANGED <<created, layer, interactive, focusVars, grabVars,
                 keyboardVars>>

MapWithoutFocus(t) ==               \* mutant: the map does not focus
  /\ window[t] = "initialized"
  /\ window' = [window EXCEPT ![t] = "mapped"]
  /\ UNCHANGED <<created, layer, interactive, focusVars, grabVars,
                 keyboardVars>>

(* on_toplevel_map. *)
MapToplevel(t) ==
  /\ window[t] = "initialized"
  /\ window' = [window EXCEPT ![t] = "mapped"]
  /\ Focus(t, seatFocus)
  /\ UNCHANGED <<created, layer, interactive, grabVars, keyboardVars>>

(* on_toplevel_unmap: only focused_ is dropped. *)
UnmapToplevel(t) ==
  /\ window[t] = "mapped"
  /\ window' = [window EXCEPT ![t] = "new"]
  /\ focused' = IF focused = t THEN None ELSE focused
  /\ UNCHANGED <<created, layer, interactive, under, activated,
                 lastFocused, focusedLayer, seatFocus, grabVars, keyboardVars>>

(* on_toplevel_destroy (after the unmap wlroots makes of a mapped one):    *)
(* Server::remove_toplevel.  The scene tree goes with it.                  *)
DestroyToplevel(t) ==
  /\ window[t] # "absent"
  /\ window' = [window EXCEPT ![t] = "absent"]
  /\ under' = [u \in Windows |-> IF u = t THEN {} ELSE under[u] \ {t}]
  /\ activated' = activated \ {t}
  /\ focused' = IF focused = t THEN None ELSE focused
  /\ lastFocused' = IF lastFocused = t THEN None ELSE lastFocused
  /\ grabbed' = IF grabbed = t THEN None ELSE grabbed
  /\ cursorMode' = IF grabbed = t THEN "passthrough" ELSE cursorMode
  /\ UNCHANGED <<created, layer, interactive, focusedLayer, seatFocus,
                 keyboardVars>>

(* The client destroys the wl_surface of a role object already gone: the   *)
(* seat drops its focus.                                                   *)
DestroySurface ==
  /\ seatFocus # None
  /\ seatFocus \notin Alive \cup LiveLayers
  /\ seatFocus' = None
  /\ UNCHANGED <<clientVars, under, activated, focused, lastFocused,
                 focusedLayer, grabVars, keyboardVars>>

(* on_toplevel_request_maximize: Server::maximize or unmaximize, whichever *)
(* is not so already (WindowGeometry), focuses the window.                 *)
RequestMaximize(t) ==
  /\ window[t] \in {"initialized", "mapped"}
  /\ Focus(t, seatFocus)
  /\ UNCHANGED <<clientVars, grabVars, keyboardVars>>

(* on_toplevel_request_move and _resize: begin_interactive asks neither    *)
(* for a held button, nor for the focus, nor for no other grab.            *)
BeginInteractive(t, mode) ==
  /\ window[t] \in {"initialized", "mapped"}
  /\ grabbed' = t
  /\ cursorMode' = mode
  /\ UNCHANGED <<clientVars, focusVars, keyboardVars>>

----------------------------------------------------------------------------
(* Layer surfaces.                                                         *)

(* Server::add_layer, with an output; a re-used name is a new wl_surface.  *)
AddLayer(l) ==
  /\ layer[l] = "absent"
  /\ seatFocus # l
  /\ layer' = [layer EXCEPT ![l] = "new"]
  /\ interactive' = interactive \ {l}
  /\ UNCHANGED <<created, window, focusVars, grabVars, keyboardVars>>

(* on_layer_commit, the first one after the surface is initialized.        *)
ConfigureLayer(l) ==
  /\ layer[l] = "new"
  /\ layer' = [layer EXCEPT ![l] = "configured"]
  /\ UNCHANGED <<created, window, interactive, focusVars, grabVars,
                 keyboardVars>>

(* on_layer_map and the on_layer_commit of the same commit (k: whether it  *)
(* asks for the keyboard).                                                 *)
MapLayer(l, k) ==
  /\ layer[l] = "configured"
  /\ layer' = [layer EXCEPT ![l] = "mapped"]
  /\ interactive' = IF k THEN interactive \cup {l} ELSE interactive \ {l}
  /\ IF k THEN FocusLayer(l) ELSE HandBack(l)
  /\ UNCHANGED <<created, window, grabVars, keyboardVars>>

CommitWithoutRelease(l, k) ==       \* mutant: a panel cannot let go
  /\ layer[l] = "mapped"
  /\ interactive' = IF k THEN interactive \cup {l} ELSE interactive \ {l}
  /\ IF k THEN FocusLayer(l) ELSE UNCHANGED focusVars
  /\ UNCHANGED <<created, window, layer, grabVars, keyboardVars>>

(* on_layer_commit of a mapped layer. *)
CommitLayer(l, k) ==
  /\ layer[l] = "mapped"
  /\ interactive' = IF k THEN interactive \cup {l} ELSE interactive \ {l}
  /\ IF k THEN FocusLayer(l) ELSE HandBack(l)
  /\ UNCHANGED <<created, window, layer, grabVars, keyboardVars>>

(* on_layer_commit with a null buffer: the surface is no longer mapped and *)
(* the handler returns; nothing listens to the unmap of a layer.           *)
UnmapLayer(l) ==
  /\ layer[l] = "mapped"
  /\ layer' = [layer EXCEPT ![l] = "unmapped"]
  /\ UNCHANGED <<created, window, interactive, focusVars, grabVars,
                 keyboardVars>>

DestroyLayerSilently(l) ==          \* mutant: focused_layer_ is not reset
  /\ layer[l] # "absent"
  /\ layer' = [layer EXCEPT ![l] = "absent"]
  /\ UNCHANGED <<created, window, interactive, focusVars, grabVars,
                 keyboardVars>>

(* on_layer_destroy: Server::remove_layer. *)
DestroyLayer(l) ==
  /\ layer[l] # "absent"
  /\ layer' = [layer EXCEPT ![l] = "absent"]
  /\ HandBack(l)
  /\ UNCHANGED <<created, window, interactive, grabVars, keyboardVars>>

----------------------------------------------------------------------------
(* The seat.                                                               *)

(* on_cursor_button (pressed) and on_touch_down over window t; over a      *)
(* panel or the background toplevel_at is null and focus returns.          *)
Press(t) ==
  /\ window[t] = "mapped"
  /\ Focus(t, seatFocus)
  /\ UNCHANGED <<clientVars, grabVars, keyboardVars>>

(* on_cursor_button (released): reset_cursor_mode. *)
Release ==
  /\ cursorMode # "passthrough"
  /\ grabbed' = None
  /\ cursorMode' = "passthrough"
  /\ UNCHANGED <<clientVars, focusVars, keyboardVars>>

(* handle_keybinding, Alt+F1: the toplevel after focused_ in the vector,   *)
(* the first one when focused_ is the last or null.  Mapped or not.        *)
NextInCycle(t) ==
  LET later == {u \in Alive : focused # None /\ u > focused}
      pool  == IF later = {} THEN Alive ELSE later
  IN  t \in pool /\ \A u \in pool : t <= u

CycleWindows ==
  /\ seatKeyboard # None
  /\ \E t \in Alive : NextInCycle(t) /\ Focus(t, seatFocus)
  /\ UNCHANGED <<clientVars, grabVars, keyboardVars>>

(* Server::add_keyboard. *)
AddKeyboard(k) ==
  /\ k \notin keyboards
  /\ keyboards' = keyboards \cup {k}
  /\ seatKeyboard' = k
  /\ UNCHANGED <<clientVars, focusVars, grabVars, steady>>

(* on_keyboard_destroy: remove_keyboard, and wlroots forgets the device.   *)
RemoveKeyboard(k) ==
  /\ k \in keyboards
  /\ keyboards' = keyboards \ {k}
  /\ seatKeyboard' = IF seatKeyboard = k THEN None ELSE seatKeyboard
  /\ steady' = (steady /\ seatKeyboard # k)
  /\ UNCHANGED <<clientVars, focusVars, grabVars>>

(* on_keyboard_key and on_keyboard_modifiers: wlr_seat_set_keyboard.  The  *)
(* key itself goes to seatFocus.                                           *)
UseKeyboard(k) ==
  /\ k \in keyboards
  /\ seatKeyboard # k
  /\ seatKeyboard' = k
  /\ UNCHANGED <<clientVars, focusVars, grabVars, keyboards, steady>>

----------------------------------------------------------------------------
Init ==
  /\ created = 0
  /\ window = [t \in Windows |-> "absent"]
  /\ under = [t \in Windows |-> {}]
  /\ activated = {}
  /\ layer = [l \in Layers |-> "absent"]
  /\ interactive = {}
  /\ focused = None
  /\ lastFocused = None
  /\ focusedLayer = None
  /\ seatFocus = None
  /\ grabbed = None
  /\ cursorMode = "passthrough"
  /\ keyboards \in SUBSET Keyboards     \* those wlroots finds at boot
  /\ seatKeyboard \in IF keyboards = {} THEN {None} ELSE keyboards
  /\ steady = (keyboards # {})

WindowStep(t) ==
  \/ InitialCommit(t)
  \/ MapToplevel(t)
  \/ UnmapToplevel(t)
  \/ DestroyToplevel(t)
  \/ RequestMaximize(t)
  \/ \E mode \in {"move", "resize"} : BeginInteractive(t, mode)
  \/ Press(t)

LayerStep(l) ==
  \/ AddLayer(l)
  \/ ConfigureLayer(l)
  \/ \E k \in BOOLEAN : MapLayer(l, k)
  \/ \E k \in BOOLEAN : CommitLayer(l, k)
  \/ UnmapLayer(l)
  \/ DestroyLayer(l)

KeyboardStep(k) ==
  \/ AddKeyboard(k)
  \/ RemoveKeyboard(k)
  \/ UseKeyboard(k)

Next ==
  \/ AddToplevel
  \/ \E t \in Windows : WindowStep(t)
  \/ \E l \in Layers : LayerStep(l)
  \/ \E k \in Keyboards : KeyboardStep(k)
  \/ DestroySurface
  \/ Release
  \/ CycleWindows

Spec == Init /\ [][Next]_vars

----------------------------------------------------------------------------
(* Properties.                                                             *)

(* Every variable keeps its shape; a pointer's referent is a separate      *)
(* question (NoDangling).                                                  *)
TypeOK ==
  /\ created \in 0 .. MaxWindows
  /\ window \in [Windows -> WindowPhase]
  /\ under \in [Windows -> SUBSET Windows]
  /\ activated \subseteq Windows
  /\ layer \in [Layers -> LayerPhase]
  /\ interactive \subseteq Layers
  /\ focused \in Windows \cup {None}
  /\ lastFocused \in Windows \cup {None}
  /\ focusedLayer \in Layers \cup {None}
  /\ seatFocus \in Windows \cup Layers \cup {None}
  /\ grabbed \in Windows \cup {None}
  /\ cursorMode \in CursorModes
  /\ keyboards \subseteq Keyboards
  /\ seatKeyboard \in Keyboards \cup {None}
  /\ steady \in BOOLEAN

(* The raw pointers never outlive the unique_ptr they point into: whatever *)
(* order windows and panels are destroyed in, focused_, last_focused_,     *)
(* grabbed_ and focused_layer_ are null or name a live entry, so no        *)
(* handler ever dereferences freed memory.                                 *)
NoDangling ==
  /\ focused \in Alive \cup {None}
  /\ lastFocused \in Alive \cup {None}
  /\ grabbed \in Alive \cup {None}
  /\ focusedLayer \in LiveLayers \cup {None}
  /\ seatKeyboard \in keyboards \cup {None}

(* One owner of the keyboard: a window and a panel are never both focused, *)
(* and a panel the server believes focused really has the seat and, while  *)
(* it is mapped, asked for the keyboard in its last commit.                *)
OneKeyboardOwner ==
  focusedLayer # None =>
    /\ focused = None
    /\ seatFocus = focusedLayer
    /\ layer[focusedLayer] = "mapped" => focusedLayer \in interactive

(* Focus and stacking are one policy: no mapped window covers the focused  *)
(* one, over any sequence of maps, clicks, cycles, hand-backs and          *)
(* destructions.                                                           *)
FocusedOnTop ==
  \A t \in Mapped : focused # None /\ t # focused => t \in under[focused]

(* Why FocusedOnTop survives every step: a live window that is not below   *)
(* the focused one is unmapped, and the seat does not hold it, so the step *)
(* that shows it is the step that raises and focuses it.  New windows get  *)
(* a fresh rank.                                                           *)
StackOrder ==
  /\ focused # None =>
       \A t \in Alive \ {focused} :
         \/ t \in under[focused]
         \/ t \notin Mapped /\ seatFocus # t
  /\ \A t \in Windows : t > created => t \notin Alive /\ seatFocus # t

(* The focused window is told it is active, and it is the one a panel      *)
(* hands the keyboard back to.                                             *)
FocusedIsActive ==
  focused # None => focused \in activated /\ lastFocused = focused

(* The server's focus and the seat's focus agree as long as the seat never *)
(* was without a keyboard, whichever keyboards come, go and take turns:    *)
(* keys reach the window drawn as focused.                                 *)
KeysFollowFocus ==
  steady /\ focused # None => seatFocus = focused

(* The keyboard has one owner that exists, a window takes it and a panel   *)
(* only borrows it: whatever happens between two steps of a panel, windows *)
(* mapped, pressed, cycled, unmapped and destroyed, the keyboard is with   *)
(* the window that had it last when the panel lets go or dies.             *)
Policy == INSTANCE KeyboardPolicy WITH
  Panels <- Layers,
  windows <- Alive,
  panels <- LiveLayers,
  owner <- IF focusedLayer # None THEN focusedLayer ELSE focused,
  last <- lastFocused
KeepsPolicy == Policy!Spec

(* A panel that stops holding the keyboard, by a commit or by dying, or    *)
(* because a window is clicked, leaves it with the last focused window     *)
(* whenever there is one (and the seat never was without a keyboard).      *)
KeyboardReturns ==
  [][steady /\ focusedLayer # None /\ focusedLayer' = None /\ lastFocused' # None
       => focused' = lastFocused' /\ seatFocus' = lastFocused']_vars

(* docs/code-map.md:61: on_toplevel_map "starts the 220 ms entrance and    *)
(* focuses it".                                                            *)
MapFocuses ==
  [][\A t \in Windows : window[t] # "mapped" /\ window'[t] = "mapped"
       => focused' = t]_vars
============================================================================
