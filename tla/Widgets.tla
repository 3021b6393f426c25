------------------------------- MODULE Widgets ------------------------------
(***************************************************************************)
(* How presses, motions and releases become clicks: the Input that Client  *)
(* (src/ui/app.cpp) latches between two draws, and the pressed state that  *)
(* Canvas (src/ui/canvas.cpp) keeps by the id of a widget and looks at     *)
(* only in a draw, and only for the widgets this draw shows.               *)
(*                                                                         *)
(* The pointer, a second finger and the compositor that routes them are    *)
(* the environment.  finn-comp hit-tests every motion, also while a button *)
(* is held (server.cpp:1126), so a press and its release may reach two     *)
(* different surfaces.  A draw that finds no free buffer changes nothing   *)
(* here; when draws come is FrameScheduler's matter.                       *)
(*                                                                         *)
(* A widget is a button (all that click: buttons, icons, toggles, rows) or *)
(* a slider.  Widgets may overlap: push_clip cuts what is drawn and not    *)
(* what is pressed, so a row of Files that is scrolled below the toolbar   *)
(* is pressed with the toolbar's button.  An application shows one page at *)
(* a time and turns it between two draws.  Hover colours, the title bar,   *)
(* the wheel and the text fields, which no program of the repository shows,*)
(* are left out.                                                           *)
(***************************************************************************)
EXTENDS FiniteSets

CONSTANTS
  Buttons,    \* ids of the widgets that click
  Sliders,    \* ids of the sliders
  Places,     \* the parts of the surface, each as large as a widget
  Pages,      \* what the application may show: for the ids it shows, where
              \* (at) and whether enabled (on)
  Contacts,   \* touch points
  Away,       \* the position (-1, -1), on no widget
  None        \* touch_id_ = -1

Widgets == Buttons \cup Sliders

ASSUME KindsAssumption == Buttons \cap Sliders = {} /\ None \notin Contacts
ASSUME PlacesAssumption == Away \notin Places
ASSUME PagesAssumption ==
  /\ Pages # {}
  /\ \A page \in Pages :
       /\ DOMAIN page \subseteq Widgets
       /\ \A w \in DOMAIN page : page[w] \in [at : Places, on : BOOLEAN]

VARIABLES
  over,       \* environment: the pointer is over this surface
  button,     \* environment: the mouse button is down
  contacts,   \* environment: touch points that went down on this surface
  x,          \* input_.x, input_.y
  down,       \* input_.pointer_down
  pressed,    \* input_.pointer_pressed
  released,   \* input_.pointer_released
  touchId,    \* touch_id_
  active,     \* the widgets whose WidgetState::active is set
  value,      \* value[s]: the position that slider s was last dragged to
  page,       \* what the application draws
  target,     \* history: the widgets under the press of this gesture
  owed,       \* history: the clicks that the release has made
  blurred,    \* history: an event came that the latch cannot tell from an
              \* earlier one of the same frame
  stray       \* history: active widgets whose release is not seen by them

envVars    == <<over, button, contacts>>
latchVars  == <<x, down, pressed, released, touchId>>
canvasVars == <<active, value>>
gestureVars == <<target, owed, blurred, stray>>
vars == <<envVars, latchVars, canvasVars, page, gestureVars>>

(* The enabled widgets that are shown at p: Rect::contains.                *)
WidgetsAt(p) == {w \in DOMAIN page : page[w].at = p /\ page[w].on}

----------------------------------------------------------------------------
(* Client's handlers, by what they latch.                                  *)

(* handle_pointer_motion: a press or a release that is latched is looked   *)
(* for at the new position.                                                *)
HandleMotion(p) ==
  /\ x' = p
  /\ blurred' = (blurred \/ (p # x /\ (pressed \/ released)))

(* handle_pointer_press at p: the flags say that there was a press and a   *)
(* release, not in which order; nor whether the finger or the mouse.       *)
HandlePress(p) ==
  /\ down' = TRUE
  /\ pressed' = TRUE
  /\ target' = WidgetsAt(p)
  /\ blurred' = (blurred \/ released \/ (p # x /\ pressed))
  /\ stray' = IF down THEN stray \cup active ELSE stray
  /\ UNCHANGED <<released, owed>>

(* handle_pointer_release. *)
HandleRelease ==
  /\ down' = FALSE
  /\ released' = TRUE
  /\ owed' = target \cap WidgetsAt(x) \cap Buttons
  /\ UNCHANGED <<x, pressed, target, blurred, stray>>

----------------------------------------------------------------------------
(* The pointer.                                                            *)

(* pointer_enter and pointer_motion.                                       *)
MovePointer(p) ==
  /\ over' = TRUE
  /\ HandleMotion(p)
  /\ UNCHANGED <<button, contacts, down, pressed, released, touchId,
                 canvasVars, page, target, owed, stray>>

(* pointer_leave, with a button held or not: no flag is reset.             *)
LeaveSurface ==
  /\ over
  /\ over' = FALSE
  /\ HandleMotion(Away)
  /\ stray' = IF down THEN stray \cup active ELSE stray
  /\ UNCHANGED <<button, contacts, down, pressed, released, touchId,
                 canvasVars, page, target, owed>>

(* pointer_button: over another surface, nothing arrives here.             *)
PressButton ==
  /\ ~button
  /\ button' = TRUE
  /\ IF over THEN HandlePress(x)
     ELSE UNCHANGED <<down, pressed, released, gestureVars>>
  /\ UNCHANGED <<over, contacts, x, touchId, canvasVars, page>>

ReleaseButton ==
  /\ button
  /\ button' = FALSE
  /\ IF over THEN HandleRelease
     ELSE UNCHANGED <<x, down, pressed, released, gestureVars>>
  /\ UNCHANGED <<over, contacts, touchId, canvasVars, page>>

----------------------------------------------------------------------------
(* Touch.                                                                  *)

(* touch_down: the first finger is a pointer that moves and presses, the   *)
(* others are ignored.                                                     *)
TouchDown(c, p) ==
  /\ c \notin contacts
  /\ contacts' = contacts \cup {c}
  /\ IF touchId = None
     THEN touchId' = c /\ x' = p /\ HandlePress(p)
     ELSE UNCHANGED <<latchVars, gestureVars>>
  /\ UNCHANGED <<over, button, canvasVars, page>>

(* touch_motion.  Outside of the surface p is a position on another one:   *)
(* on_touch_motion of finn-comp sends what it finds under the finger.      *)
TouchMotion(c, p) ==
  /\ c \in contacts /\ c = touchId
  /\ HandleMotion(p)
  /\ UNCHANGED <<envVars, down, pressed, released, touchId, canvasVars, page,
                 target, owed, stray>>

TouchUpKeeping(c) ==                \* mutant: touch_id_ is not reset
  /\ c \in contacts
  /\ contacts' = contacts \ {c}
  /\ IF c = touchId THEN HandleRelease
     ELSE UNCHANGED <<x, down, pressed, released, gestureVars>>
  /\ UNCHANGED <<over, button, touchId, canvasVars, page>>

(* touch_up. *)
TouchUp(c) ==
  /\ c \in contacts
  /\ contacts' = contacts \ {c}
  /\ IF c = touchId THEN touchId' = None /\ HandleRelease
     ELSE UNCHANGED <<latchVars, gestureVars>>
  /\ UNCHANGED <<over, button, canvasVars, page>>

(* touch_cancel: every contact is gone.  The flags are taken back, those   *)
(* of the mouse too; what the widgets remember is not.                     *)
TouchCancel ==
  /\ contacts # {}
  /\ contacts' = {}
  /\ IF touchId = None THEN UNCHANGED <<latchVars, gestureVars>>
     ELSE /\ touchId' = None
          /\ x' = Away
          /\ down' = FALSE /\ pressed' = FALSE /\ released' = FALSE
          /\ target' = {} /\ owed' = {} /\ blurred' = FALSE
          /\ stray' = stray \cup active
  /\ UNCHANGED <<over, button, canvasVars, page>>

----------------------------------------------------------------------------
(* The draw.                                                               *)

(* Pressed by now: a press counts for the enabled widgets under x.         *)
Held == active \cup (IF pressed THEN WidgetsAt(x) ELSE {})

ClickedAnywhere ==                  \* mutant: hovered is not asked for
  {w \in Held \cap Buttons \cap DOMAIN page : released /\ page[w].on}

(* Reported as clicked: held, and let go on the widget while it is enabled.*)
Clicked == IF released THEN Held \cap Buttons \cap WidgetsAt(x) ELSE {}

(* A release ends the hold of every widget that is shown; a slider also    *)
(* wants the button to be up by now.                                       *)
LetGo == {w \in Held \cap DOMAIN page : released /\ (w \in Sliders => ~down)}

(* Reported as changed: a held slider takes the position, wherever it is.  *)
Dragged ==
  {s \in ((Held \ LetGo) \cap Sliders) \cap DOMAIN page : down /\ value[s] # x}

ResetInputKeeping ==                \* mutant: pointer_pressed survives
  /\ released' = FALSE
  /\ UNCHANGED pressed

(* reset_input. *)
ResetInput == pressed' = FALSE /\ released' = FALSE

(* render_frame with a free buffer: the application draws its page, is told*)
(* what was clicked and dragged, and the latch is emptied.                 *)
Draw ==
  /\ active' = Held \ LetGo
  /\ value' = [s \in Sliders |-> IF s \in Dragged THEN x ELSE value[s]]
  /\ ResetInput
  /\ target' = IF blurred \/ ~down THEN {} ELSE target
  /\ stray' = IF blurred THEN active' ELSE stray \cap active'
  /\ owed' = {}
  /\ blurred' = FALSE
  /\ UNCHANGED <<envVars, x, down, touchId, page>>

(* The application shows another page, after a click, a key or by itself:  *)
(* a widget that is held may be gone, moved or disabled when it is let go. *)
TurnPage(p) ==
  /\ p # page
  /\ page' = p
  /\ stray' = stray \cup active
  /\ blurred' = (blurred \/ pressed \/ released)
  /\ UNCHANGED <<envVars, latchVars, canvasVars, target, owed>>

----------------------------------------------------------------------------
Init ==
  /\ over = FALSE
  /\ button \in BOOLEAN               \* the surface may appear under a press
  /\ contacts = {}
  /\ x \in Places \cup {Away}          \* (0, 0)
  /\ down = FALSE
  /\ pressed = FALSE
  /\ released = FALSE
  /\ touchId = None
  /\ active = {}
  /\ value = [s \in Sliders |-> Away]
  /\ page \in Pages
  /\ target = {}
  /\ owed = {}
  /\ blurred = FALSE
  /\ stray = {}

Next ==
  \/ \E p \in Places : MovePointer(p)
  \/ LeaveSurface
  \/ PressButton
  \/ ReleaseButton
  \/ \E c \in Contacts :
       \/ \E p \in Places : TouchDown(c, p)
       \/ \E p \in Places \cup {Away} : TouchMotion(c, p)
       \/ TouchUp(c)
  \/ TouchCancel
  \/ Draw
  \/ \E p \in Pages : TurnPage(p)

Spec == Init /\ [][Next]_vars

----------------------------------------------------------------------------
(* Properties.                                                             *)

(* Every variable keeps its shape, and the finger that is the pointer is   *)
(* one that is down.                                                       *)
TypeOK ==
  /\ {over, button, down, pressed, released, blurred} \subseteq BOOLEAN
  /\ contacts \subseteq Contacts
  /\ touchId \in contacts \cup {None}
  /\ x \in Places \cup {Away}
  /\ active \subseteq Widgets
  /\ value \in [Sliders -> Places \cup {Away}]
  /\ page \in Pages
  /\ target \subseteq Widgets
  /\ owed \subseteq Buttons
  /\ stray \subseteq Widgets

(* A widget is held only by the press the user made on it, through any     *)
(* number of draws, motions over other widgets, second fingers and presses *)
(* whose draw comes late.  The exceptions are those the code has: a touch  *)
(* that is cancelled, a pointer that leaves with the button down, a second *)
(* press without a release (mouse and finger) and a page that turns leave  *)
(* a widget held (stray), and so does a motion in the frame of a press.    *)
HeldIsPressed == ~blurred => active \subseteq target \cup stray

(* A draw reports the click the user made, a press on a widget and its     *)
(* release there, exactly once and whatever came before, to every widget   *)
(* that is under both; beyond that only a stray widget may click or drag.  *)
(* Of a blurred frame nothing is said.                                     *)
ActsAreTheUsers ==
  [][Draw /\ ~blurred =>
       /\ owed \subseteq Clicked
       /\ Clicked \subseteq owed \cup stray
       /\ Dragged \subseteq target \cup stray]_vars
=============================================================================
