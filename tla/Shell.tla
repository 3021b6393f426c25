--------------------------------- MODULE Shell ---------------------------------
(***************************************************************************)
(* The shell of src/shell/main.cpp: three panels that open and close over  *)
(* each other's animations, the part of the screen the shell takes input   *)
(* for, the keyboard it asks for, and the text of a launch that failed.    *)
(*                                                                         *)
(* The shell is one thread.  Input is latched until the next draw, which   *)
(* is one step; when draws come is FrameScheduler's, what a launch may     *)
(* answer is LaunchService's.  A place on the screen is told apart by what *)
(* the code asks of it: which panels it lies over, which of them have an   *)
(* application there, which button of the dock it is.                      *)
(*                                                                         *)
(* Left out: dark_ (SettingsFollowers), the toggle and sliders of the      *)
(* control center, and what no decision reads: apps_, session_error_,      *)
(* recent_apps_, active_app_ and the *_visible_ members.                   *)
(***************************************************************************)
EXTENDS Naturals, FiniteSets

CONSTANTS
  Places,         \* places the pointer can be at
  MotionFrames    \* bound: the most draws an animation takes

Panels == {"menu", "search", "controlCenter"}
Launchers == {"menu", "search"}             \* panels that show applications

(* How far an Animation is: at most the 0.001 up to which a panel is not   *)
(* drawn (the last frame of closing it), in between, all the way.          *)
Gone == 0
Partly == 1
Full == 2
Levels == Gone .. Full

(* The button that toggles a panel, and the other places of the dock: an   *)
(* application, the window switch, the rest of the home pill, the clock.   *)
ButtonOf == [menu |-> "home", search |-> "find", controlCenter |-> "hardware"]
DockButtons == {"home", "find", "hardware", "slot", "windows", "gap", "clock"}
HomePill == {"home", "find", "windows", "gap"}
(* The pill on which a press does not dismiss the panel.                   *)
PillOf == [menu |-> HomePill, search |-> HomePill, controlCenter |-> {"hardware"}]

PlaceType ==
  [over : SUBSET Panels, app : SUBSET Launchers,
   button : DockButtons \cup {"none", "power"}]
Desktop == [over |-> {}, app |-> {}, button |-> "none"]

ASSUME MotionAssumption == MotionFrames \in Nat \ {0}
ASSUME PlacesAssumption ==
  /\ Places \subseteq PlaceType
  /\ Desktop \in Places
  /\ \A at \in Places :
       /\ at.app \subseteq at.over
       /\ at.button \in DockButtons => at.over = {}
       /\ at.button = "power" => "menu" \in at.over /\ at.app = {}

VARIABLES
  reduced,       \* FINN_REDUCED_MOTION
  open,          \* the panels whose *_open_ is set
  anim,          \* the Animations: value, target, and the draws left to run
  dockIn,        \* dock_in_: the draws it has left to run
  placed,        \* panels that were drawn, so that their rectangle is known
  region,        \* the input region: "all" of the surface, or the "pills"
  keyboard,      \* KeyboardMode: "none" or "on_demand"
  frame,         \* a draw is asked for
  error,         \* error_: "none", "fresh", or "due" once error_until_ is past
  painted,       \* the last draw shows an error
  pressed, released, escape, \* the latched input
  at,            \* where the pointer is
  down,          \* a button is down
  armed,         \* history: <<p, whether p was open>> when p's button was pressed
  launches       \* history: where the last draw launched from

input == <<pressed, released, escape, at, down>>
panels == <<open, anim, dockIn, placed, region, keyboard>>
vars == <<reduced, panels, frame, error, painted, input, armed, launches>>

Running(a) == a.left > 0
OnShell(place) == region = "all" \/ place.button \in DockButtons

----------------------------------------------------------------------------
(* Animation, of src/ui/finn/animation.hpp.                                *)

ToOnTop(a, v) ==                \* mutant: elapsed goes on from where it was
  IF reduced \/ a.value = v
    THEN [value |-> v, target |-> v, left |-> 0]
    ELSE [a EXCEPT !.target = v, !.left = @ + MotionFrames]

(* Animation::to.                                                          *)
To(a, v) ==
  IF reduced \/ a.value = v
    THEN [value |-> v, target |-> v, left |-> 0]
    ELSE [a EXCEPT !.target = v, !.left = MotionFrames]

(* Where it can be short of its target.                                    *)
Underway(a) ==
  IF a.value = a.target THEN {a.value} ELSE {Partly}

(* Animation::update: how long a draw takes of it is a matter of time.     *)
Updates(a) ==
  IF ~Running(a) THEN {a} ELSE
    {[a EXCEPT !.value = a.target, !.left = 0]} \cup
    [value : Underway(a), target : {a.target}, left : 1 .. a.left - 1]

----------------------------------------------------------------------------
(* Parts of Shell::draw.                                                   *)

DismissedAnywhere ==            \* mutant: the panel's own pill is not exempt
  IF pressed THEN {p \in open \cap placed : p \notin at.over} ELSE {}

(* A press outside of an open panel and of its pill closes it.             *)
Dismissed ==
  IF pressed
    THEN {p \in open \cap placed : p \notin at.over /\ at.button \notin PillOf[p]}
    ELSE {}

(* The panels this draw draws, where now is what is open and a the         *)
(* animations.                                                             *)
Visible(now, a) == now \cup {p \in Panels : a[p].value > Gone}

(* The panel whose button is let go of.                                    *)
Toggled == {p \in Panels : released /\ at.button = ButtonOf[p]}

(* Who launches, the dock first: a panel that is closing does so too, as   *)
(* long as it is drawn.                                                    *)
Sources(seen) ==
  IF ~released THEN {} ELSE
    (IF at.button = "slot" THEN {"dock"} ELSE {}) \cup (at.app \cap seen)

(* error_ after the launches of a draw, of which ok were accepted: that of *)
(* the last one.                                                           *)
ErrorAfter(sources, ok) ==
  IF sources = {} THEN error
  ELSE IF "search" \in sources
    THEN IF "search" \in ok THEN "none" ELSE "fresh"
  ELSE IF sources \subseteq ok THEN "none" ELSE "fresh"

ClosedForSome(p) == {"controlCenter"} \ {p}   \* mutant: search and menu stay

(* open_menu, open_search, open_control_center: the panels closed for p.   *)
ClosedFor(p) == Panels \ {p}

(* What the handlers of a draw close, where now is what is open.  seen     *)
(* are the panels on screen, ok the launches that were accepted.           *)
Closed(now, seen, ok) ==
  IF ok # {} \/ (escape /\ seen # {}) THEN Panels
  ELSE {q \in Panels : \E p \in Toggled : IF p \in now THEN q = p ELSE q \in ClosedFor(p)}
    \cup {p \in {"menu"} \cap seen : released /\ at.button = "power"}

CloseAsksNever(p, now, a) == FALSE   \* mutant: no request_frame in close_*

(* close_menu and the like ask for a frame, unless the panel was closed    *)
(* and still.                                                              *)
CloseAsks(p, now, a) == p \in now \/ Running(a[p])

(* What is left of the input once a draw has returned.                     *)
ConsumeInput ==
  /\ pressed' = FALSE /\ released' = FALSE /\ escape' = FALSE
  /\ UNCHANGED <<at, down>>

(* history: the button that is being clicked.                              *)
Armed ==
  IF pressed
    THEN {<<p, p \in open>> : p \in {q \in Panels : at.button = ButtonOf[q]}}
    ELSE armed

----------------------------------------------------------------------------
(* What is open once a press has been looked at, and what a release opens. *)
Now == open \ Dismissed
Opens == Toggled \ Now

(* The rest of a draw, with a the animations, seen the panels on screen    *)
(* and ok the launches that are accepted.  Several to() on one Animation   *)
(* in one draw amount to the last of them.                                 *)
Handle(a, seen, ok) ==
  LET closed == Closed(Now, seen, ok)
      from   == Sources(seen)
  IN  /\ ok \subseteq from
      /\ open' = (Now \cup Opens) \ closed
      /\ anim' = [p \in Panels |-> IF p \in closed THEN To(a[p], Gone)
                                   ELSE IF p \in Opens THEN To(a[p], Full)
                                   ELSE a[p]]
      /\ placed' = placed \cup seen
      /\ region' = IF seen # {} THEN "all" ELSE "pills"
      /\ keyboard' = IF seen # {} THEN "on_demand" ELSE "none"
      /\ error' = ErrorAfter(from, ok)
      /\ painted' = IF "dock" \in from THEN "dock" \notin ok ELSE error # "none"
      /\ frame' = \/ dockIn > 0 \/ \E p \in Panels : Running(anim[p])
                  \/ Dismissed # {} \/ Opens # {} \/ from # ok
                  \/ released /\ at.button = "windows"
                  \/ \E p \in closed : CloseAsks(p, Now, a)
      /\ launches' = from
      /\ armed' = IF released \/ escape THEN {} ELSE Armed

(* The animations after an update to m, and the dismissals.                *)
Advance(m) == [p \in Panels |-> IF p \in Dismissed THEN To(m[p], Gone) ELSE m[p]]

(* Shell::draw, with the members it calls.                                 *)
Draw ==
  /\ frame
  /\ ConsumeInput
  /\ UNCHANGED reduced
  /\ dockIn' \in {n \in 0 .. dockIn : n < dockIn \/ n = 0}
  /\ \E m \in Updates(anim["menu"]), s \in Updates(anim["search"]),
        c \in Updates(anim["controlCenter"]) :
       LET a == Advance([menu |-> m, search |-> s, controlCenter |-> c])
       IN  \E ok \in SUBSET Sources(Visible(Now, a)) : Handle(a, Visible(Now, a), ok)

(* Shell::draw on a surface under 200 pixels wide or high returns at once, *)
(* its input used up; nothing happens until a resize asks for a frame,     *)
(* which is part of the step.                                              *)
DrawTooSmall ==
  /\ frame
  /\ armed' = {}
  /\ ConsumeInput
  /\ UNCHANGED <<reduced, panels, frame, error, painted>>
  /\ launches' = {}

TickForever ==               \* mutant: the error is never cleared
  /\ error' = error
  /\ frame' = TRUE
  /\ UNCHANGED <<reduced, panels, painted, input, armed>>
  /\ launches' = {}

(* Shell::on_tick, when poll timed out.                                    *)
Tick ==
  /\ error' = IF error = "due" THEN "none" ELSE error
  /\ frame' = TRUE
  /\ UNCHANGED <<reduced, panels, painted, input, armed>>
  /\ launches' = {}

(* The four seconds are over.                                              *)
Age ==
  /\ error = "fresh"
  /\ error' = "due"
  /\ UNCHANGED <<reduced, panels, frame, painted, input, armed>>
  /\ launches' = {}

----------------------------------------------------------------------------
(* Input and size, as the handlers of app.cpp leave them for the draw.     *)

(* wl_pointer.enter, motion and leave, and those of a touch: outside of    *)
(* the input region only while a button holds the pointer.  A pointer that *)
(* left counts as being over the desktop.  A motion within a place, or a   *)
(* resize, asks for a frame as Tick does.                                  *)
MoveTo(place) ==
  /\ place # at
  /\ down \/ OnShell(place) \/ place = Desktop
  /\ at' = place
  /\ frame' = TRUE
  /\ UNCHANGED <<reduced, panels, error, painted, pressed, released, escape, down, armed>>
  /\ launches' = {}

Press ==
  /\ OnShell(at)
  /\ pressed' = TRUE /\ down' = TRUE
  /\ frame' = TRUE
  /\ UNCHANGED <<reduced, panels, error, painted, released, escape, at, armed>>
  /\ launches' = {}

(* The button went down on the shell, so its release comes here too.       *)
Release ==
  /\ down
  /\ released' = TRUE /\ down' = FALSE
  /\ frame' = TRUE
  /\ UNCHANGED <<reduced, panels, error, painted, pressed, escape, at, armed>>
  /\ launches' = {}

Escape ==
  /\ keyboard = "on_demand"
  /\ escape' = TRUE
  /\ frame' = TRUE
  /\ UNCHANGED <<reduced, panels, error, painted, pressed, released, at, down, armed>>
  /\ launches' = {}

TouchCancel ==
  /\ down
  /\ pressed' = FALSE /\ released' = FALSE /\ down' = FALSE
  /\ at' = Desktop
  /\ frame' = TRUE
  /\ UNCHANGED <<reduced, panels, error, painted, escape, armed>>
  /\ launches' = {}

----------------------------------------------------------------------------
Still(v) == [value |-> v, target |-> v, left |-> 0]

(* The constructor: the dock comes in, and the environment may have one    *)
(* panel opened.  An Animation as declared runs, from nothing to nothing.  *)
Init ==
  /\ reduced \in BOOLEAN
  /\ open \in {{}} \cup {{p} : p \in Panels}
  /\ anim = [p \in Panels |->
               IF p \in open THEN To(Still(Gone), Full)
               ELSE IF open # {} THEN Still(Gone)
               ELSE [value |-> Gone, target |-> Gone, left |-> MotionFrames]]
  /\ dockIn = IF reduced THEN 0 ELSE MotionFrames
  /\ placed = {}
  /\ region = "all" /\ keyboard = "none"
  /\ frame = TRUE
  /\ error = "none" /\ painted = FALSE
  /\ pressed = FALSE /\ released = FALSE /\ escape = FALSE
  /\ at = Desktop /\ down = FALSE
  /\ armed = {} /\ launches = {}

Input ==
  \/ \E place \in Places : MoveTo(place)
  \/ Press \/ Release \/ Escape \/ TouchCancel

Next == Draw \/ DrawTooSmall \/ Tick \/ Age \/ Input

(* A draw that is asked for comes (FrameScheduler, while the shell is on   *)
(* an output), and not on a surface that stays too small; poll times out   *)
(* when there is nothing else to do.                                       *)
Fairness ==
  /\ WF_vars(Draw)
  /\ WF_vars(~frame /\ Tick)
  /\ WF_vars(Age)

Spec == Init /\ [][Next]_vars /\ Fairness

----------------------------------------------------------------------------
AnimType == [value : Levels, target : {Gone, Full}, left : 0 .. MotionFrames]

(* Every variable has its type; no animation outlasts its duration.        *)
TypeOK ==
  /\ reduced \in BOOLEAN
  /\ open \subseteq Panels
  /\ anim \in [Panels -> AnimType]
  /\ dockIn \in 0 .. MotionFrames
  /\ placed \subseteq Panels
  /\ region \in {"all", "pills"} /\ keyboard \in {"none", "on_demand"}
  /\ frame \in BOOLEAN
  /\ error \in {"none", "fresh", "due"} /\ painted \in BOOLEAN
  /\ pressed \in BOOLEAN /\ released \in BOOLEAN /\ escape \in BOOLEAN
  /\ at \in Places /\ down \in BOOLEAN
  /\ armed \subseteq Panels \X BOOLEAN
  /\ launches \subseteq Launchers \cup {"dock"}

(* When nothing more is asked to be drawn, what the compositor was told    *)
(* fits what is open: the shell takes the whole screen and the keyboard    *)
(* exactly when a panel is open, nothing is left half way, and an error    *)
(* shows exactly when there is one.  Draw commits the region before its    *)
(* handlers open and close panels, so each of them must ask for a frame.   *)
Settled ==
  ~frame =>
    /\ region = (IF open # {} THEN "all" ELSE "pills")
    /\ keyboard = (IF open # {} THEN "on_demand" ELSE "none")
    /\ dockIn = 0
    /\ \A p \in Panels : anim[p] = Still(IF p \in open THEN Full ELSE Gone)
    /\ painted = (error # "none")

(* A click on the button of a panel toggles it, however its press and its  *)
(* release fall into draws: the press dismisses other panels but not the   *)
(* one its release is going to close, and no two panels are open at a time.*)
ClickToggles ==
  [][\A p \in Panels, was \in BOOLEAN :
       released /\ ~escape /\ at.button = ButtonOf[p] /\ <<p, was>> \in Armed /\ Draw
         => open' = IF was THEN {} ELSE {p}]_vars

(* A release starts one application, unless a panel that was closed is     *)
(* still on its way out over another one: panels do not stack.             *)
OneAppPerClick ==
  [][Cardinality(launches') > 1 => \E p \in Panels \ open : Running(anim[p])]_vars

AtRest ==
  /\ region = (IF open # {} THEN "all" ELSE "pills")
  /\ keyboard = (IF open # {} THEN "on_demand" ELSE "none")
  /\ error = "none" /\ ~painted

(* Left alone, the shell comes to rest: a panel that was closed gives the  *)
(* screen and the keyboard back, and an error goes away.                   *)
ComesToRest ==
  <>[]~(pressed \/ released \/ escape) /\ <>[][at' = at]_at => <>[]AtRest
================================================================================
