# FinnOS in TLA+

Specifications of the FinnOS desktop: the compositor `finn-comp`, the UI
toolkit every client is built on, the desktop shell `finn-shell`, the settings
file the programs share, and the session broker `finn-session`. TLC checks them
on small instances; TLAPS proves every property that a passing run checks, for
every value of the constants (liveness with the hypotheses named under "What is
proved").

Run things from this directory:

    tlc -workers 2 -config MCFrameScheduler.cfg FrameScheduler.tla
    tlapm FrameSchedulerProofs.tla

`PROJECT.json` lists the components, the runs with what each is expected to
say, the mutants (plausible bugs that each property must catch), the source
lines of every definition, the hazards, the findings and the theorems.

## The system

| Part | Source | State it keeps | Operations |
|---|---|---|---|
| Compositor, focus | `src/comp/server.cpp` | `focused_`, `last_focused_`, `focused_layer_`, the seat's focus and keyboard, the order of `toplevel_tree_`, `grabbed_`, `cursor_mode_` | xdg and layer surface listeners, buttons, touch, Alt+F1, keyboard hotplug |
| Compositor, geometry | same | position, size, restore box, animation of each window; usable area | maximize, move, resize, layer configure, animation timer |
| Compositor, outputs | same | `outputs_`, `configured_w_/h_/scale_`, background | hotplug, one-second timer |
| Toolkit, frames | `src/ui/app.cpp` | `frame_callback_`, `needs_frame_`, `buffers_`, `scale_`, `theme_` | Wayland events, poll timeout, `request_frame` |
| Toolkit, input | same | `Input`: pointer, keys, touch, latched until the next draw | pointer, touch, keyboard handlers |
| Toolkit, widgets | `src/ui/canvas.cpp` | `WidgetState` by id, animations | everything that clicks, slider, text field |
| Settings file | `apps/settings`, `src/shell` | `~/.config/finn/settings` and `settings.tmp` | `write_dark`, `write_display_setting`, `write_dark_setting` |
| Shell | `src/shell/main.cpp` | three panels and their animations, applications, `dark_`, error texts | tick, draw, open/close, launch |
| Session broker | `src/session/main.cpp` | the socket, `g_running` | PING, APP.LIST, APP.LAUNCH, QUIT |
| Session client | `src/session/client.cpp` | one connection per call | `list`, `launch` |
| Application registry | `src/session/app_registry.cpp` | none between calls | `load`, `find` |
| Applications | `apps/*` | their pages and lists | draw |
| Units, installer, image | `base/`, `vm/` | systemd's; the disk | boot, install |

How they interact: clients talk Wayland to the compositor (surfaces, buffers,
frame callbacks, input); the shell and the command line talk to the broker over
a unix socket, one request per connection; the broker spawns applications; the
Settings application and the shell write the settings file, and every program
polls it. systemd starts the services and restarts those that fail.

Every process is single threaded. What is hard is the order of events from
outside: which client's request reaches the compositor's loop first, when a
buffer or a callback comes back, when a file is read between two steps of a
writer, who dies while somebody waits for it.

What makes each part correct:

- focus: no pointer to something freed; one owner of the keyboard; the focused
  window on top, activated and receiving the keys; panels give the keyboard back;
- frames: no drawing into a buffer in use; one callback at a time; nothing that
  should be drawn is forgotten; content at the surface's scale; the theme follows;
- settings: no change is lost, no half file is seen; every reader comes to agree;
- broker: a call launches at most once and is told the truth; calls return; the
  broker ends when told to and comes back when it died;
- shell: a click toggles the panel it is meant for and starts one application;
  one panel is open; the input region and the keyboard follow it, also when it
  was closed while it moved;
- geometry: a window stands where it was put and is restored to what it was,
  whatever moved it in between; a resize is anchored; every entrance ends; the
  panels are left free;
- widgets: a click is what the user did, reported once and to what it was done
  to; nothing is held that is not pressed.

## The modules

### WindowManager, KeyboardPolicy (`MCWindowManager`, `WindowManagerProofs`)

One action per listener of `server.cpp` that touches focus, stacking, the grab
or the keyboards. The server keeps four raw pointers into vectors it erases
from, and wlroots keeps its own idea of the focused surface; the properties
relate the five. Windows are numbered by creation because Alt+F1 walks
`toplevels_`, which only ever appends. `under[t]` is the set of windows drawn
below `t`. `Focus(t, previous)` is `Server::focus` with its early return.
wlroots (mapping, initial commits, the seat's bookkeeping) is external and
modelled from what the code relies on.

`KeyboardPolicy` is what all this is for, as a user sees it: the keyboard has one
owner, which exists; a window takes it, a panel borrows it, and when the panel is
done it goes to the window that had it last. Its owner is `focusedLayer` when
there is one and `focused` otherwise, its memory `lastFocused`; `KeepsPolicy` says
that the server, whatever it does in between, makes only the policy's moves.

Runs:

- `focus`: 3 windows, 1 panel and 2 keyboards that come and go. Three windows
  give a cycle that is not a swap, and a hand-back to a window that is neither
  on top nor the last pressed; two keyboards are what it takes to unplug one
  that is in use and one that is not. `KeysFollowFocus` is a claim about a seat
  that always had a keyboard (`steady`): without one, `Server::focus` cannot move
  the seat. `KeepsPolicy` needs no such exception, as it speaks of the server's
  own idea of the focus. Two panels, which may take the keyboard from one
  another, are left to the proofs.
- `focus_remap`: a disagreement with the docs, see Findings.

Deadlock is checked: a button that is not there still leaves something to do in
every state. The specification has no fairness, for the compositor owes its
clients no progress on focus.

### WindowGeometry (`MCWindowGeometry`, `WindowGeometryProofs`)

Everything in `server.cpp` that sets the place or the size of a window or the
usable area, on the vertical axis: x is treated as y is, less the entrance.
`node` is `scene_tree->node.y`; `size` is the height the client last drew and
`asked` the one last sent to it, and a window in `pending` has not answered yet,
which is when the server reads a size that is about to change. The entrance is
`open_to_y` and the time since it began (`Tick`), and `Animate` is the timer's
handler for all windows at once. wlroots' part of a layer's configure is
`Without`; which screen edges a panel takes is all that is asked of it.

History: `home` is where a floating window was put last, by its creation, a drag
or a smaller display, and `drawn` the height it last drew as a floating one.
Both are told apart from what the code keeps by two exceptions, which the code
has: an entrance that an unmap or a maximize ends leaves the window where it
stood half way (`cut`), and a window that is maximized with a configure still to
answer is restored to the size it had before that (`hasty`). The comment at
server.cpp:918 speaks of "clean restoration"; the exceptions are the limits of it.

Runs:

- `geometry`: two windows, of which one is handled (`Handled`) while the other
  only opens, ends and is in the list with it: that is all one window's geometry
  sees of another, and it is what the shared timer needs. One dock, two heights
  of the display, positions of the pointer above and below every edge, entrances
  of two steps (`Ticks`), so that something may come between their beginning and
  their end. `MaxActs` bounds what may be repeated without an end (new windows
  and panels, unmaps, maximizes, grabs, changes of the display): three, the
  creation of the window among them, are a grab and a maximize, or a maximize, a
  restore and a maximize, or a maximize and a change of the display, each with
  entrances, drags, answers and restores anywhere in between. The proofs need no
  such bound. 165 500 states.
- `geometry_panels`: see Findings.

Fairness: time passes, and the event loop runs a timer that is due. No client
and no user has to do anything, so a grab may last for ever. The system may stop
when there is nothing left to do and the acts are used up; deadlock is not checked.

### FrameScheduler (`FrameSchedulerProofs`)

One client, an `App` or a `LayerApp`, and what the compositor does with its
surface: callbacks only while the surface is mapped and visible, buffers
released late, or, for the one on screen, not before another is attached (the
Pixman renderer) or at once (GLES2). `wanted` is history: what a frame is
awaited for. `themeCount` is `theme_counter_` modulo 5, which is all
`render_frame` looks at. Allocation may fail for either buffer (`Pools`).

The run `frames` has two scales and two themes. Scales and themes are only
compared with one another, so two tell everything apart.
Fairness: a callback that is owed to a visible surface comes
(`on_output_frame` sends frame-done for every output that draws), superseded
buffers are released, and poll times out when nothing arrives. There is none
for the release of the buffer on screen, for the user, for visibility or for
configure events.

`InputDrawn`, `ResizeDrawn` and `LayerFrameDrawn` are the three ways a client
promises to draw (docs/architecture.md:81) and each carries its exceptions:
hidden, closing, or without its two buffers. `ResizeDrawn` is for clients that
have drawn once: if the very first allocation fails and the scale changes
after, `update_scale` asks for a callback on a surface that is not mapped, which
never comes, and the window does not appear.

### AtomicSettings, SettingsFile (`SettingsFileProofs`)

`AtomicSettings` is the promise: a value per key, changed one key at a time.
`SettingsFile` is the three writers as they are: read all lines, truncate
`settings.tmp`, write, close, rename, interleaved, killed anywhere, and with a
disk that may be full. `mishap` remembers that two writes overlapped or the disk
was full. `ChangesAreAtomic` is the refinement of `AtomicSettings` until then;
`UndisturbedIsExact` says that whatever happened before, a write that is alone
does exactly what it should.

The run `settings_file` has two writers, two themes and two displays: more
writers add no new overlap of two, and values are only copied.

### SettingsFollowers (`SettingsFollowersProofs`)

The readers: the shell on its tick, `finn-comp` on its timer, and every output.
`AtomicSettings` is the file. Two outputs, two themes, two displays, 2 200
states. Fair: the tick, the timer, and that a write ends. An output may refuse a
commit; `refusals` remembers that, as the code never tries again.

### Widgets (`MCWidgets`, `WidgetsProofs`)

How presses become clicks in every client: the `Input` that the handlers of
`app.cpp` latch between two draws, and the pressed state (`WidgetState::active`)
that `canvas.cpp` keeps by the id of a widget and looks at only in a draw, and
only for the widgets that draw shows. The environment is the mouse, fingers, and
the compositor, which hit-tests every motion: a press and its release may reach
two surfaces. A page says which widgets an application shows, where, and whether
enabled; it turns at any moment between two draws.

`target` is what lies under the press of the current gesture and `owed` the
clicks its release made, as a user would see it; the properties hold the code to
them. `stray` collects the widgets that stay held because nobody told them that
their gesture is over: the code takes back the latch and not the widget when a
touch is cancelled (app.cpp:849), when the pointer leaves with the button down,
when a second press comes without a release, and when a page turns. A stray
widget may click or drag later without a press; that is the exception the
properties carry. `blurred` marks a frame in which two gestures fall together, of
which the flags keep only that there was a press and a release.

The run `widgets` is an instance of Files and of the control center: a folder
with a row and a disabled button, the folder below it with a row scrolled under
the toolbar (push_clip cuts drawing, not presses, so both act), and a slider
where the row was; two fingers and the mouse. A third finger does what the second
does, and gestures meet two at a time. 1 043 000 states.

Left out: a page that turns in the middle of a draw (Files does, after a click:
the widgets drawn after it are those of the new folder, none of which is held),
the wheel, text fields, and the buttons of the title bar, which act on the press.

### LaunchService, SessionBroker (`SessionBrokerProofs`)

`LaunchService` is the promise: a call starts at most one program, OK means it
did, ERR means it did not, and only "no reply" leaves the caller in the dark.
`SessionBroker` is `run_server` and `SessionClient`, with the kernel's accept
queue between them, and implements it (`KeepsPromise`).

The run `session_broker` has the service, a second broker somebody starts by
hand, the shell, a caller of another user, and a queue of two (`Backlog` 1; the
code's is 16); 152 000 states. A queue that can fill is all the length is for.
Crashes, SIGTERM, failing `accept4`, killed and stopped callers may come at any
time. Fair: the processes run, and systemd starts the service again. A caller
that connects and says nothing holds up the broker, its end included; this is
the exception in `CallsReturn` and `Stops`.

Left to chance: what the catalogue holds, and so why a launch is refused. Left
out: `prepare_socket` failing (a file in the way), which ends the broker before
it listens, and clients that are not SessionClient.

### Shell (`MCShell`, `ShellProofs`)

The three panels of `src/shell/main.cpp` with their `Animation`s. `Draw` is the
whole of `Shell::draw` and of the members it calls, in their order: animations
advance, a press dismisses, visibility is computed, the handlers open, close and
launch, and the input region and the keyboard mode are those of the visibility
computed before. Input handlers only latch (`Press`, `Release`, `Escape`,
`MoveTo`, `TouchCancel`); the draw consumes. An animation is a level (gone, in
between, there), a target and the draws it may still take, as time is not
modelled. A place of the screen is what the code asks of it: the panels it lies
over, those that show an application there, and the button of the dock.
`armed` and `launches` are history. `DrawTooSmall` includes the resize that must
follow it.

The run `shell` has 270 000 states: a desktop, a slot of the dock, the button of
each panel, the power button, and a place where all panels overlap. A draw takes
one panel from open to gone at the soonest; `MotionFrames` 2 gives the one more
draw in which a panel that is closing is still drawn beside the one that opens,
and in which it can be turned round half way. More draws repeat it.

Fair: a draw that is asked for comes (what `FrameScheduler` is about), poll times
out when there is nothing else, and four seconds pass. `ComesToRest` is for a user
who has stopped clicking and moving: a pointer that moves keeps poll from timing
out, and the error text, which only a tick clears, stays. `OneAppPerClick` has an
exception the code has: a panel that is on its way out still takes clicks, so
where it lies over another, one release starts two applications.

`Settled` says `on_demand` for any panel that is open, as the code does;
docs/code-map.md:75 speaks of the menu only.

Left out: `dark_` (SettingsFollowers), the catalogue, the recent applications and
`active_app_`, which are kept but decide nothing here, and the sliders of the
control center.

## What is proved

For every number of windows, panels, keyboards, widgets, writers, outputs,
brokers and callers, and any scales, themes and displays:

- `WindowManagerProofs`: types, `NoDangling`, `OneKeyboardOwner`,
  `FocusedIsActive`, `FocusedOnTop`, `KeysFollowFocus`, `KeyboardReturns`, and that
  the server implements `KeyboardPolicy` (`KeepsPolicy`): each listener is taken
  apart into the moves of its helpers (`FocusTakes`, `FocusLayerBorrows`,
  `HandBackGivesBack`, `DestroyForgets`), and each is one of the policy's or none.
  `FocusedOnTop` is not inductive: a hidden window above the focused one could be
  shown without being raised. `StackOrder` adds why that does not happen: what is
  above the focused window is hidden, and the seat does not hold it, so
  `Server::focus` does not return early when it is shown. `KeysFollowFocus`
  needs, next to it, that the seat has a keyboard as long as it always had one.
- `WindowGeometryProofs`: types, `StandsWherePut`, `RestoreKept`,
  `OtherEdgeStays` and `TimerRuns`, for any windows, panels, zones, displays,
  positions and length of the entrance. `StandsWherePut` says nothing of a window
  that opens; `LeadsHome` adds that an entrance leads to where the window was
  put, and that one which is maximized has that place saved. `RestoreKept` adds
  `Answered`: without a configure to answer, what a floating window shows is what
  it last drew. `OtherEdgeStays` needs `Steering`: what the client was asked for,
  together with where its window was put, ends at the edge the grab began with,
  also while it has not answered. `EntranceEnds`: see below.
- `WidgetsProofs`: types, `LatchAgrees`, `HeldIsPressed` and `ActsAreTheUsers`,
  for any widgets, pages and fingers. That a draw reports the click rests on what
  the latch and the user agree on between two draws (`Agreement`): a latched
  press is at `target`, a held widget is in it, and a latched release owes what
  is both under `x` and in `target`. It is given up for a blurred frame, and a
  draw restores it.
- `FrameSchedulerProofs`: types, `NoTearing`, `OneCallback`, `BuffersFit`,
  `NoLostWakeup`, `DrawnAtScale`. The invariant says how the buffers are
  allocated together, and why a wanted frame has a callback.
- `SettingsFileProofs`: types, `SavedIsKept`, `ChangesAreAtomic`,
  `UndisturbedIsExact`, and that a behaviour without mishaps implements
  `AtomicSettings`. The invariant follows the only write there can be: what it
  read is what is live, and its closed file is the live one with one key changed.
  `Solo` says the same of a write that is alone after others were not.
- `SettingsFollowersProofs`: types and `OutputsAgree`, for any outputs and
  displays. The latter is inductive with the types: before the first output there is no
  display configured and nobody to disagree.
- `SessionBrokerProofs`: types, `Reachable`, and that `SessionBroker` implements
  `LaunchService` (`KeepsPromise`), for any number of brokers and callers and any
  length of the queue. The invariant has two parts. `Apart`: a connection waits
  once, in one queue, or is served by one broker, so what one broker does with a
  call no other can do too. `Known`: no program has been started for a call that
  waits or is being read; what is in `answer` or in the connection agrees with
  `started`; and a caller that has not sent its line has started nothing, so that
  "cannot send" is true. Each step is then one of LaunchService's for the calls it
  lets go of (`FinishStep`), starts or returns, or a stutter.
- `ShellProofs`: types, at most one panel open, `Settled`, `ClickToggles` and
  `OneAppPerClick`, for any places and any length of the animations.
  `Settled` speaks only of states in which no draw is asked for, so a draw could
  not be shown to lead to it. `Following`, which holds in every state, says that
  an animation goes where its panel is wanted and that one that does not run has
  arrived; `Awaited` is the rest of `Settled`. `Remembered` says that between the
  press on a panel's button and the release the panel stays as it was, from which
  `ClickToggles` follows; `OneAppPerClick` needs `OneOpen` and `Following`: a
  second panel on screen is closed and still running.

Assumptions are those of the modules (`None` is no window, layer or keyboard;
windows are finitely many; a page shows widgets at places; ...), which TLC
evaluates in each run.

### Liveness

TLAPS unfolds neither ENABLED nor the weak fairness that rests on it: `WF_vars(A)`
with `ENABLED <<A>>_vars` is opaque to it. Each liveness theorem has the form

    Spec /\ []XCanRun => Property

where `XCanRun`, next to the theorem, says of a fair action that it is enabled
when its guard holds (`DrawCanRun == frame => ENABLED <<Draw>>_vars`). These
hypotheses are not assumptions about the code: they hold in every reachable
state, and TLC says so on the instances of the runs. To see it, check the module
of the proofs with the constants of the run and the condition as an INVARIANT:

| Module | Conditions |
|---|---|
| `FrameSchedulerProofs` | `DrawCanRun`, `ReleaseCanRun`, `TimeoutCanRun` |
| `SettingsFollowersProofs` | `TickCanRun`, `TimerCanRun` |
| `SessionBrokerProofs` | `BrokerCanRun`, `CallerCanRun`, `ServiceCanStart` |
| `WindowGeometryProofs` | `TickCanRun`, `AnimateCanRun` |
| `ShellProofs` | `DrawCanRun`, `IdleTickCanRun`, `AgeCanRun` |

Everything else, which steps bring the goal nearer and that no other step takes
it away, is proved:

- frames: `InputDrawn`, `ResizeDrawn`, `LayerFrameDrawn`, `ThemeFollows`. `Progress`
  strengthens the invariant with what waiting needs: a busy buffer is one the
  compositor holds, and whatever is wanted has its callback, its release or its
  tick on the way.
- settings: `ShellFollows`, `CompositorFollows`, `ChangeApplies`.
- broker: `CallsReturn`, `Stops`, `Recovers`. A call waits in the queue of a broker
  that listens (`QueuesListen`), is served, or was let go of; nobody overtakes it, so
  each call before it that ends brings it one place forward.
- geometry: `EntranceEnds`.
- shell: `ComesToRest`. Without input, a draw opens and closes nothing and shortens
  what moves (`QuietDraw`); what is left to draw never grows (`WithinStays`); when
  nothing moves, a draw asks for no other, so poll times out and the tick clears an
  error that has aged; one more draw shows it. A touch that is cancelled asks for
  one draw more, and only once.

The last three count: places in a queue, ticks, draws. Induction on such a number
inside a temporal formula is out of reach (the library's induction theorems take an
operator as a parameter), so the proofs double instead: from one step forward they
get two, four, and so on to 256 (`AdvancesByTwice`). The theorems therefore carry
the bound: `Backlog < 256` (the code listens with 16), `Ticks <= 256` (an entrance of
the code lasts 220 ms, on a clock of milliseconds), `MotionFrames <= 256` (the longest
animation of the shell lasts 320 ms). Another seven lines would make it 32 768.

### Not proved

That the `CanRun` conditions hold for every value of the constants, and the
liveness of queues, entrances and animations beyond those bounds: both stay with
TLC, on the instances of the runs. The four disagreements under Findings are
counterexamples of TLC.

Some theorems are of properties no run lists (`FocusedIsActive`, `StackOrder`,
`KeyboardReturns`, `OneCallback`, `BuffersFit`, `DrawnAtScale`, `SavedIsKept`,
`OneOpen`, `Agreement`, `Apart`, `Known`, `TimerRuns`): they are what the checked ones rest on, or, as
`KeyboardReturns`, what they mean for the seat.

## Findings

- `focus_remap` (docs/code-map.md:61): a window that is hidden and shown again
  is mapped but not focused, because `on_toplevel_unmap` leaves the seat's focus
  and `focus()` returns early for the surface the seat holds.
- `geometry_panels` (src/comp/server.hpp:195): each layer is configured with the
  whole output as what is free, and what it leaves overwrites what the others
  left; of a dock and a status bar only the one configured last is kept clear.
  The panels of the repository ask for no zone (src/ui/app.cpp:581), so its own
  desktop does not show it. In the same place, the comment at server.cpp:1265 says
  that layers are reconfigured so that "adjustments to panel dimensions
  immediately recalculate usable space"; `on_layer_commit` configures a layer on
  its first commit only, `remove_layer` does not compute the area again, and
  windows that are maximized stay as they are until the display changes. The
  model has it so (`CommitLayer`, `RemoveLayer`).
- `frames_stall` (docs/architecture.md:81): a frame that an application asks for
  while it draws a configure waits for a buffer release that need not come.
- `settings_disk` (apps/settings/main.cpp:311): on a full disk the settings are
  emptied and success is reported.

## Not modelled, and the plan

Every component whose state is changed by more than one actor, or by an actor
that may be late, killed or repeated, has a module. What is left:

1. The pages of Settings and their copies of the file (a switch shows what was
   true when the window opened); `Shell` composed with `WindowManager`: who gets
   the keys while a panel closes. Both are compositions of what is modelled.
2. The title bar: its buttons act on the press and its double click is a timer;
   `maximized_` of a client follows the next configure.
3. Several outputs side by side in WindowGeometry: `usable_` is that of the
   output configured last. The docs speak of one.

Stays out: the registry (a pure function of the catalogue's text, read anew for
each request), the search for an output's mode, drawing, rasters, text shaping,
themes and icons (pure functions to pixels), the wallpaper, start and shutdown
(straight lines of calls), the installer and the image scripts (sequential, they
stop at the first error), build scripts and CI.
