--------------------------- MODULE FrameScheduler ---------------------------
(***************************************************************************)
(* When a FinnOS client draws: the frame callback, the two shared-memory   *)
(* buffers and the input latched between frames of Client in               *)
(* src/ui/app.cpp, which every App and every LayerApp is built on.         *)
(*                                                                         *)
(* The client is one thread: a Wayland event handler, or a poll that timed *)
(* out, is one step.  The compositor (external: wlroots) answers in its    *)
(* own time: it sends a frame callback back only while the surface is on   *)
(* screen, and may keep the buffer it shows until another one is attached  *)
(* (the Pixman renderer) or release it at once (GLES2).                    *)
(*                                                                         *)
(* What a frame looks like, its size and the widgets are left out.         *)
(***************************************************************************)
EXTENDS Naturals, FiniteSets

CONSTANTS
  Scales,       \* output scales that occur; the client starts with one
  Themes,       \* values of "dark=" in the settings file that occur
  NoBuffer      \* "no buffer was ever attached"

Slots == {1, 2}
ThemePeriod == 5                \* render_frame: theme_counter_++ % 5 == 0
Kinds == {"app", "layer"}       \* App has no tick_, LayerApp always has one

ASSUME ScalesAssumption == Scales # {}
ASSUME ThemesAssumption == Themes # {}
ASSUME NoBufferAssumption == NoBuffer \notin Slots

VARIABLES
  kind,          \* which of the two classes owns the client
  running,       \* running_
  configured,    \* configured_
  needsFrame,    \* needs_frame_
  callback,      \* frame_callback_ is not null
  buffers,       \* buffers[s]: ShmBuffer s is "free", "busy" or not there
  bufferScale,   \* the scale buffers_ were allocated for
  scale,         \* scale_, sent with wl_surface_set_buffer_scale
  theme,         \* theme_
  themeCount,    \* theme_counter_, modulo ThemePeriod
  owed,          \* external: frame callbacks the compositor has yet to send
  held,          \* external: buffers of buffers_ the compositor may read
  current,       \* external: the buffer attached last
  visible,       \* external: an output shows some of the surface
  setting,       \* external: "dark=" as pick_theme reads it
  shown,         \* external: scale and theme of the content on the surface,
                 \*   and the buffer scale of its last commit
  wanted         \* history: what the next frame is awaited for

clientVars   == <<running, configured, needsFrame, callback, buffers, bufferScale,
                  scale, theme, themeCount>>
externalVars == <<owed, held, current, visible, setting, shown>>
vars == <<kind, clientVars, externalVars, wanted>>

Free == {s \in Slots : buffers[s] = "free"}
Mapped == current # NoBuffer

(* create_buffers gave up on the way, which none of its callers notices.   *)
Starved == \E s \in Slots : buffers[s] = "none"

----------------------------------------------------------------------------
(* Parts of the handlers.                                                  *)

(* Client::request_frame outside of a draw, for a running client whose     *)
(* scale is sc: a new callback is committed unless one is under way.  The  *)
(* commit carries the buffer scale, without any buffer.                    *)
RequestFrame(sc) ==
  \/ /\ ~configured \/ callback
     /\ needsFrame' = TRUE
     /\ UNCHANGED <<callback, owed, shown>>
  \/ /\ configured /\ ~callback
     /\ callback' = TRUE
     /\ owed' = owed + 1
     /\ shown' = [shown EXCEPT !.surfaceScale = sc]
     /\ UNCHANGED needsFrame

(* What create_buffers leaves: any of its allocations may fail, and        *)
(* nobody looks at the result.                                             *)
Pools == {[s \in Slots |-> IF s <= n THEN "free" ELSE "none"] : n \in 0 .. 2}

(* Client::create_buffers at scale sc; it destroys what was there, so a    *)
(* release of an old buffer no longer reaches the client.                  *)
CreateBuffers(pool, sc) ==
  /\ buffers' = pool
  /\ bufferScale' = sc
  /\ held' = {}

DrawUncounted(pool, poolScale, kept, more) ==  \* mutant: the count is not reduced
  \E s \in Slots :
    /\ pool[s] = "free"
    /\ \A r \in Slots : pool[r] = "free" => s <= r
    /\ buffers' = [pool EXCEPT ![s] = "busy"]
    /\ held' = kept \cup {s}
    /\ current' = s
    /\ theme' = IF themeCount = 0 THEN setting ELSE theme
    /\ themeCount' = themeCount + 1
    /\ bufferScale' = poolScale
    /\ shown' = [scale |-> poolScale, surfaceScale |-> scale, theme |-> theme']
    /\ wanted' = IF more THEN {"again"} ELSE {}

DrawUnmarked(pool, poolScale, kept, more) ==   \* mutant: the buffer is not marked busy
  \E s \in Slots :
    /\ pool[s] = "free"
    /\ \A r \in Slots : pool[r] = "free" => s <= r
    /\ buffers' = pool
    /\ held' = kept \cup {s}
    /\ current' = s
    /\ theme' = IF themeCount = 0 THEN setting ELSE theme
    /\ themeCount' = (themeCount + 1) % ThemePeriod
    /\ bufferScale' = poolScale
    /\ shown' = [scale |-> poolScale, surfaceScale |-> scale, theme |-> theme']
    /\ wanted' = IF more THEN {"again"} ELSE {}

(* The body of Client::render_frame, into the first buffer of the pool     *)
(* that is not busy (kept: those the compositor holds).  The latched input *)
(* is consumed; more: the draw called request_frame, or the canvas         *)
(* animates.                                                               *)
Draw(pool, poolScale, kept, more) ==
  \E s \in Slots :
    /\ pool[s] = "free"
    /\ \A r \in Slots : pool[r] = "free" => s <= r
    /\ buffers' = [pool EXCEPT ![s] = "busy"]
    /\ held' = kept \cup {s}
    /\ current' = s
    /\ theme' = IF themeCount = 0 THEN setting ELSE theme
    /\ themeCount' = (themeCount + 1) % ThemePeriod
    /\ bufferScale' = poolScale
    /\ shown' = [scale |-> poolScale, surfaceScale |-> scale, theme |-> theme']
    /\ wanted' = IF more THEN {"again"} ELSE {}

----------------------------------------------------------------------------
(* Wayland events.                                                         *)

(* xdg_surface_configure and layer_configure with a usable size, drawn.    *)
Configure(pool, more) ==
  /\ running
  /\ pool[1] = "free"
  /\ configured' = TRUE
  /\ Draw(pool, scale, {}, more)
  /\ needsFrame' = (needsFrame \/ more)
  /\ UNCHANGED <<kind, running, callback, scale, owed, visible, setting>>

(* The same, when not one buffer could be allocated.                       *)
ConfigureFails(pool) ==
  /\ running
  /\ pool[1] = "none"
  /\ configured' = TRUE
  /\ CreateBuffers(pool, scale)
  /\ needsFrame' = TRUE
  /\ wanted' = wanted \cup {"resize"}
  /\ UNCHANGED <<kind, running, callback, scale, theme, themeCount, owed,
                 current, visible, setting, shown>>

ChangeScaleQuietly(sc, pool) ==     \* mutant: the frame is not requested
  /\ running
  /\ sc # scale
  /\ scale' = sc
  /\ \/ /\ configured
        /\ CreateBuffers(pool, sc)
        /\ wanted' = wanted \cup {"resize"}
     \/ /\ ~configured
        /\ UNCHANGED <<buffers, bufferScale, held, wanted>>
  /\ UNCHANGED <<kind, running, configured, needsFrame, callback, theme, themeCount,
                 owed, current, visible, setting, shown>>

(* output_scale (or an output that goes): update_scale finds a new maximum.*)
ChangeScale(sc, pool) ==
  /\ running
  /\ sc # scale
  /\ scale' = sc
  /\ \/ /\ configured
        /\ CreateBuffers(pool, sc)
        /\ RequestFrame(sc)
        /\ wanted' = wanted \cup {"resize"}
     \/ /\ ~configured
        /\ UNCHANGED <<buffers, bufferScale, held, needsFrame, callback, owed,
                       shown, wanted>>
  /\ UNCHANGED <<kind, running, configured, theme, themeCount, current, visible,
                 setting>>

InputSilently ==                    \* mutant: the handler only latches
  /\ running
  /\ Mapped
  /\ wanted' = wanted \cup {"input"}
  /\ UNCHANGED <<kind, clientVars, externalVars>>

(* A pointer, touch or keyboard event: it is latched in input_ until the   *)
(* next draw, and every one ends in request_frame.                         *)
Input ==
  /\ running
  /\ Mapped
  /\ RequestFrame(scale)
  /\ wanted' = wanted \cup {"input"}
  /\ UNCHANGED <<kind, running, configured, buffers, bufferScale, scale, theme,
                 themeCount, held, current, visible, setting>>

(* frame_done with a buffer to draw in.                                    *)
FrameDone(more) ==
  /\ running
  /\ owed > 0 /\ Mapped /\ visible
  /\ Free # {}
  /\ Draw(buffers, bufferScale, held, more)
  /\ needsFrame' = more
  /\ callback' = (more \/ needsFrame)
  /\ owed' = IF more \/ needsFrame THEN owed ELSE owed - 1
  /\ UNCHANGED <<kind, running, configured, scale, visible, setting>>

(* frame_done with none: the frame is put off to the next callback.        *)
FrameDoneWithoutBuffer ==
  /\ running
  /\ owed > 0 /\ Mapped /\ visible
  /\ Free = {}
  /\ needsFrame' = TRUE
  /\ callback' = TRUE
  /\ shown' = [shown EXCEPT !.surfaceScale = scale]
  /\ UNCHANGED <<kind, running, configured, buffers, bufferScale, scale, theme,
                 themeCount, owed, held, current, visible, setting, wanted>>

ReleaseSilently(s) ==               \* mutant: a release wakes nobody
  /\ running
  /\ s \in held
  /\ held' = held \ {s}
  /\ buffers' = [buffers EXCEPT ![s] = "free"]
  /\ UNCHANGED <<kind, running, configured, needsFrame, callback, bufferScale,
                 scale, theme, themeCount, owed, current, visible, setting,
                 shown, wanted>>

(* buffer_release.  *)
BufferRelease(s) ==
  /\ running
  /\ s \in held
  /\ held' = held \ {s}
  /\ buffers' = [buffers EXCEPT ![s] = "free"]
  /\ \/ needsFrame /\ RequestFrame(scale)
     \/ ~needsFrame /\ UNCHANGED <<needsFrame, callback, owed, shown>>
  /\ UNCHANGED <<kind, running, configured, bufferScale, scale, theme, themeCount,
                 current, visible, setting, wanted>>

(* request_close: toplevel_close, layer_closed or the close button.  run() *)
(* leaves its loop; what the rest of the batch of events does is not seen. *)
RequestClose ==
  /\ running
  /\ running' = FALSE
  /\ UNCHANGED <<kind, configured, needsFrame, callback, buffers, bufferScale,
                 scale, theme, themeCount, externalVars, wanted>>

----------------------------------------------------------------------------
(* Client::run and the application.                                        *)

TimeoutWithoutFrame ==              \* mutant: theme_ changes, nothing is drawn
  /\ running
  /\ theme' = setting
  /\ \/ kind = "layer" /\ RequestFrame(scale)
     \/ kind = "app" /\ UNCHANGED <<needsFrame, callback, owed, shown>>
  /\ UNCHANGED <<kind, running, configured, buffers, bufferScale, scale, themeCount,
                 held, current, visible, setting, wanted>>

TimeoutWithoutTick ==               \* mutant: on_tick requests no frame
  /\ running
  /\ theme' = setting
  /\ IF setting # theme
       THEN RequestFrame(scale)
       ELSE UNCHANGED <<needsFrame, callback, owed, shown>>
  /\ UNCHANGED <<kind, running, configured, buffers, bufferScale, scale, themeCount,
                 held, current, visible, setting, wanted>>

(* poll timed out: the theme is compared, and a LayerApp ticks.            *)
PollTimeout ==
  /\ running
  /\ theme' = setting
  /\ IF kind = "layer" \/ setting # theme
       THEN RequestFrame(scale)
       ELSE UNCHANGED <<needsFrame, callback, owed, shown>>
  /\ UNCHANGED <<kind, running, configured, buffers, bufferScale, scale, themeCount,
                 held, current, visible, setting, wanted>>

(* set_title and set_framed in an app's constructor.                       *)
RequestEarly ==
  /\ running
  /\ ~configured
  /\ RequestFrame(scale)
  /\ UNCHANGED <<kind, running, configured, buffers, bufferScale, scale, theme,
                 themeCount, held, current, visible, setting, wanted>>

----------------------------------------------------------------------------
(* The world outside of the client.                                        *)

(* Another window comes or goes over the surface.                          *)
ChangeVisibility ==
  /\ visible' = ~visible
  /\ UNCHANGED <<kind, clientVars, owed, held, current, setting, shown, wanted>>

(* A program writes the theme file.                                        *)
ChangeSetting ==
  /\ setting' \in Themes \ {setting}
  /\ UNCHANGED <<kind, clientVars, owed, held, current, visible, shown, wanted>>

----------------------------------------------------------------------------
Init ==
  /\ kind \in Kinds
  /\ running = TRUE
  /\ configured = FALSE
  /\ needsFrame = FALSE
  /\ callback = FALSE
  /\ buffers = [s \in Slots |-> "none"]
  /\ scale \in Scales
  /\ bufferScale = scale
  /\ setting \in Themes
  /\ theme = setting
  /\ themeCount = 0
  /\ owed = 0
  /\ held = {}
  /\ current = NoBuffer
  /\ visible = TRUE
  /\ shown = [scale |-> scale, surfaceScale |-> scale, theme |-> theme]
  /\ wanted = {}

ClientStep ==
  \/ \E pool \in Pools, more \in BOOLEAN : Configure(pool, more)
  \/ \E pool \in Pools : ConfigureFails(pool)
  \/ \E sc \in Scales, pool \in Pools : ChangeScale(sc, pool)
  \/ Input
  \/ \E more \in BOOLEAN : FrameDone(more)
  \/ FrameDoneWithoutBuffer
  \/ \E s \in Slots : BufferRelease(s)
  \/ RequestClose
  \/ PollTimeout
  \/ RequestEarly

Next == ClientStep \/ ChangeVisibility \/ ChangeSetting

(* The compositor draws every output that is damaged, so a committed       *)
(* callback of a visible surface comes back; a buffer that was superseded  *)
(* is released; and poll times out when nothing arrives.  No fairness for  *)
(* the release of the buffer on screen, the user or the other programs.    *)
CallbackDone == (\E more \in BOOLEAN : FrameDone(more)) \/ FrameDoneWithoutBuffer

ReleaseSuperseded(s) == s # current /\ BufferRelease(s)

(* Nothing is about to arrive on the client's socket.                      *)
Quiet ==
  /\ ~(owed > 0 /\ Mapped /\ visible)
  /\ held \subseteq {current}
IdleTimeout == Quiet /\ PollTimeout

ReleaseIsScheduled(s) == WF_vars(ReleaseSuperseded(s))
Fairness ==
  /\ WF_vars(CallbackDone)
  /\ \A s \in Slots : ReleaseIsScheduled(s)
  /\ WF_vars(IdleTimeout)

Spec == Init /\ [][Next]_vars /\ Fairness

----------------------------------------------------------------------------
(* Properties.                                                             *)

(* Every variable keeps its shape.                                         *)
TypeOK ==
  /\ kind \in Kinds
  /\ {running, configured, needsFrame, callback, visible} \subseteq BOOLEAN
  /\ buffers \in [Slots -> {"none", "free", "busy"}]
  /\ bufferScale \in Scales /\ scale \in Scales
  /\ theme \in Themes /\ setting \in Themes
  /\ themeCount \in 0 .. ThemePeriod - 1
  /\ owed \in Nat
  /\ held \subseteq Slots
  /\ current \in Slots \cup {NoBuffer}
  /\ shown \in [scale : Scales, surfaceScale : Scales, theme : Themes]
  /\ wanted \subseteq {"input", "resize", "again"}

(* The client never draws into pixels the compositor may be reading: a     *)
(* buffer it holds is marked busy and is not picked, over any order of     *)
(* releases, reallocations and draws.                                      *)
NoTearing == \A s \in held : buffers[s] = "busy"

(* One refresh, one draw: however input, ticks, releases and scale changes *)
(* interleave, the compositor owes one callback when the client thinks it  *)
(* does, and none otherwise.                                               *)
OneCallback == owed = IF callback THEN 1 ELSE 0

(* The buffers always have the size that draws write.                      *)
BuffersFit == configured => bufferScale = scale

(* No lost wakeup: in no interleaving is a frame wanted with nothing on    *)
(* its way to draw it.  Input waits for a callback; so does a resize,      *)
(* unless the allocation failed; another frame the draw asked for may      *)
(* instead be waiting for the buffer on screen to be released.             *)
NoLostWakeup ==
  running /\ configured =>
    /\ "input" \in wanted => callback
    /\ "resize" \in wanted => callback \/ Starved
    /\ "again" \in wanted =>
         callback \/ Starved \/ (needsFrame /\ current \in held)

(* The content of a surface is at the scale it was last committed with,    *)
(* except between a change of the scale and the draw it causes.            *)
DrawnAtScale ==
  Mapped /\ "resize" \notin wanted =>
    shown.scale = scale /\ shown.surfaceScale = scale

(* docs/architecture.md:81: a client "draws on input": what the user does  *)
(* reaches the application, whatever the renderer does with the buffers,   *)
(* unless the window is hidden or closes or has no two buffers.            *)
InputDrawn ==
  "input" \in wanted ~>
    "input" \notin wanted \/ ~visible \/ ~running \/ Starved

(* "... on a resize": so does a new size or scale, once the client has     *)
(* drawn.  (If the first configure could not allocate a buffer, a later    *)
(* change of scale asks for a callback an unmapped surface never gets.)    *)
ResizeDrawn ==
  Mapped /\ "resize" \in wanted ~>
    "resize" \notin wanted \/ ~visible \/ ~running \/ Starved

(* "... and when it asks for another frame", for the shell and the         *)
(* wallpaper, whose tick makes up for a buffer that is not released.  A    *)
(* draw is told by themeCount, as the next one may ask for one more.       *)
LayerFrameDrawn ==
  \A n \in 0 .. ThemePeriod - 1 :
    kind = "layer" /\ "again" \in wanted /\ themeCount = n ~>
      themeCount # n \/ ~visible \/ ~running \/ Starved

(* docs/motion.md:35: a theme that stays is drawn by every open client     *)
(* that is visible, busy (every fifth frame) or idle (poll's timeout).     *)
ThemeFollows ==
  \A c \in Themes :
    <>[](setting = c /\ running /\ configured /\ Mapped /\ visible /\ ~Starved)
      => <>[](shown.theme = c)

(* docs/architecture.md:81 for every client: it draws "when it asks for    *)
(* another frame".                                                         *)
AskedFrameDrawn ==
  \A n \in 0 .. ThemePeriod - 1 :
    "again" \in wanted /\ themeCount = n ~>
      themeCount # n \/ ~visible \/ ~running \/ Starved
=============================================================================
