------------------------ MODULE FrameSchedulerProofs ------------------------
(***************************************************************************)
(* The safety properties of FrameScheduler for any sets of scales and      *)
(* themes.  Invariant is what all of them need together: NoLostWakeup is   *)
(* not inductive alone, since a release may free the very buffer a wanted  *)
(* frame waits for (NoTearing), and a callback that comes back is one the  *)
(* client still counts on (OneCallback).                                   *)
(***************************************************************************)
EXTENDS FrameScheduler, TLAPS

Shapes ==
  /\ kind \in Kinds
  /\ running \in BOOLEAN
  /\ configured \in BOOLEAN
  /\ needsFrame \in BOOLEAN
  /\ callback \in BOOLEAN
  /\ visible \in BOOLEAN
  /\ buffers \in [Slots -> {"none", "free", "busy"}]
  /\ bufferScale \in Scales
  /\ scale \in Scales
  /\ theme \in Themes
  /\ setting \in Themes
  /\ themeCount \in 0 .. 4
  /\ owed \in Nat
  /\ held \in SUBSET Slots
  /\ current \in Slots \cup {NoBuffer}
  /\ shown \in [scale : Scales, surfaceScale : Scales, theme : Themes]
  /\ wanted \in SUBSET {"input", "resize", "again"}

(* Before the first configure nothing is drawn, wanted or under way.       *)
Untouched == ~configured => ~callback /\ current = NoBuffer /\ wanted = {}

Invariant ==
  /\ Shapes
  /\ NoTearing
  /\ OneCallback
  /\ BuffersFit
  /\ NoLostWakeup
  /\ DrawnAtScale
  /\ Untouched

LEMMA InvariantInit == Init => Invariant
<1> SUFFICES ASSUME Init
             PROVE  Invariant
  OBVIOUS
<1>1. shown \in [scale : Scales, surfaceScale : Scales, theme : Themes]
  BY DEF Init
<1>2. Shapes
  <2>1. /\ kind \in Kinds
        /\ running \in BOOLEAN /\ configured \in BOOLEAN /\ needsFrame \in BOOLEAN
        /\ callback \in BOOLEAN /\ visible \in BOOLEAN
    BY DEF Init
  <2>2. /\ buffers \in [Slots -> {"none", "free", "busy"}]
        /\ bufferScale \in Scales /\ scale \in Scales
        /\ theme \in Themes /\ setting \in Themes
        /\ themeCount \in 0 .. 4 /\ owed \in Nat
    BY DEF Init
  <2>3. held \in SUBSET Slots /\ current \in Slots \cup {NoBuffer}
        /\ wanted \in SUBSET {"input", "resize", "again"}
    BY DEF Init
  <2> QED
    BY <1>1, <2>1, <2>2, <2>3 DEF Shapes
<1>3. NoTearing /\ OneCallback /\ BuffersFit
  BY DEF Init, NoTearing, OneCallback, BuffersFit
<1>4. NoLostWakeup /\ DrawnAtScale /\ Untouched
  BY DEF Init, NoLostWakeup, DrawnAtScale, Untouched, Mapped
<1> QED
  BY <1>2, <1>3, <1>4 DEF Invariant

(* What request_frame guarantees: afterwards a configured client has a     *)
(* callback under way, and still at most one.                              *)
LEMMA RequestSchedules ==
  ASSUME Shapes, OneCallback, Untouched, NEW sc \in Scales, RequestFrame(sc)
  PROVE  /\ callback' = configured
         /\ owed' = IF callback' THEN 1 ELSE 0
         /\ needsFrame' \in BOOLEAN
         /\ owed' \in Nat
         /\ shown' \in [scale : Scales, surfaceScale : Scales, theme : Themes]
         /\ shown'.scale = shown.scale
         /\ shown'.surfaceScale \in {shown.surfaceScale, sc}
<1>1. CASE ~configured \/ callback
  <2>1. callback = configured
    BY <1>1 DEF Untouched, Shapes
  <2>2. needsFrame' = TRUE /\ callback' = callback /\ owed' = owed /\ shown' = shown
    BY <1>1 DEF RequestFrame
  <2> QED
    BY <2>1, <2>2 DEF Shapes, OneCallback
<1>2. CASE configured /\ ~callback
  <2>1. /\ callback' = TRUE
        /\ owed' = owed + 1
        /\ shown' = [shown EXCEPT !.surfaceScale = sc]
        /\ needsFrame' = needsFrame
    BY <1>2 DEF RequestFrame
  <2>2. owed = 0
    BY <1>2 DEF OneCallback
  <2> QED
    BY <1>2, <2>1, <2>2 DEF Shapes
<1> QED
  BY <1>1, <1>2

(* What a draw leaves: one more buffer busy and held, content at the       *)
(* scale of the pool, and nothing wanted but what the draw asked for.      *)
LEMMA DrawShows ==
  ASSUME Shapes, NEW pool \in [Slots -> {"none", "free", "busy"}],
         NEW ps \in Scales, NEW kept \in SUBSET Slots, NEW more \in BOOLEAN,
         \A r \in kept : pool[r] = "busy",
         Draw(pool, ps, kept, more)
  PROVE  /\ buffers' \in [Slots -> {"none", "free", "busy"}]
         /\ held' \in SUBSET Slots
         /\ \A r \in held' : buffers'[r] = "busy"
         /\ current' \in Slots /\ current' \in held'
         /\ theme' \in Themes
         /\ themeCount' \in 0 .. 4
         /\ bufferScale' = ps
         /\ shown' \in [scale : Scales, surfaceScale : Scales, theme : Themes]
         /\ shown'.scale = ps /\ shown'.surfaceScale = scale
         /\ wanted' = IF more THEN {"again"} ELSE {}
<1>1. PICK s \in Slots :
        /\ pool[s] = "free"
        /\ buffers' = [pool EXCEPT ![s] = "busy"]
        /\ held' = kept \cup {s}
        /\ current' = s
        /\ theme' = IF themeCount = 0 THEN setting ELSE theme
        /\ themeCount' = (themeCount + 1) % ThemePeriod
        /\ bufferScale' = ps
        /\ shown' = [scale |-> ps, surfaceScale |-> scale, theme |-> theme']
        /\ wanted' = IF more THEN {"again"} ELSE {}
  BY DEF Draw
<1>2. themeCount' \in 0 .. 4
  BY <1>1 DEF Shapes, ThemePeriod
<1> QED
  BY <1>1, <1>2 DEF Shapes

LEMMA PoolsAreBuffers ==
  ASSUME NEW pool \in Pools
  PROVE  /\ pool \in [Slots -> {"none", "free", "busy"}]
         /\ pool[1] = "none" => \E s \in Slots : pool[s] = "none"
BY DEF Pools, Slots

LEMMA ConfigureKeeps ==
  ASSUME Invariant, NEW pool \in Pools, NEW more \in BOOLEAN, Configure(pool, more)
  PROVE  Invariant'
<1>1. pool \in [Slots -> {"none", "free", "busy"}]
  BY PoolsAreBuffers
<1> USE DEF Invariant
<1>2. Draw(pool, scale, {}, more) /\ Shapes /\ scale \in Scales
  BY DEF Configure, Shapes
<1>3. /\ buffers' \in [Slots -> {"none", "free", "busy"}]
      /\ held' \in SUBSET Slots
      /\ \A r \in held' : buffers'[r] = "busy"
      /\ current' \in Slots /\ current' \in held'
      /\ theme' \in Themes
      /\ themeCount' \in 0 .. 4
      /\ bufferScale' = scale
      /\ shown' \in [scale : Scales, surfaceScale : Scales, theme : Themes]
      /\ shown'.scale = scale /\ shown'.surfaceScale = scale
      /\ wanted' = IF more THEN {"again"} ELSE {}
  <2> DEFINE kept == {}
  <2>1. /\ kept \in SUBSET Slots /\ \A r \in kept : pool[r] = "busy"
        /\ Draw(pool, scale, kept, more)
    BY <1>2
  <2> HIDE DEF kept, Invariant
  <2> QED
    BY <1>1, <1>2, <2>1, DrawShows
<1>4. Shapes'
  BY <1>3 DEF Configure, Shapes
<1>5. NoTearing' /\ OneCallback' /\ BuffersFit' /\ DrawnAtScale' /\ Untouched'
  BY <1>3 DEF Configure, NoTearing, OneCallback, BuffersFit, DrawnAtScale,
              Untouched
<1>6. NoLostWakeup'
  BY <1>3 DEF Configure, NoLostWakeup
<1> QED
  BY <1>4, <1>5, <1>6

LEMMA ConfigureFailsKeeps ==
  ASSUME Invariant, NEW pool \in Pools, ConfigureFails(pool)
  PROVE  Invariant'
<1>1. /\ pool \in [Slots -> {"none", "free", "busy"}]
      /\ \E s \in Slots : pool[s] = "none"
  BY PoolsAreBuffers DEF ConfigureFails
<1> USE DEF Invariant
<1>2. Shapes'
  BY <1>1 DEF ConfigureFails, CreateBuffers, Shapes
<1>3. NoTearing' /\ OneCallback' /\ BuffersFit' /\ DrawnAtScale' /\ Untouched'
  BY <1>1 DEF ConfigureFails, CreateBuffers, NoTearing, OneCallback, BuffersFit,
              DrawnAtScale, Untouched, Mapped
<1>4. Starved'
  BY <1>1 DEF ConfigureFails, CreateBuffers, Starved
<1>5. NoLostWakeup'
  BY <1>4 DEF ConfigureFails, NoLostWakeup, Untouched
<1> QED
  BY <1>2, <1>3, <1>5

LEMMA ChangeScaleKeeps ==
  ASSUME Invariant, NEW sc \in Scales, NEW pool \in Pools, ChangeScale(sc, pool)
  PROVE  Invariant'
<1>1. pool \in [Slots -> {"none", "free", "busy"}]
  BY PoolsAreBuffers
<1> USE DEF Invariant
<1>2. CASE configured
  <2>1. CreateBuffers(pool, sc) /\ RequestFrame(sc) /\ wanted' = wanted \cup {"resize"}
    BY <1>2 DEF ChangeScale
  <2>2. /\ callback' = configured
        /\ owed' = IF callback' THEN 1 ELSE 0
        /\ needsFrame' \in BOOLEAN
        /\ owed' \in Nat
        /\ shown' \in [scale : Scales, surfaceScale : Scales, theme : Themes]
    BY <2>1, RequestSchedules
  <2>3. Shapes'
    BY <1>1, <2>1, <2>2 DEF ChangeScale, CreateBuffers, Shapes
  <2>4. NoTearing' /\ OneCallback' /\ BuffersFit' /\ DrawnAtScale' /\ Untouched'
    BY <1>2, <2>1, <2>2 DEF ChangeScale, CreateBuffers, NoTearing, OneCallback,
                            BuffersFit, DrawnAtScale, Untouched
  <2>5. NoLostWakeup'
    BY <1>2, <2>2 DEF ChangeScale, NoLostWakeup
  <2> QED
    BY <2>3, <2>4, <2>5
<1>3. CASE ~configured
  <2>1. Shapes'
    BY <1>3 DEF ChangeScale, Shapes
  <2>2. NoTearing' /\ OneCallback' /\ BuffersFit'
    BY <1>3 DEF ChangeScale, NoTearing, OneCallback, BuffersFit
  <2>3. NoLostWakeup' /\ DrawnAtScale' /\ Untouched'
    BY <1>3 DEF ChangeScale, NoLostWakeup, DrawnAtScale, Untouched, Mapped
  <2> QED
    BY <2>1, <2>2, <2>3
<1> QED
  BY <1>2, <1>3

LEMMA InputKeeps ==
  ASSUME Invariant, Input
  PROVE  Invariant'
<1> USE DEF Invariant
<1>1. RequestFrame(scale) /\ scale \in Scales
  BY DEF Input, Shapes
<1>2. /\ callback' = configured
      /\ owed' = IF callback' THEN 1 ELSE 0
      /\ needsFrame' \in BOOLEAN
      /\ owed' \in Nat
      /\ shown' \in [scale : Scales, surfaceScale : Scales, theme : Themes]
      /\ shown'.scale = shown.scale
      /\ shown'.surfaceScale \in {shown.surfaceScale, scale}
  BY <1>1, RequestSchedules
<1>3. Shapes'
  BY <1>2 DEF Input, Shapes
<1>4. NoTearing' /\ OneCallback' /\ BuffersFit' /\ DrawnAtScale' /\ Untouched'
  BY <1>2 DEF Input, NoTearing, OneCallback, BuffersFit, DrawnAtScale, Untouched,
              Mapped
<1>5. NoLostWakeup'
  BY <1>2 DEF Input, NoLostWakeup
<1> QED
  BY <1>3, <1>4, <1>5

LEMMA FrameDoneKeeps ==
  ASSUME Invariant, NEW more \in BOOLEAN, FrameDone(more)
  PROVE  Invariant'
<1> USE DEF Invariant
<1>1. callback /\ configured /\ owed = 1
  BY DEF FrameDone, OneCallback, Untouched, Shapes
<1>2. bufferScale = scale
  BY <1>1 DEF BuffersFit
<1>3. /\ Draw(buffers, bufferScale, held, more)
      /\ Shapes /\ bufferScale \in Scales /\ held \in SUBSET Slots
      /\ buffers \in [Slots -> {"none", "free", "busy"}]
      /\ \A r \in held : buffers[r] = "busy"
  BY DEF FrameDone, Shapes, NoTearing
<1>4. /\ buffers' \in [Slots -> {"none", "free", "busy"}]
      /\ held' \in SUBSET Slots
      /\ \A r \in held' : buffers'[r] = "busy"
      /\ current' \in Slots /\ current' \in held'
      /\ theme' \in Themes
      /\ themeCount' \in 0 .. 4
      /\ bufferScale' = bufferScale
      /\ shown' \in [scale : Scales, surfaceScale : Scales, theme : Themes]
      /\ shown'.scale = bufferScale /\ shown'.surfaceScale = scale
      /\ wanted' = IF more THEN {"again"} ELSE {}
  BY <1>3, DrawShows
<1>5. /\ callback' = (more \/ needsFrame)
      /\ owed' = IF callback' THEN 1 ELSE 0
  <2>1. CASE more \/ needsFrame
    BY <1>1, <2>1 DEF FrameDone
  <2>2. CASE ~(more \/ needsFrame)
    BY <1>1, <2>2 DEF FrameDone
  <2> QED
    BY <2>1, <2>2
<1>6. Shapes'
  BY <1>4, <1>5 DEF FrameDone, Shapes
<1>7. NoTearing' /\ OneCallback' /\ BuffersFit' /\ DrawnAtScale' /\ Untouched'
  BY <1>1, <1>2, <1>4, <1>5 DEF FrameDone, NoTearing, OneCallback, BuffersFit,
                                 DrawnAtScale, Untouched
<1>8. NoLostWakeup'
  BY <1>4, <1>5 DEF FrameDone, NoLostWakeup
<1> QED
  BY <1>6, <1>7, <1>8

LEMMA FrameDoneWithoutBufferKeeps ==
  ASSUME Invariant, FrameDoneWithoutBuffer
  PROVE  Invariant'
<1> USE DEF Invariant
<1>1. callback /\ configured /\ owed = 1
  BY DEF FrameDoneWithoutBuffer, OneCallback, Untouched, Shapes
<1>2. Shapes'
  BY DEF FrameDoneWithoutBuffer, Shapes
<1>3. NoTearing' /\ OneCallback' /\ BuffersFit' /\ DrawnAtScale' /\ Untouched'
  BY <1>1 DEF FrameDoneWithoutBuffer, NoTearing, OneCallback, BuffersFit,
              DrawnAtScale, Untouched, Mapped, Shapes
<1>4. NoLostWakeup'
  BY <1>1 DEF FrameDoneWithoutBuffer, NoLostWakeup
<1> QED
  BY <1>2, <1>3, <1>4

LEMMA BufferReleaseKeeps ==
  ASSUME Invariant, NEW s \in Slots, BufferRelease(s)
  PROVE  Invariant'
<1> USE DEF Invariant
<1>1. buffers[s] = "busy"
  BY DEF BufferRelease, NoTearing
<1>2. Starved' = Starved
  BY <1>1 DEF BufferRelease, Starved, Shapes
<1>3. /\ callback' \in BOOLEAN
      /\ callback => callback'
      /\ needsFrame /\ configured => callback'
      /\ needsFrame' \in BOOLEAN
      /\ owed' = IF callback' THEN 1 ELSE 0
      /\ owed' \in Nat
      /\ ~configured => ~callback'
      /\ shown' \in [scale : Scales, surfaceScale : Scales, theme : Themes]
      /\ shown'.scale = shown.scale
      /\ shown'.surfaceScale \in {shown.surfaceScale, scale}
  <2>1. CASE needsFrame
    <3>1. RequestFrame(scale) /\ scale \in Scales
      BY <2>1 DEF BufferRelease, Shapes
    <3> QED
      BY <3>1, RequestSchedules DEF Shapes, Untouched
  <2>2. CASE ~needsFrame
    BY <2>2 DEF BufferRelease, Shapes, OneCallback, Untouched
  <2> QED
    BY <2>1, <2>2
<1>4. Shapes'
  BY <1>3 DEF BufferRelease, Shapes
<1>5. NoTearing' /\ OneCallback' /\ BuffersFit' /\ DrawnAtScale' /\ Untouched'
  BY <1>3 DEF BufferRelease, NoTearing, OneCallback, BuffersFit, DrawnAtScale,
              Untouched, Mapped, Shapes
<1>6. NoLostWakeup'
  BY <1>2, <1>3 DEF BufferRelease, NoLostWakeup
<1> QED
  BY <1>4, <1>5, <1>6

LEMMA PollTimeoutKeeps ==
  ASSUME Invariant, PollTimeout
  PROVE  Invariant'
<1> USE DEF Invariant
<1>1. /\ callback' \in BOOLEAN
      /\ callback => callback'
      /\ needsFrame => needsFrame'
      /\ needsFrame' \in BOOLEAN
      /\ owed' = IF callback' THEN 1 ELSE 0
      /\ owed' \in Nat
      /\ ~configured => ~callback'
      /\ shown' \in [scale : Scales, surfaceScale : Scales, theme : Themes]
      /\ shown'.scale = shown.scale
      /\ shown'.surfaceScale \in {shown.surfaceScale, scale}
  <2>1. CASE kind = "layer" \/ setting # theme
    <3>1. RequestFrame(scale) /\ scale \in Scales
      BY <2>1 DEF PollTimeout, Shapes
    <3>2. needsFrame => needsFrame'
      BY <3>1 DEF RequestFrame, Shapes
    <3> QED
      BY <3>1, <3>2, RequestSchedules DEF Shapes, Untouched
  <2>2. CASE ~(kind = "layer" \/ setting # theme)
    BY <2>2 DEF PollTimeout, Shapes, OneCallback, Untouched
  <2> QED
    BY <2>1, <2>2
<1>2. Shapes'
  BY <1>1 DEF PollTimeout, Shapes
<1>3. NoTearing' /\ OneCallback' /\ BuffersFit' /\ DrawnAtScale' /\ Untouched'
  BY <1>1 DEF PollTimeout, NoTearing, OneCallback, BuffersFit, DrawnAtScale,
              Untouched, Mapped
<1>4. NoLostWakeup'
  BY <1>1 DEF PollTimeout, NoLostWakeup, Starved
<1> QED
  BY <1>2, <1>3, <1>4

LEMMA RequestEarlyKeeps ==
  ASSUME Invariant, RequestEarly
  PROVE  Invariant'
<1> USE DEF Invariant
<1>1. ~configured /\ needsFrame' = TRUE /\ UNCHANGED <<callback, owed, shown>>
  BY DEF RequestEarly, RequestFrame
<1>2. Shapes'
  BY <1>1 DEF RequestEarly, Shapes
<1>3. NoTearing' /\ OneCallback' /\ BuffersFit'
  BY <1>1 DEF RequestEarly, NoTearing, OneCallback, BuffersFit
<1>4. NoLostWakeup' /\ DrawnAtScale' /\ Untouched'
  BY <1>1 DEF RequestEarly, NoLostWakeup, DrawnAtScale, Untouched, Mapped
<1> QED
  BY <1>2, <1>3, <1>4

LEMMA RestKeeps ==
  ASSUME Invariant, RequestClose \/ ChangeVisibility \/ ChangeSetting
         \/ UNCHANGED vars
  PROVE  Invariant'
<1> USE DEF Invariant, Shapes, NoTearing, OneCallback, BuffersFit, NoLostWakeup,
            DrawnAtScale, Untouched, Mapped, Starved
<1>1. CASE RequestClose
  BY <1>1 DEF RequestClose, externalVars
<1>2. CASE ChangeVisibility
  BY <1>2 DEF ChangeVisibility, clientVars
<1>3. CASE ChangeSetting
  BY <1>3 DEF ChangeSetting, clientVars
<1>4. CASE UNCHANGED vars
  BY <1>4 DEF vars, clientVars, externalVars
<1> QED
  BY <1>1, <1>2, <1>3, <1>4

LEMMA InvariantStep == Invariant /\ [Next]_vars => Invariant'
<1> SUFFICES ASSUME Invariant, [Next]_vars
             PROVE  Invariant'
  OBVIOUS
<1>1. CASE \E pool \in Pools, more \in BOOLEAN : Configure(pool, more)
  BY <1>1, ConfigureKeeps
<1>2. CASE \E pool \in Pools : ConfigureFails(pool)
  BY <1>2, ConfigureFailsKeeps
<1>3. CASE \E sc \in Scales, pool \in Pools : ChangeScale(sc, pool)
  BY <1>3, ChangeScaleKeeps
<1>4. CASE Input
  BY <1>4, InputKeeps
<1>5. CASE \E more \in BOOLEAN : FrameDone(more)
  BY <1>5, FrameDoneKeeps
<1>6. CASE FrameDoneWithoutBuffer
  BY <1>6, FrameDoneWithoutBufferKeeps
<1>7. CASE \E s \in Slots : BufferRelease(s)
  BY <1>7, BufferReleaseKeeps
<1>8. CASE PollTimeout
  BY <1>8, PollTimeoutKeeps
<1>9. CASE RequestEarly
  BY <1>9, RequestEarlyKeeps
<1>10. CASE RequestClose \/ ChangeVisibility \/ ChangeSetting \/ UNCHANGED vars
  BY <1>10, RestKeeps
<1> QED
  BY <1>1, <1>2, <1>3, <1>4, <1>5, <1>6, <1>7, <1>8, <1>9, <1>10
  DEF Next, ClientStep

LEMMA InvariantAlways == Spec => []Invariant
BY InvariantInit, InvariantStep, PTL DEF Spec

(* Every variable keeps its shape. *)
THEOREM TypeCorrect == Spec => []TypeOK
<1>1. Invariant => TypeOK
  BY DEF Invariant, Shapes, TypeOK, ThemePeriod
<1> QED
  BY <1>1, InvariantAlways, PTL

(* render_frame never picks a buffer the compositor may be reading.        *)
THEOREM BuffersExclusive == Spec => []NoTearing
<1>1. Invariant => NoTearing
  BY DEF Invariant
<1> QED
  BY <1>1, InvariantAlways, PTL

(* frame_callback_ and the compositor's list agree: one at most.           *)
THEOREM CallbackUnique == Spec => []OneCallback
<1>1. Invariant => OneCallback
  BY DEF Invariant
<1> QED
  BY <1>1, InvariantAlways, PTL

(* A draw writes exactly the pixels its buffer has.                        *)
THEOREM DrawsFit == Spec => []BuffersFit
<1>1. Invariant => BuffersFit
  BY DEF Invariant
<1> QED
  BY <1>1, InvariantAlways, PTL

(* No frame that is wanted is left with nothing to bring it about.         *)
THEOREM WakeupsKept == Spec => []NoLostWakeup
<1>1. Invariant => NoLostWakeup
  BY DEF Invariant
<1> QED
  BY <1>1, InvariantAlways, PTL

(* Content is committed at its own scale outside of a change of scale.     *)
THEOREM ScaleDrawn == Spec => []DrawnAtScale
<1>1. Invariant => DrawnAtScale
  BY DEF Invariant
<1> QED
  BY <1>1, InvariantAlways, PTL

----------------------------------------------------------------------------
(* Liveness.  Weak fairness of an action speaks of when it is ENABLED,     *)
(* which TLAPS leaves unexpanded.  The three conditions here say when the  *)
(* fair actions are, by their guards; TLC finds each true in every state.  *)
(* The theorems take them as hypotheses, and prove everything else.        *)
DrawCanRun ==
  running /\ owed > 0 /\ Mapped /\ visible /\ Free # {}
    => ENABLED <<CallbackDone>>_vars
CanRelease(s) ==
  running /\ s \in held /\ s # current => ENABLED <<ReleaseSuperseded(s)>>_vars
ReleaseCanRun == \A s \in Slots : CanRelease(s)
TimeoutCanRun ==
  (running /\ Quiet /\
    (setting # theme \/ (kind = "layer" /\ configured /\ ~callback)))
    => ENABLED <<IdleTimeout>>_vars

(* What progress needs beyond Invariant: a buffer is busy because the      *)
(* compositor holds it, so its release is to come; input and a frame that  *)
(* was asked for are those of a surface with content; and content that has *)
(* the old theme has a callback under way.                                 *)
Progress ==
  /\ \A s \in Slots : buffers[s] = "busy" => s \in held
  /\ "input" \in wanted \/ "again" \in wanted => Mapped
  /\ Mapped => shown.theme = theme \/ callback

(* A draw: what it does for progress.                                      *)
LEMMA DrawTells ==
  ASSUME Shapes, NEW pool \in [Slots -> {"none", "free", "busy"}],
         NEW ps \in Scales, NEW kept \in SUBSET Slots, NEW more \in BOOLEAN,
         Draw(pool, ps, kept, more)
  PROVE  /\ current' \in Slots
         /\ (\A s \in Slots : pool[s] = "busy" => s \in kept)
              => \A s \in Slots : buffers'[s] = "busy" => s \in held'
         /\ theme' = IF themeCount = 0 THEN setting ELSE theme
         /\ shown'.theme = theme'
         /\ themeCount' = (themeCount + 1) % 5
         /\ themeCount' # themeCount
         /\ "input" \notin wanted' /\ "resize" \notin wanted'
<1>1. PICK s \in Slots :
        /\ buffers' = [pool EXCEPT ![s] = "busy"]
        /\ held' = kept \cup {s}
        /\ current' = s
        /\ theme' = IF themeCount = 0 THEN setting ELSE theme
        /\ themeCount' = (themeCount + 1) % ThemePeriod
        /\ shown' = [scale |-> ps, surfaceScale |-> scale, theme |-> theme']
        /\ wanted' = IF more THEN {"again"} ELSE {}
  BY DEF Draw
<1>2. (themeCount + 1) % 5 # themeCount
  BY DEF Shapes
<1> QED
  BY <1>1, <1>2 DEF ThemePeriod

(* The steps of the client in which it draws.                              *)
Draws ==
  \/ \E pool \in Pools, more \in BOOLEAN : Configure(pool, more)
  \/ \E more \in BOOLEAN : FrameDone(more)

LEMMA DrawsTell ==
  ASSUME Invariant, Progress, Draws
  PROVE  /\ running /\ UNCHANGED <<kind, running, visible, setting>>
         /\ configured'
         /\ Mapped'
         /\ \A s \in Slots : buffers'[s] = "busy" => s \in held'
         /\ theme' = IF themeCount = 0 THEN setting ELSE theme
         /\ shown'.theme = theme'
         /\ themeCount' = (themeCount + 1) % 5
         /\ themeCount' # themeCount
         /\ "input" \notin wanted' /\ "resize" \notin wanted'
<1> USE NoBufferAssumption
<1>1. ASSUME NEW pool \in Pools, NEW more \in BOOLEAN, Configure(pool, more)
      PROVE  /\ Draw(pool, scale, {}, more)
             /\ pool \in [Slots -> {"none", "free", "busy"}]
             /\ \A s \in Slots : pool[s] # "busy"
             /\ running /\ UNCHANGED <<kind, running, visible, setting>>
             /\ configured'
  BY <1>1 DEF Configure, Pools, Slots
<1>2. ASSUME NEW more \in BOOLEAN, FrameDone(more)
      PROVE  /\ Draw(buffers, bufferScale, held, more)
             /\ running /\ UNCHANGED <<kind, running, visible, setting>>
             /\ configured'
  BY <1>2 DEF FrameDone, Invariant, OneCallback, Untouched, Shapes
<1>3. CASE \E pool \in Pools, more \in BOOLEAN : Configure(pool, more)
  <2>1. PICK pool \in Pools, more \in BOOLEAN : Configure(pool, more)
    BY <1>3
  <2>2. scale \in Scales /\ {} \in SUBSET Slots
    BY DEF Invariant, Shapes
  <2>3. /\ current' \in Slots
        /\ \A s \in Slots : buffers'[s] = "busy" => s \in held'
        /\ theme' = IF themeCount = 0 THEN setting ELSE theme
        /\ shown'.theme = theme'
        /\ themeCount' = (themeCount + 1) % 5
        /\ themeCount' # themeCount
        /\ "input" \notin wanted' /\ "resize" \notin wanted'
    <3> DEFINE kept == {}
    <3>1. kept \in SUBSET Slots /\ Draw(pool, scale, kept, more)
      BY <1>1, <2>1
    <3> HIDE DEF kept
    <3> QED
      BY <1>1, <2>1, <2>2, <3>1, DrawTells DEF Invariant
  <2> QED
    BY <1>1, <2>1, <2>3 DEF Mapped
<1>4. CASE \E more \in BOOLEAN : FrameDone(more)
  <2>1. PICK more \in BOOLEAN : FrameDone(more)
    BY <1>4
  <2>2. /\ buffers \in [Slots -> {"none", "free", "busy"}]
        /\ bufferScale \in Scales /\ held \in SUBSET Slots
    BY DEF Invariant, Shapes
  <2>3. /\ current' \in Slots
        /\ \A s \in Slots : buffers'[s] = "busy" => s \in held'
        /\ theme' = IF themeCount = 0 THEN setting ELSE theme
        /\ shown'.theme = theme'
        /\ themeCount' = (themeCount + 1) % 5
        /\ themeCount' # themeCount
        /\ "input" \notin wanted' /\ "resize" \notin wanted'
    BY <1>2, <2>1, <2>2, DrawTells DEF Invariant, Progress
  <2> QED
    BY <1>2, <2>1, <2>3 DEF Mapped
<1> QED
  BY <1>3, <1>4 DEF Draws

(* Every other step: the count and the buffer on screen stay, a callback   *)
(* stays under way, and one is under way once the theme has changed.  A    *)
(* buffer that is free stays free, and one that is held stays held until   *)
(* there is a free one, unless the client starves.                         *)
Waits ==
  /\ kind' = kind /\ current' = current /\ themeCount' = themeCount
  /\ held' \subseteq held
  /\ \A s \in Slots : buffers'[s] = "busy" => s \in held'
  /\ Free # {} => Free' # {} \/ Starved'
  /\ \A s \in held : s \in held' \/ Free' # {} \/ Starved'
  /\ configured => configured'
  /\ callback => callback'
  /\ theme' = theme \/ (theme' = setting /\ callback' = configured')
  /\ shown'.theme = shown.theme
  /\ "again" \in wanted' <=> "again" \in wanted
  /\ "input" \in wanted' => "input" \in wanted \/ Mapped
  /\ "input" \in wanted => "input" \in wanted'
  /\ "resize" \in wanted => "resize" \in wanted'

LEMMA PoolsTell ==
  ASSUME NEW pool \in Pools
  PROVE  (\A s \in Slots : pool[s] = "free") \/ (\E s \in Slots : pool[s] = "none")
BY DEF Pools, Slots

LEMMA OthersWait ==
  ASSUME Invariant, Progress, [Next]_vars
  PROVE  Draws \/ Waits
<1> USE DEF Invariant, Progress, Waits
<1>1. ASSUME NEW pool \in Pools, ConfigureFails(pool) PROVE Waits
  BY <1>1, PoolsTell DEF ConfigureFails, CreateBuffers, Shapes, Starved, Free, Pools, Slots
<1>2. ASSUME NEW sc \in Scales, NEW pool \in Pools, ChangeScale(sc, pool) PROVE Waits
  <2>1. CASE configured
    <3>1. /\ buffers' = pool /\ held' = {}
          /\ RequestFrame(sc) /\ wanted' = wanted \cup {"resize"}
          /\ UNCHANGED <<kind, current, themeCount, configured, theme>>
      BY <1>2, <2>1 DEF ChangeScale, CreateBuffers
    <3>2. callback' = configured /\ shown'.theme = shown.theme
      BY <3>1, RequestSchedules DEF RequestFrame, Shapes
    <3>3. Free' # {} \/ Starved'
      BY <3>1, PoolsTell DEF Free, Starved, Slots
    <3>4. \A s \in Slots : buffers'[s] # "busy"
      BY <3>1 DEF Pools, Slots
    <3> QED
      BY <2>1, <3>1, <3>2, <3>3, <3>4
  <2>2. CASE ~configured
    BY <1>2, <2>2 DEF ChangeScale, Free
  <2> QED
    BY <2>1, <2>2
<1>3. ASSUME NEW s \in Slots, BufferRelease(s) PROVE Waits
  <2>1. /\ UNCHANGED <<kind, current, themeCount, configured, theme, wanted>>
        /\ held' = held \ {s} /\ buffers' = [buffers EXCEPT ![s] = "free"]
    BY <1>3 DEF BufferRelease
  <2>2. callback => callback'
    BY <1>3 DEF BufferRelease, RequestFrame
  <2>3. shown'.theme = shown.theme
    BY <1>3 DEF BufferRelease, RequestFrame, Shapes
  <2>4. s \in Free'
    BY <2>1 DEF Free, Shapes
  <2>5. \A r \in Slots : buffers'[r] = "busy" => r \in held'
    BY <2>1 DEF Shapes
  <2> QED
    BY <2>1, <2>2, <2>3, <2>4, <2>5
<1>4. CASE Input \/ PollTimeout \/ RequestEarly
  <2>1. UNCHANGED <<kind, current, themeCount, configured, held, buffers>>
    BY <1>4 DEF Input, PollTimeout, RequestEarly
  <2>2. RequestFrame(scale) \/ UNCHANGED <<callback, shown>>
    BY <1>4 DEF Input, PollTimeout, RequestEarly
  <2>3. (callback => callback') /\ shown'.theme = shown.theme
    BY <2>2 DEF RequestFrame, Shapes
  <2>4. theme' = theme \/ (theme' = setting /\ callback' = configured')
    <3>1. CASE theme' # theme
      <4>1. PollTimeout /\ setting # theme /\ theme' = setting
        BY <1>4, <3>1 DEF Input, PollTimeout, RequestEarly
      <4>2. RequestFrame(scale) /\ scale \in Scales /\ configured' = configured
        BY <4>1 DEF PollTimeout, Shapes
      <4> QED
        BY <4>1, <4>2, RequestSchedules
    <3> QED
      BY <3>1
  <2>5. \/ wanted' = wanted
        \/ Mapped /\ wanted' = wanted \cup {"input"}
    BY <1>4 DEF Input, PollTimeout, RequestEarly
  <2> QED
    BY <2>1, <2>3, <2>4, <2>5 DEF Free
<1>5. CASE FrameDoneWithoutBuffer
  BY <1>5 DEF FrameDoneWithoutBuffer, Shapes, Free
<1>6. CASE RequestClose \/ ChangeVisibility \/ ChangeSetting \/ UNCHANGED vars
  BY <1>6 DEF RequestClose, ChangeVisibility, ChangeSetting, vars, clientVars,
              externalVars, Free
<1> QED
  BY <1>1, <1>2, <1>3, <1>4, <1>5, <1>6 DEF Next, ClientStep, Draws

LEMMA ProgressAlways == Spec => []Progress
<1>1. Init => Progress
  BY DEF Init, Progress, Mapped
<1>2. Invariant /\ Progress /\ [Next]_vars => Progress'
  <2> SUFFICES ASSUME Invariant, Progress, [Next]_vars PROVE Progress'
    OBVIOUS
  <2>1. CASE Draws
    BY <2>1, DrawsTell DEF Progress
  <2>2. CASE Waits
    <3>1. Mapped' <=> Mapped
      BY <2>2 DEF Waits, Mapped
    <3>2. Mapped => configured
      BY DEF Invariant, Untouched, Mapped
    <3> QED
      BY <2>2, <3>1, <3>2 DEF Waits, Progress, Invariant, Shapes
  <2> QED
    BY <2>1, <2>2, OthersWait
<1> QED
  BY <1>1, <1>2, InvariantAlways, PTL DEF Spec

(* Fairness of the release of one buffer.                                  *)
LEMMA ReleaseScheduled ==
  ASSUME NEW r \in Slots
  PROVE  Fairness => ReleaseIsScheduled(r)
<1>1. Fairness => \A s \in Slots : ReleaseIsScheduled(s)
  BY PTL DEF Fairness
<1>2. (\A s \in Slots : ReleaseIsScheduled(s)) => ReleaseIsScheduled(r)
  OBVIOUS
<1> QED
  BY <1>1, <1>2

(* With a callback under way a visible client draws: the callback comes    *)
(* back, at once into a free buffer, or after the one that was superseded  *)
(* has been released.  A draw is told by what it clears, or by the count.  *)
OnScreen == Mapped /\ visible /\ running /\ ~Starved
Drawn(k, n) ==
  \/ k = "again" /\ themeCount # n
  \/ k # "again" /\ k \notin wanted
Coming(k, n) == callback /\ OnScreen /\ ~Drawn(k, n)
Came(k, n) == Drawn(k, n) \/ ~visible \/ ~running \/ Starved
Comes(k, n) == Coming(k, n) ~> Came(k, n)

LEMMA ComingStep ==
  ASSUME Invariant, Progress, [Next]_vars, NEW k \in {"input", "resize", "again"},
         NEW n \in 0 .. 4, Coming(k, n), ~Came(k, n)'
  PROVE  ~Draws /\ Waits /\ Coming(k, n)'
<1>1. ~Draws
  <2> SUFFICES ASSUME Draws PROVE FALSE
    OBVIOUS
  <2> HIDE DEF Draws
  <2>1. themeCount' # themeCount /\ "input" \notin wanted' /\ "resize" \notin wanted'
    BY DrawsTell
  <2> QED
    BY <2>1 DEF Coming, Came, Drawn
<1>2. Waits
  BY <1>1, OthersWait
<1> QED
  BY <1>1, <1>2 DEF Waits, Coming, Came, Drawn, OnScreen, Mapped

(* A callback that comes back to a free buffer is a draw.                  *)
LEMMA CallbackDraws ==
  ASSUME CallbackDone, Free # {}
  PROVE  Draws
BY DEF CallbackDone, FrameDoneWithoutBuffer, Draws

LEMMA FrameComes ==
  ASSUME NEW k \in {"input", "resize", "again"}, NEW n \in 0 .. 4
  PROVE  Spec /\ []DrawCanRun /\ []ReleaseCanRun => Comes(k, n)
<1> DEFINE Ready == Coming(k, n) /\ Free # {}
           Full(s) == Coming(k, n) /\ Free = {} /\ s # current
           Out == Came(k, n)
           Inv == Invariant /\ Progress
<1>1. Inv /\ Ready /\ [Next]_vars => Ready' \/ Out'
  BY ComingStep DEF Waits, Came
<1>2. Inv /\ Ready /\ [Next]_vars /\ <<CallbackDone>>_vars => Out'
  BY ComingStep, CallbackDraws
<1>3. Inv /\ Ready /\ DrawCanRun => ENABLED <<CallbackDone>>_vars
  <2>1. Inv /\ Ready => running /\ owed > 0 /\ Mapped /\ visible /\ Free # {}
    BY DEF Coming, OnScreen, Invariant, OneCallback
  <2> QED
    BY <2>1 DEF DrawCanRun
<1>4. ASSUME NEW s \in Slots
      PROVE  /\ Inv /\ Full(s) /\ [Next]_vars => Full(s)' \/ Ready' \/ Out'
             /\ Inv /\ Full(s) /\ [Next]_vars /\ <<ReleaseSuperseded(s)>>_vars
                  => Ready' \/ Out'
             /\ Inv /\ Full(s) => running /\ s \in held /\ s # current
  <2>1. Inv /\ Full(s) /\ [Next]_vars => Full(s)' \/ Ready' \/ Out'
    BY ComingStep DEF Waits
  <2>2. Inv /\ Full(s) /\ ReleaseSuperseded(s) => s \in Free'
    BY DEF ReleaseSuperseded, BufferRelease, Free, Invariant, Shapes
  <2>3. Inv /\ Full(s) => running /\ s \in held
    BY DEF Free, Coming, OnScreen, Starved, Invariant, Shapes, Progress
  <2> QED
    BY <2>1, <2>2, <2>3
<1>5. Inv /\ Coming(k, n) => Ready \/ Full(1) \/ Full(2)
  OBVIOUS
<1>6. 1 \in Slots /\ 2 \in Slots
  BY DEF Slots
<1>7. Fairness => ReleaseIsScheduled(1) /\ ReleaseIsScheduled(2)
  BY <1>6, ReleaseScheduled
<1>8. Spec => []Inv
  BY InvariantAlways, ProgressAlways, PTL
<1>9. /\ Inv /\ Full(1) /\ [Next]_vars => Full(1)' \/ Ready' \/ Out'
      /\ Inv /\ Full(1) /\ [Next]_vars /\ <<ReleaseSuperseded(1)>>_vars => Ready' \/ Out'
      /\ Inv /\ Full(1) /\ ReleaseCanRun => ENABLED <<ReleaseSuperseded(1)>>_vars
  <2>1. ReleaseCanRun => CanRelease(1)
    BY <1>6 DEF ReleaseCanRun
  <2>2. CanRelease(1) /\ running /\ 1 \in held /\ 1 # current
          => ENABLED <<ReleaseSuperseded(1)>>_vars
    BY DEF CanRelease
  <2> QED
    BY <1>4, <1>6, <2>1, <2>2
<1>10. /\ Inv /\ Full(2) /\ [Next]_vars => Full(2)' \/ Ready' \/ Out'
       /\ Inv /\ Full(2) /\ [Next]_vars /\ <<ReleaseSuperseded(2)>>_vars => Ready' \/ Out'
       /\ Inv /\ Full(2) /\ ReleaseCanRun => ENABLED <<ReleaseSuperseded(2)>>_vars
  <2>1. ReleaseCanRun => CanRelease(2)
    BY <1>6 DEF ReleaseCanRun
  <2>2. CanRelease(2) /\ running /\ 2 \in held /\ 2 # current
          => ENABLED <<ReleaseSuperseded(2)>>_vars
    BY DEF CanRelease
  <2> QED
    BY <1>4, <1>6, <2>1, <2>2
<1> HIDE DEF Ready, Full, Out, Inv
<1>11. Spec /\ []DrawCanRun /\ []ReleaseCanRun => (Coming(k, n) ~> Out)
  BY <1>1, <1>2, <1>3, <1>5, <1>7, <1>8, <1>9, <1>10, PTL
     DEF Spec, Fairness, ReleaseIsScheduled
<1> QED
  BY <1>11 DEF Out, Comes

(* The user sees what the input did: a pointer, touch or key event ends in *)
(* request_frame, and the frame comes (Client::request_frame, frame_done,  *)
(* buffer_release).                                                        *)
THEOREM InputIsDrawn == Spec /\ []DrawCanRun /\ []ReleaseCanRun => InputDrawn
<1> DEFINE Asked == "input" \in wanted
           Out == "input" \notin wanted \/ ~visible \/ ~running \/ Starved
<1>1. Invariant /\ Progress /\ Asked => Coming("input", 0) \/ Out
  BY DEF Invariant, Progress, NoLostWakeup, Untouched, Coming, OnScreen, Drawn, Mapped
<1>2. Came("input", 0) => Out
  BY DEF Came, Drawn
<1>3. Spec /\ []DrawCanRun /\ []ReleaseCanRun => Comes("input", 0)
  BY FrameComes
<1> HIDE DEF Asked, Out
<1>4. Spec /\ []DrawCanRun /\ []ReleaseCanRun => (Asked ~> Out)
  BY <1>1, <1>2, <1>3, InvariantAlways, ProgressAlways, PTL
     DEF Comes
<1> QED
  BY <1>4 DEF Asked, Out, InputDrawn

(* A new size or scale of a surface that has content is drawn              *)
(* (configured, update_scale).                                             *)
THEOREM ResizeIsDrawn == Spec /\ []DrawCanRun /\ []ReleaseCanRun => ResizeDrawn
<1> DEFINE Asked == Mapped /\ "resize" \in wanted
           Out == "resize" \notin wanted \/ ~visible \/ ~running \/ Starved
<1>1. Invariant /\ Asked => Coming("resize", 0) \/ Out
  BY DEF Invariant, NoLostWakeup, Untouched, Coming, OnScreen, Drawn, Mapped
<1>2. Came("resize", 0) => Out
  BY DEF Came, Drawn
<1>3. Spec /\ []DrawCanRun /\ []ReleaseCanRun => Comes("resize", 0)
  BY FrameComes
<1> HIDE DEF Asked, Out
<1>4. Spec /\ []DrawCanRun /\ []ReleaseCanRun => (Asked ~> Out)
  BY <1>1, <1>2, <1>3, InvariantAlways, ProgressAlways, PTL
     DEF Comes
<1> QED
  BY <1>4 DEF Asked, Out, ResizeDrawn

(* A surface on screen with no callback under way, of a client that has a  *)
(* tick or whose theme is not c: poll times out before long, and the       *)
(* timeout requests a frame.                                               *)
Woken(c, n) ==
  \/ callback \/ themeCount # n \/ ~OnScreen
  \/ kind # "layer" /\ (setting # c \/ theme = c)
Idle(c, n) == ~Woken(c, n) /\ held \subseteq {current}
Waiting(c, n, s) == ~Woken(c, n) /\ s \in held /\ s # current
Wakes(c, n) == []<>Woken(c, n)

LEMMA AsleepStep ==
  ASSUME Invariant, Progress, [Next]_vars, NEW c, NEW n, ~Woken(c, n), ~Woken(c, n)'
  PROVE  Waits
<1>1. CASE Draws
  <2>1. themeCount' # themeCount
    BY <1>1, DrawsTell
  <2> QED
    BY <2>1 DEF Woken
<1> QED
  BY <1>1, OthersWait

LEMMA TimeoutComes ==
  ASSUME NEW c, NEW n
  PROVE  Spec /\ []ReleaseCanRun /\ []TimeoutCanRun => Wakes(c, n)
<1> DEFINE Inv == Invariant /\ Progress
<1>1. Inv /\ Idle(c, n) /\ [Next]_vars => Idle(c, n)' \/ Woken(c, n)'
  BY AsleepStep DEF Idle, Waits
<1>2. Inv /\ Idle(c, n) /\ <<IdleTimeout>>_vars => Woken(c, n)'
  <2> SUFFICES ASSUME Inv, Idle(c, n), PollTimeout PROVE callback'
    BY DEF IdleTimeout, Woken
  <2>1. RequestFrame(scale) /\ scale \in Scales /\ configured
    BY DEF PollTimeout, Idle, Woken, OnScreen, Mapped, Invariant, Shapes, Untouched
  <2> QED
    BY <2>1, RequestSchedules DEF Invariant, Shapes
<1>3. Inv /\ Idle(c, n) =>
        /\ running /\ Quiet
        /\ setting # theme \/ (kind = "layer" /\ configured /\ ~callback)
  BY DEF Idle, Woken, OnScreen, Mapped, Quiet, Invariant, Untouched, OneCallback
<1>4. TimeoutCanRun /\ Inv /\ Idle(c, n) => ENABLED <<IdleTimeout>>_vars
  BY <1>3 DEF TimeoutCanRun
<1>5. ASSUME NEW s \in Slots
      PROVE  /\ Inv /\ Waiting(c, n, s) /\ [Next]_vars =>
                  Waiting(c, n, s)' \/ Idle(c, n)' \/ Woken(c, n)'
             /\ Inv /\ Waiting(c, n, s) /\ [Next]_vars /\ <<ReleaseSuperseded(s)>>_vars =>
                  Idle(c, n)' \/ Woken(c, n)'
             /\ Inv /\ Waiting(c, n, s) => running /\ s \in held /\ s # current
  <2>1. ASSUME Inv, Waiting(c, n, s), [Next]_vars, ~Woken(c, n)'
        PROVE  /\ Waits
               /\ s \notin held' => held' \subseteq {current'}
    <3>1. Waits
      BY <2>1, AsleepStep DEF Waiting
    <3>2. held \subseteq {s, current} /\ current' = current
      BY <2>1, <3>1 DEF Waiting, Waits, Woken, OnScreen, Mapped, Invariant, Shapes, Slots
    <3> QED
      BY <3>1, <3>2 DEF Waits
  <2>2. ReleaseSuperseded(s) => s \notin held'
    BY DEF ReleaseSuperseded, BufferRelease
  <2> QED
    BY <2>1, <2>2 DEF Waiting, Waits, Idle, Woken, OnScreen
<1>6. Inv => Woken(c, n) \/ Idle(c, n) \/ Waiting(c, n, 1) \/ Waiting(c, n, 2)
  BY DEF Idle, Waiting, Invariant, Shapes, Slots
<1>7. 1 \in Slots /\ 2 \in Slots
  BY DEF Slots
<1>8. Fairness => ReleaseIsScheduled(1) /\ ReleaseIsScheduled(2)
  BY <1>7, ReleaseScheduled
<1>9. Inv /\ Waiting(c, n, 1) /\ ReleaseCanRun => ENABLED <<ReleaseSuperseded(1)>>_vars
  <2>1. ReleaseCanRun => CanRelease(1)
    BY <1>7 DEF ReleaseCanRun
  <2>2. CanRelease(1) /\ running /\ 1 \in held /\ 1 # current
          => ENABLED <<ReleaseSuperseded(1)>>_vars
    BY DEF CanRelease
  <2> QED
    BY <1>5, <1>7, <2>1, <2>2
<1>10. Inv /\ Waiting(c, n, 2) /\ ReleaseCanRun => ENABLED <<ReleaseSuperseded(2)>>_vars
  <2>1. ReleaseCanRun => CanRelease(2)
    BY <1>7 DEF ReleaseCanRun
  <2>2. CanRelease(2) /\ running /\ 2 \in held /\ 2 # current
          => ENABLED <<ReleaseSuperseded(2)>>_vars
    BY DEF CanRelease
  <2> QED
    BY <1>5, <1>7, <2>1, <2>2
<1>11. /\ Inv /\ Waiting(c, n, 1) /\ [Next]_vars =>
            Waiting(c, n, 1)' \/ Idle(c, n)' \/ Woken(c, n)'
       /\ Inv /\ Waiting(c, n, 1) /\ [Next]_vars /\ <<ReleaseSuperseded(1)>>_vars =>
            Idle(c, n)' \/ Woken(c, n)'
  BY <1>5, <1>7
<1>12. /\ Inv /\ Waiting(c, n, 2) /\ [Next]_vars =>
            Waiting(c, n, 2)' \/ Idle(c, n)' \/ Woken(c, n)'
       /\ Inv /\ Waiting(c, n, 2) /\ [Next]_vars /\ <<ReleaseSuperseded(2)>>_vars =>
            Idle(c, n)' \/ Woken(c, n)'
  BY <1>5, <1>7
<1>13. Spec => []Inv
  BY InvariantAlways, ProgressAlways, PTL
<1> HIDE DEF Inv
<1> QED
  BY <1>1, <1>2, <1>4, <1>6, <1>8, <1>9, <1>10, <1>11, <1>12, <1>13, PTL
     DEF Spec, Fairness, ReleaseIsScheduled, Wakes

(* The shell and the wallpaper draw the frame they ask for: their tick     *)
(* (LayerApp's tick_, from poll's timeout) makes up for a buffer that is   *)
(* not released.                                                           *)
THEOREM LayerFrameIsDrawn ==
  Spec /\ []DrawCanRun /\ []ReleaseCanRun /\ []TimeoutCanRun => LayerFrameDrawn
<1> SUFFICES ASSUME NEW n \in 0 .. ThemePeriod - 1
             PROVE  Spec /\ []DrawCanRun /\ []ReleaseCanRun /\ []TimeoutCanRun =>
                      (kind = "layer" /\ "again" \in wanted /\ themeCount = n ~>
                         themeCount # n \/ ~visible \/ ~running \/ Starved)
  BY DEF LayerFrameDrawn
<1> DEFINE Asked == kind = "layer" /\ "again" \in wanted /\ themeCount = n
           Live == kind = "layer" /\ themeCount = n /\ OnScreen
           Out == themeCount # n \/ ~visible \/ ~running \/ Starved
<1>1. n \in 0 .. 4
  BY DEF ThemePeriod
<1>2. Progress /\ Asked => Live \/ Out
  BY DEF Progress, OnScreen
<1>3. Invariant /\ Progress /\ Live /\ [Next]_vars => Live' \/ Out'
  BY DrawsTell, OthersWait DEF Waits, OnScreen, Mapped
<1>4. Live /\ Woken(0, n) => Coming("again", n)
  BY DEF Woken, Coming, Drawn
<1>5. Came("again", n) => Out
  BY DEF Came, Drawn
<1>6. Spec /\ []DrawCanRun /\ []ReleaseCanRun => Comes("again", n)
  BY <1>1, FrameComes
<1>7. Spec /\ []ReleaseCanRun /\ []TimeoutCanRun => Wakes(0, n)
  BY TimeoutComes
<1> HIDE DEF Asked, Live, Out
<1>8. Spec /\ []DrawCanRun /\ []ReleaseCanRun /\ []TimeoutCanRun => (Asked ~> Out)
  BY <1>2, <1>3, <1>4, <1>5, <1>6, <1>7, InvariantAlways, ProgressAlways, PTL
     DEF Spec, Comes, Wakes
<1> QED
  BY <1>8 DEF Asked, Out

(* While the setting stays c and the surface is on screen.                 *)
Stays(c) ==
  setting = c /\ running /\ configured /\ Mapped /\ visible /\ ~Starved
Behind(c, n) == theme # c /\ themeCount = n
Unshown(c, n) == theme = c /\ shown.theme # c /\ themeCount = n

LEMMA ThemeStep ==
  ASSUME Invariant, Progress, [Next]_vars, NEW c, Stays(c), Stays(c)',
         NEW n \in 0 .. 4, themeCount = n
  PROVE  /\ theme = c => theme' = c
         /\ theme = c /\ shown.theme = c => shown'.theme = c
         /\ theme = c => Unshown(c, n)' \/ shown'.theme = c
         /\ theme # c => \/ Behind(c, n)' \/ theme' = c
                         \/ n # 0 /\ Behind(c, (n + 1) % 5)'
<1>1. CASE Draws
  <2>1. /\ theme' = IF themeCount = 0 THEN setting ELSE theme
        /\ shown'.theme = theme'
        /\ themeCount' = (themeCount + 1) % 5
    BY <1>1, DrawsTell
  <2> QED
    BY <2>1 DEF Stays, Behind, Unshown
<1>2. CASE Waits
  BY <1>2 DEF Waits, Stays, Behind, Unshown
<1> QED
  BY <1>1, <1>2, OthersWait

(* A client that is behind draws its way through the count, on callbacks   *)
(* or on timeouts that compare the theme, and every draw at 0 reads it.    *)
Catches(c, n) ==
  []([]Stays(c) => (Behind(c, n) ~> (n # 0 /\ Behind(c, (n + 1) % 5)) \/ theme = c))

LEMMA CountGoesOn ==
  ASSUME NEW c, NEW n \in 0 .. 4
  PROVE  Spec /\ []DrawCanRun /\ []ReleaseCanRun /\ []TimeoutCanRun => Catches(c, n)
<1> DEFINE Out == (n # 0 /\ Behind(c, (n + 1) % 5)) \/ theme = c
<1>1. Invariant /\ Progress /\ Stays(c) /\ Stays(c)' /\ Behind(c, n) /\ [Next]_vars =>
        Behind(c, n)' \/ Out'
  BY ThemeStep DEF Behind
<1>2. Stays(c) /\ Behind(c, n) /\ Woken(c, n) => Coming("again", n)
  BY DEF Stays, Behind, Woken, Coming, Drawn, OnScreen
<1>3. Stays(c) /\ Came("again", n) => ~Behind(c, n)
  BY DEF Stays, Behind, Came, Drawn
<1>4. Spec /\ []DrawCanRun /\ []ReleaseCanRun => Comes("again", n)
  BY FrameComes
<1>5. Spec /\ []ReleaseCanRun /\ []TimeoutCanRun => Wakes(c, n)
  BY TimeoutComes
<1> HIDE DEF Out
<1>6. Spec /\ []DrawCanRun /\ []ReleaseCanRun /\ []TimeoutCanRun =>
        []([]Stays(c) => (Behind(c, n) ~> Out))
  BY <1>1, <1>2, <1>3, <1>4, <1>5, InvariantAlways, ProgressAlways, PTL
     DEF Spec, Comes, Wakes
<1> QED
  BY <1>6 DEF Catches, Out

(* A client that has the theme but does not show it has a callback.        *)
Shows(c, n) == []([]Stays(c) => (Unshown(c, n) ~> shown.theme = c))

LEMMA ThemeIsShown ==
  ASSUME NEW c, NEW n \in 0 .. 4
  PROVE  Spec /\ []DrawCanRun /\ []ReleaseCanRun => Shows(c, n)
<1> DEFINE Out == shown.theme = c
<1>1. Invariant /\ Progress /\ Stays(c) /\ Stays(c)' /\ Unshown(c, n) /\ [Next]_vars =>
        Unshown(c, n)' \/ Out'
  BY ThemeStep DEF Unshown
<1>2. Progress /\ Stays(c) /\ Unshown(c, n) => Coming("again", n)
  BY DEF Progress, Stays, Unshown, Coming, Drawn, OnScreen
<1>3. Stays(c) /\ Came("again", n) => ~Unshown(c, n)
  BY DEF Stays, Unshown, Came, Drawn
<1>4. Spec /\ []DrawCanRun /\ []ReleaseCanRun => Comes("again", n)
  BY FrameComes
<1> HIDE DEF Out
<1>5. Spec /\ []DrawCanRun /\ []ReleaseCanRun =>
        []([]Stays(c) => (Unshown(c, n) ~> Out))
  BY <1>1, <1>2, <1>3, <1>4, InvariantAlways, ProgressAlways, PTL DEF Spec, Comes
<1> QED
  BY <1>5 DEF Shows, Out

(* A theme that stays comes to be shown by a client on screen, and is then *)
(* shown for good: by the draw that reads it, every fifth, or by the       *)
(* timeout that compares it (render_frame, Client::run).                   *)
THEOREM ThemeIsFollowed ==
  Spec /\ []DrawCanRun /\ []ReleaseCanRun /\ []TimeoutCanRun => ThemeFollows
<1> SUFFICES ASSUME NEW c \in Themes
             PROVE  Spec /\ []DrawCanRun /\ []ReleaseCanRun /\ []TimeoutCanRun =>
                      (<>[](setting = c /\ running /\ configured /\ Mapped /\ visible
                              /\ ~Starved)
                         => <>[](shown.theme = c))
  BY DEF ThemeFollows
<1> DEFINE Have == theme = c
           Show == shown.theme = c
<1>1. Invariant /\ Progress /\ Stays(c) /\ Stays(c)' /\ Have /\ [Next]_vars => Have'
  BY ThemeStep DEF Invariant, Shapes
<1>2. Invariant /\ Progress /\ Stays(c) /\ Stays(c)' /\ Have /\ Show /\ [Next]_vars => Show'
  BY ThemeStep DEF Invariant, Shapes
<1>3. /\ Spec /\ []DrawCanRun /\ []ReleaseCanRun /\ []TimeoutCanRun => Catches(c, 0)
      /\ Spec /\ []DrawCanRun /\ []ReleaseCanRun /\ []TimeoutCanRun => Catches(c, 1)
      /\ Spec /\ []DrawCanRun /\ []ReleaseCanRun /\ []TimeoutCanRun => Catches(c, 2)
      /\ Spec /\ []DrawCanRun /\ []ReleaseCanRun /\ []TimeoutCanRun => Catches(c, 3)
      /\ Spec /\ []DrawCanRun /\ []ReleaseCanRun /\ []TimeoutCanRun => Catches(c, 4)
  BY CountGoesOn
<1>4. /\ Spec /\ []DrawCanRun /\ []ReleaseCanRun => Shows(c, 0)
      /\ Spec /\ []DrawCanRun /\ []ReleaseCanRun => Shows(c, 1)
      /\ Spec /\ []DrawCanRun /\ []ReleaseCanRun => Shows(c, 2)
      /\ Spec /\ []DrawCanRun /\ []ReleaseCanRun => Shows(c, 3)
      /\ Spec /\ []DrawCanRun /\ []ReleaseCanRun => Shows(c, 4)
  BY ThemeIsShown
<1>5. Invariant => Have \/ Behind(c, 0) \/ Behind(c, 1) \/ Behind(c, 2)
                        \/ Behind(c, 3) \/ Behind(c, 4)
  BY DEF Invariant, Shapes, Behind
<1>6. Invariant /\ Have => Show \/ Unshown(c, 0) \/ Unshown(c, 1) \/ Unshown(c, 2)
                                \/ Unshown(c, 3) \/ Unshown(c, 4)
  BY DEF Invariant, Shapes, Unshown
<1>7. /\ ~(0 # 0)
      /\ Behind(c, (1 + 1) % 5) <=> Behind(c, 2)
      /\ Behind(c, (2 + 1) % 5) <=> Behind(c, 3)
      /\ Behind(c, (3 + 1) % 5) <=> Behind(c, 4)
      /\ Behind(c, (4 + 1) % 5) <=> Behind(c, 0)
  OBVIOUS
<1>8. /\ Catches(c, 0) => []([]Stays(c) => (Behind(c, 0) ~> Have))
      /\ Catches(c, 1) => []([]Stays(c) => (Behind(c, 1) ~> Behind(c, 2) \/ Have))
      /\ Catches(c, 2) => []([]Stays(c) => (Behind(c, 2) ~> Behind(c, 3) \/ Have))
      /\ Catches(c, 3) => []([]Stays(c) => (Behind(c, 3) ~> Behind(c, 4) \/ Have))
      /\ Catches(c, 4) => []([]Stays(c) => (Behind(c, 4) ~> Behind(c, 0) \/ Have))
  BY <1>7, PTL DEF Catches
<1>9. /\ Shows(c, 0) => []([]Stays(c) => (Unshown(c, 0) ~> Show))
      /\ Shows(c, 1) => []([]Stays(c) => (Unshown(c, 1) ~> Show))
      /\ Shows(c, 2) => []([]Stays(c) => (Unshown(c, 2) ~> Show))
      /\ Shows(c, 3) => []([]Stays(c) => (Unshown(c, 3) ~> Show))
      /\ Shows(c, 4) => []([]Stays(c) => (Unshown(c, 4) ~> Show))
  BY PTL DEF Shows
<1>10. (setting = c /\ running /\ configured /\ Mapped /\ visible /\ ~Starved) <=> Stays(c)
  BY DEF Stays
<1> HIDE DEF Have, Show
<1>11. Spec /\ []DrawCanRun /\ []ReleaseCanRun /\ []TimeoutCanRun =>
         []([]Stays(c) => <>Have)
  BY <1>3, <1>5, <1>8, InvariantAlways, PTL
<1>12. Spec /\ []DrawCanRun /\ []ReleaseCanRun =>
         []([]Stays(c) /\ []Have => <>Show)
  BY <1>4, <1>6, <1>9, InvariantAlways, PTL
<1>13. Spec /\ []DrawCanRun /\ []ReleaseCanRun /\ []TimeoutCanRun =>
         (<>[]Stays(c) => <>[]Show)
  BY <1>1, <1>2, <1>11, <1>12, InvariantAlways, ProgressAlways, PTL DEF Spec
<1> QED
  BY <1>10, <1>13, PTL DEF Show
=============================================================================
