----------------------- MODULE SettingsFollowersProofs -----------------------
(***************************************************************************)
(* What SettingsFollowers keeps, for any outputs, themes and displays.     *)
(***************************************************************************)
EXTENDS SettingsFollowers, TLAPS

(* What File!Set writes is again a content of the settings file.           *)
LEMMA SetKeepsContents ==
  ASSUME live \in File!Contents, NEW k \in File!Keys, NEW v \in File!Values(k),
         File!Set(k, v)
  PROVE  live' \in File!Contents
  BY DEF File!Set, File!Contents, File!Keys, File!Values

(* What a reader gets is a value of the key: the defaults are.             *)
LEMMA ReadsAreValues ==
  ASSUME live \in File!Contents
  PROVE  ReadDark \in Themes /\ ReadDisplay \in Displays
  BY DefaultsAssumption
     DEF File!Contents, File!Keys, File!Values, ReadDark, ReadDisplay

----------------------------------------------------------------------------
LEMMA TypeHolds == Init => TypeOK
  BY DefaultsAssumption
     DEF Init, TypeOK, File!Init, File!Empty, File!Contents, File!Keys, File!Values

LEMMA TypeStep == TypeOK /\ [Next]_vars => TypeOK'
<1> SUFFICES ASSUME TypeOK, [Next]_vars PROVE TypeOK'
    OBVIOUS
<1> USE DEF TypeOK
<1>r. ReadDark \in Themes /\ ReadDisplay \in Displays
    BY ReadsAreValues
<1>1. ASSUME NEW k \in File!Keys, NEW v \in File!Values(k), SettingsWrite(k, v)
      PROVE TypeOK'
  <2>1. live' \in File!Contents
      BY <1>1, SetKeepsContents DEF SettingsWrite
  <2> QED  BY <1>1, <2>1 DEF SettingsWrite
<1>2. ASSUME NEW v \in Themes, ShellToggle(v) PROVE TypeOK'
    BY <1>2 DEF ShellToggle
<1>3. CASE ShellWritten
  <2>1. "dark" \in File!Keys /\ shellWrites \in File!Values("dark")
      BY <1>3 DEF ShellWritten, File!Keys, File!Values
  <2>2. live' \in File!Contents
      BY <1>3, <2>1, SetKeepsContents DEF ShellWritten
  <2> QED  BY <1>3, <2>2 DEF ShellWritten
<1>4. CASE ShellWriteFails
    BY <1>4 DEF ShellWriteFails
<1>5. CASE ShellTick
    BY <1>5, <1>r DEF ShellTick
<1>6. ASSUME NEW refused \in SUBSET outputs, Timer(refused) PROVE TypeOK'
    BY <1>6, <1>r DEF Timer
<1>7. ASSUME NEW o \in Outputs, NEW refused \in BOOLEAN, AddOutput(o, refused)
      PROVE TypeOK'
    BY <1>7, <1>r DEF AddOutput
<1>8. ASSUME NEW o \in Outputs, RemoveOutput(o) PROVE TypeOK'
    BY <1>8 DEF RemoveOutput
<1>9. CASE UNCHANGED vars
    BY <1>9 DEF vars
<1> QED  BY <1>1, <1>2, <1>3, <1>4, <1>5, <1>6, <1>7, <1>8, <1>9 DEF Next, TimerFires

(* Every variable keeps its shape: what the shell and the compositor hold  *)
(* are values of the settings, and only a live output has refused.         *)
THEOREM TypeCorrect == Spec => []TypeOK
  BY TypeHolds, TypeStep, PTL DEF Spec

----------------------------------------------------------------------------
LEMMA AgreeStep == TypeOK /\ OutputsAgree /\ [Next]_vars => OutputsAgree'
<1> SUFFICES ASSUME TypeOK, OutputsAgree, [Next]_vars PROVE OutputsAgree'
    OBVIOUS
<1>r. ReadDisplay \in Displays /\ ReadDisplay # None
    BY ReadsAreValues, NoneAssumption DEF TypeOK
(* The steps that touch neither an output nor what outputs are given.      *)
<1>1. ASSUME UNCHANGED <<configured, outputs, applied, refusals>>
      PROVE OutputsAgree'
    BY <1>1 DEF OutputsAgree
(* The timer: configured_ has the value read, and whoever took it too; one *)
(* that refuses is not spoken of.                                          *)
<1>2. ASSUME NEW refused \in SUBSET outputs, Timer(refused)
      PROVE OutputsAgree'
    BY <1>2, <1>r DEF Timer, OutputsAgree, TypeOK
(* A new output: without a display so far there was no other that agreed.  *)
<1>3. ASSUME NEW o \in Outputs, NEW refused \in BOOLEAN, AddOutput(o, refused)
      PROVE OutputsAgree'
  <2>1. configured' # None
      BY <1>3, <1>r DEF AddOutput
  <2>2. ASSUME NEW q \in (outputs' \ refusals') PROVE applied'[q] = configured'
    <3>1. CASE q = o
        BY <1>3, <2>2, <3>1 DEF AddOutput, TypeOK
    <3>2. CASE q # o
      <4>1. q \in outputs \ refusals
          BY <1>3, <2>2, <3>2 DEF AddOutput
      <4>2. applied[q] = configured /\ configured # None
          BY <4>1 DEF OutputsAgree
      <4> QED  BY <1>3, <3>2, <4>2 DEF AddOutput, TypeOK
    <3> QED  BY <3>1, <3>2
  <2> QED  BY <2>1, <2>2 DEF OutputsAgree
<1>4. ASSUME NEW o \in Outputs, RemoveOutput(o) PROVE OutputsAgree'
    BY <1>4 DEF RemoveOutput, OutputsAgree, TypeOK
<1> QED
    BY <1>1, <1>2, <1>3, <1>4
       DEF Next, TimerFires, SettingsWrite, ShellToggle, ShellWritten, ShellWriteFails,
           ShellTick, vars

(* Outputs that were plugged in before, between and after changes of the   *)
(* display show the same one, the one the next output will get, however    *)
(* many there are and whichever refuse a commit.                           *)
THEOREM OutputsStayTogether == Spec => []OutputsAgree
<1>1. Init => OutputsAgree
    BY DEF Init, OutputsAgree
<1> QED  BY <1>1, TypeHolds, TypeStep, AgreeStep, PTL DEF Spec

----------------------------------------------------------------------------
(* Liveness.  Weak fairness of an action speaks of when it is ENABLED,     *)
(* which TLAPS does not evaluate.  The two conditions here say it for the  *)
(* actions that are fair: a tick that would change dark_, and a timer that *)
(* would change something, can be taken.  They hold in every state whose   *)
(* variables have their types (TLC evaluates them as invariants), and the  *)
(* theorems name them as hypotheses; everything else is proved.            *)
TickCanRun ==
  shellWrites = None /\ shellDark # ReadDark => ENABLED <<ShellTick>>_vars
TimerCanRun ==
  background # ReadDark \/ configured # ReadDisplay => ENABLED <<TimerFires>>_vars

(* The shell follows the file, whoever writes it: a tick is never shut out *)
(* by writes of the shell that end, and nothing but a switch that is in    *)
(* hand takes dark_ away from the file again (Shell::on_tick).             *)
THEOREM ShellCatchesUp == Spec /\ []TickCanRun => ShellFollows
<1> SUFFICES ASSUME NEW v \in Themes
             PROVE  Spec /\ []TickCanRun =>
                      (<>[](ReadDark = v /\ shellWrites = None) => <>[](shellDark = v))
    BY DEF ShellFollows
<1> DEFINE Rest == ReadDark = v /\ shellWrites = None
<1>1. Rest /\ Rest' /\ shellDark = v /\ [Next]_vars => (shellDark = v)'
  <2> SUFFICES ASSUME Rest, Rest', shellDark = v, [Next]_vars PROVE shellDark' = v
      OBVIOUS
  <2>1. ASSUME NEW w \in Themes, ShellToggle(w) PROVE shellDark' = v
      BY <2>1, NoneAssumption DEF ShellToggle
  <2> QED
      BY <2>1 DEF Next, TimerFires, SettingsWrite, ShellWritten, ShellWriteFails, ShellTick,
                  Timer, AddOutput, RemoveOutput, vars
<1>2. Rest /\ <<ShellTick>>_vars => (shellDark = v)'
    BY DEF ShellTick
<1>3. TickCanRun /\ Rest /\ ~(shellDark = v) => ENABLED <<ShellTick>>_vars
    BY DEF TickCanRun
<1> HIDE DEF Rest
<1>4. Spec /\ []TickCanRun => (<>[]Rest => <>[](shellDark = v))
    BY <1>1, <1>2, <1>3, PTL DEF Spec, Fairness
<1> QED  BY <1>4 DEF Rest

(* A timer brings both keys to the compositor, and no other step takes     *)
(* them away from what the file says.                                      *)
LEMMA TimerBrings ==
  ASSUME NEW v, NEW d \in Displays
  PROVE  LET Said == ReadDark = v /\ ReadDisplay = d
             Has  == background = v /\ configured = d
         IN  /\ Said /\ Said' /\ Has /\ [Next]_vars => Has'
             /\ Said /\ <<TimerFires>>_vars => Has'
             /\ TimerCanRun /\ Said /\ ~Has => ENABLED <<TimerFires>>_vars
<1>1. ASSUME ReadDark = v, ReadDisplay = d, background = v, configured = d,
             [Next]_vars
      PROVE  background' = v /\ configured' = d
  <2>1. configured # None
      BY <1>1, NoneAssumption
  <2> QED
      BY <1>1, <2>1 DEF Next, TimerFires, SettingsWrite, ShellToggle, ShellWritten,
         ShellWriteFails, ShellTick, Timer, AddOutput, RemoveOutput, vars
<1>2. ASSUME ReadDark = v, ReadDisplay = d, <<TimerFires>>_vars
      PROVE  background' = v /\ configured' = d
    BY <1>2 DEF TimerFires, Timer
<1> QED  BY <1>1, <1>2 DEF TimerCanRun

(* The compositor follows the file in both keys: the timer runs again and  *)
(* again, and a hotplug only copies what the file says or what the timer   *)
(* has read (update_background_theme, update_display_settings, add_output).*)
THEOREM CompositorCatchesUp == Spec /\ []TimerCanRun => CompositorFollows
<1> SUFFICES ASSUME NEW v \in Themes, NEW d \in Displays
             PROVE  Spec /\ []TimerCanRun =>
                      (<>[](ReadDark = v /\ ReadDisplay = d)
                         => <>[](background = v /\ configured = d))
    BY DEF CompositorFollows
<1> DEFINE Said == ReadDark = v /\ ReadDisplay = d
           Has  == background = v /\ configured = d
<1>1. /\ Said /\ Said' /\ Has /\ [Next]_vars => Has'
      /\ Said /\ <<TimerFires>>_vars => Has'
      /\ TimerCanRun /\ Said /\ ~Has => ENABLED <<TimerFires>>_vars
    BY TimerBrings
<1> HIDE DEF Said, Has
<1>2. Spec /\ []TimerCanRun => (<>[]Said => <>[]Has)
    BY <1>1, PTL DEF Spec, Fairness
<1> QED  BY <1>2 DEF Said, Has

(* A change of the display reaches every output, plugged in before or      *)
(* after it: the compositor comes to hold it, and outputs that refused     *)
(* nothing show what the compositor holds.                                 *)
THEOREM ChangesReachOutputs == Spec /\ []TimerCanRun => ChangeApplies
<1> SUFFICES ASSUME NEW d \in Displays
             PROVE  Spec /\ []TimerCanRun =>
                      (<>[](ReadDisplay = d /\ refusals = {})
                         => <>[](\A o \in outputs : applied[o] = d))
    BY DEF ChangeApplies
<1> DEFINE Said == ReadDisplay = d /\ refusals = {}
           Has  == configured = d
           Shown == \A o \in outputs : applied[o] = d
<1>1. Said /\ Said' /\ Has /\ [Next]_vars => Has'
  <2>1. configured = d => configured # None
      BY NoneAssumption
  <2> QED
      BY <2>1 DEF Next, TimerFires, SettingsWrite, ShellToggle, ShellWritten,
         ShellWriteFails, ShellTick, Timer, AddOutput, RemoveOutput, vars
<1>2. Said /\ <<TimerFires>>_vars => Has'
    BY DEF TimerFires, Timer
<1>3. TimerCanRun /\ Said /\ ~Has => ENABLED <<TimerFires>>_vars
    BY DEF TimerCanRun
<1>4. OutputsAgree /\ Said /\ Has => Shown
    BY DEF OutputsAgree
<1> HIDE DEF Said, Has, Shown
<1>5. Spec /\ []TimerCanRun => (<>[]Said => <>[]Shown)
    BY <1>1, <1>2, <1>3, <1>4, OutputsStayTogether, PTL DEF Spec, Fairness
<1> QED  BY <1>5 DEF Said, Shown
=============================================================================
