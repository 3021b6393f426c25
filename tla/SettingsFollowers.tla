-------------------------- MODULE SettingsFollowers --------------------------
(***************************************************************************)
(* The programs that follow the settings file: the shell, on its tick, and *)
(* finn-comp, on its one-second timer, where a change of the display is    *)
(* committed to every output.  (The applications follow it when they draw: *)
(* FrameScheduler.)                                                        *)
(*                                                                         *)
(* The file is that of AtomicSettings; what becomes of two writes at once  *)
(* is the subject of SettingsFile.  FINN_DARK and FINN_OUTPUT_* and        *)
(* /var/lib/finn/settings are fixed while the system runs: they are the    *)
(* defaults.                                                               *)
(***************************************************************************)
CONSTANTS
  Outputs,      \* the displays that may be plugged in
  Themes,       \* values of dark=
  Displays,     \* values of resolution= and scale=
  Light,        \* what an absent dark= means
  Fallback,     \* what an absent resolution= means
  None          \* no value

ASSUME DefaultsAssumption == Light \in Themes /\ Fallback \in Displays
ASSUME NoneAssumption == None \notin Themes \cup Displays

VARIABLES
  live,         \* the settings file
  shellDark,    \* Shell::dark_
  shellWrites,  \* the value Shell is in write_dark_setting with, or None
  background,   \* the theme of finn-comp's background_
  configured,   \* configured_w_, configured_h_ and configured_scale_
  outputs,      \* outputs_
  applied,      \* applied[o]: what o was last committed with
  refusals      \* history: an output refused a commit since it was added

vars == <<live, shellDark, shellWrites, background, configured, outputs,
          applied, refusals>>

File == INSTANCE AtomicSettings

(* read_dark_setting and prefers_dark; read_display_config.                *)
ReadDark == IF live["dark"] = None THEN Light ELSE live["dark"]
ReadDisplay == IF live["display"] = None THEN Fallback ELSE live["display"]

----------------------------------------------------------------------------
(* A Settings window writes; see SettingsFile.                             *)
SettingsWrite(k, v) ==
  /\ File!Set(k, v)
  /\ UNCHANGED <<shellDark, shellWrites, background, configured, outputs,
                 applied, refusals>>

(* The dark-appearance switch of the control center: dark_ changes first,  *)
(* and the result of the write is not looked at.                           *)
ShellToggle(v) ==
  /\ shellWrites = None
  /\ v # shellDark
  /\ shellDark' = v
  /\ shellWrites' = v
  /\ UNCHANGED <<live, background, configured, outputs, applied, refusals>>

ShellWritten ==
  /\ shellWrites # None
  /\ File!Set("dark", shellWrites)
  /\ shellWrites' = None
  /\ UNCHANGED <<shellDark, background, configured, outputs, applied, refusals>>

ShellWriteFails ==
  /\ shellWrites # None
  /\ shellWrites' = None
  /\ UNCHANGED <<live, shellDark, background, configured, outputs, applied,
                 refusals>>

ShellTickStale ==                   \* mutant: on_tick does not re-read
  /\ shellWrites = None
  /\ UNCHANGED vars

ShellTickRaw ==                     \* mutant: an absent line has no default
  /\ shellWrites = None
  /\ shellDark' = live["dark"]
  /\ UNCHANGED <<live, shellWrites, background, configured, outputs, applied,
                 refusals>>

(* Shell::on_tick, which is not run while the shell writes.                *)
ShellTick ==
  /\ shellWrites = None
  /\ shellDark' = ReadDark
  /\ UNCHANGED <<live, shellWrites, background, configured, outputs, applied,
                 refusals>>

TimerOnce(refused) ==               \* mutant: the display is read at boot only
  /\ refused = {}
  /\ background' = ReadDark
  /\ configured' = IF configured = None THEN ReadDisplay ELSE configured
  /\ UNCHANGED <<live, shellDark, shellWrites, outputs, applied, refusals>>

TimerOneOutput(refused) ==          \* mutant: only one output is committed
  /\ background' = ReadDark
  /\ configured' = ReadDisplay
  /\ refused = {}
  /\ \/ /\ ReadDisplay = configured \/ outputs = {}
        /\ UNCHANGED applied
     \/ /\ ReadDisplay # configured
        /\ \E o \in outputs : applied' = [applied EXCEPT ![o] = ReadDisplay]
  /\ UNCHANGED <<live, shellDark, shellWrites, outputs, refusals>>

(* The one-second timer of finn-comp: update_background_theme, then        *)
(* update_display_settings.  configured_ changes first; an output that     *)
(* refuses the commit keeps what it had, and is not tried again.           *)
Timer(refused) ==
  /\ background' = ReadDark
  /\ configured' = ReadDisplay
  /\ \/ /\ ReadDisplay = configured
        /\ refused = {}
        /\ UNCHANGED <<applied, refusals>>
     \/ /\ ReadDisplay # configured
        /\ applied' = [o \in Outputs |->
             IF o \in outputs \ refused THEN ReadDisplay ELSE applied[o]]
        /\ refusals' = refusals \cup refused
  /\ UNCHANGED <<live, shellDark, shellWrites, outputs>>

AddOutputFresh(o, refused) ==       \* mutant: a hotplug reads the file anew
  /\ o \notin outputs
  /\ outputs' = outputs \cup {o}
  /\ configured' = ReadDisplay
  /\ applied' = [applied EXCEPT ![o] = IF refused THEN None ELSE configured']
  /\ refusals' = IF refused THEN refusals \cup {o} ELSE refusals
  /\ background' = ReadDark
  /\ UNCHANGED <<live, shellDark, shellWrites>>

(* Whichever outputs refuse.                                               *)
TimerFires == \E refused \in SUBSET outputs : Timer(refused)

(* Server::add_output: only the first one reads the file.                  *)
AddOutput(o, refused) ==
  /\ o \notin outputs
  /\ outputs' = outputs \cup {o}
  /\ configured' = IF configured = None THEN ReadDisplay ELSE configured
  /\ applied' = [applied EXCEPT ![o] = IF refused THEN None ELSE configured']
  /\ refusals' = IF refused THEN refusals \cup {o} ELSE refusals
  /\ background' = ReadDark
  /\ UNCHANGED <<live, shellDark, shellWrites>>

(* Server::remove_output. *)
RemoveOutput(o) ==
  /\ o \in outputs
  /\ outputs' = outputs \ {o}
  /\ applied' = [applied EXCEPT ![o] = None]
  /\ refusals' = refusals \ {o}
  /\ UNCHANGED <<live, shellDark, shellWrites, background, configured>>

----------------------------------------------------------------------------
Init ==
  /\ File!Init
  /\ shellDark = Light
  /\ shellWrites = None
  /\ background = Light
  /\ configured = None
  /\ outputs = {}
  /\ applied = [o \in Outputs |-> None]
  /\ refusals = {}

Next ==
  \/ \E k \in File!Keys : \E v \in File!Values(k) : SettingsWrite(k, v)
  \/ \E v \in Themes : ShellToggle(v)
  \/ ShellWritten
  \/ ShellWriteFails
  \/ ShellTick
  \/ TimerFires
  \/ \E o \in Outputs, refused \in BOOLEAN : AddOutput(o, refused)
  \/ \E o \in Outputs : RemoveOutput(o)

(* Every run of the tick and of the timer re-arms it, and a write ends.    *)
Fairness ==
  /\ WF_vars(ShellTick)
  /\ WF_vars(ShellWritten \/ ShellWriteFails)
  /\ WF_vars(TimerFires)

Spec == Init /\ [][Next]_vars /\ Fairness

----------------------------------------------------------------------------
(* Every variable keeps its shape.                                         *)
TypeOK ==
  /\ live \in File!Contents
  /\ shellDark \in Themes /\ background \in Themes
  /\ shellWrites \in Themes \cup {None}
  /\ configured \in Displays \cup {None}
  /\ outputs \subseteq Outputs
  /\ applied \in [Outputs -> Displays \cup {None}]
  /\ refusals \subseteq outputs

(* Outputs plugged in before, between or after changes of the display show *)
(* all the same one, the one later outputs will get, unless one refused.   *)
OutputsAgree ==
  \A o \in outputs \ refusals : applied[o] = configured /\ configured # None

(* docs/code-map.md:82: the shell follows the file whoever writes it, and  *)
(* a switch whose write failed goes back to the file's value.              *)
ShellFollows ==
  \A v \in Themes :
    <>[](ReadDark = v /\ shellWrites = None) => <>[](shellDark = v)

(* docs/code-map.md:83: so does the compositor, for both keys.             *)
CompositorFollows ==
  \A v \in Themes, d \in Displays :
    <>[](ReadDark = v /\ ReadDisplay = d)
      => <>[](background = v /\ configured = d)

(* apps/settings/main.cpp:373: "Changes apply dynamically within 1         *)
(* second": on every output, plugged in before or after the change, that   *)
(* takes what it is given.                                                 *)
ChangeApplies ==
  \A d \in Displays :
    <>[](ReadDisplay = d /\ refusals = {})
      => <>[](\A o \in outputs : applied[o] = d)
=============================================================================
