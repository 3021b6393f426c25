--------------------------- MODULE AtomicSettings ---------------------------
(***************************************************************************)
(* What the settings file promises its readers: it holds a value per key,  *)
(* and a change replaces the value of one key at once.  SettingsFile is    *)
(* shown to implement this; SettingsFollowers builds on it.                *)
(***************************************************************************)
CONSTANTS
  Themes,       \* values of dark=
  Displays,     \* values of resolution= and scale=, which change together
  None          \* no such line

VARIABLE live   \* the contents of $HOME/.config/finn/settings

Keys == {"dark", "display"}
Values(k) == IF k = "dark" THEN Themes ELSE Displays
Contents == [dark : Themes \cup {None}, display : Displays \cup {None}]
Empty == [k \in Keys |-> None]

Set(k, v) == live' = [live EXCEPT ![k] = v]

Init == live = Empty
Next == \E k \in Keys : \E v \in Values(k) : Set(k, v)
Spec == Init /\ [][Next]_live
=============================================================================
