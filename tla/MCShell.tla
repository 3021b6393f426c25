-------------------------------- MODULE MCShell --------------------------------
(* Shell on a screen of 1024 by 768, where the panels overlap: places of  *)
(* every kind that the shell tells apart.                                  *)
EXTENDS Shell

Button(b) == [over |-> {}, app |-> {}, button |-> b]

MCPlaces ==
  {Desktop, Button("slot"), Button("home"), Button("find"), Button("hardware"),
   [over |-> {"menu"}, app |-> {}, button |-> "power"],
   [over |-> Panels, app |-> {"menu", "search"}, button |-> "none"]}
================================================================================
