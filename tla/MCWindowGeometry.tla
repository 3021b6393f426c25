-------------------------- MODULE MCWindowGeometry -------------------------
(* WindowGeometry on a small instance: panels at the bottom, or one at     *)
(* either edge.                                                            *)
EXTENDS WindowGeometry

CONSTANT Top    \* the panels at the top

AnchorValue == [p \in Panels |-> IF p \in Top THEN "top" ELSE "bottom"]
============================================================================
