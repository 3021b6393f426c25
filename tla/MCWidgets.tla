------------------------------ MODULE MCWidgets -----------------------------
(* Widgets on a small instance: a folder of Files, the one that opens when *)
(* a row is clicked, with the button up disabled in the first and a row    *)
(* scrolled below it in the second, and a page of the control center,      *)
(* whose slider is where the row was.                                      *)
EXTENDS Widgets

CONSTANTS row, up, inner, slider, p1, p2, p3

Shown(place, enabled) == [at |-> place, on |-> enabled]

PagesValue ==
  { [w \in {row, up} |-> IF w = row THEN Shown(p1, TRUE) ELSE Shown(p2, FALSE)],
    [w \in {inner, up, row} |-> IF w = inner THEN Shown(p1, TRUE) ELSE Shown(p2, TRUE)],
    [w \in {row, slider} |-> IF w = slider THEN Shown(p1, TRUE) ELSE Shown(p3, TRUE)] }
=============================================================================
