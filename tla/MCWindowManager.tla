-------------------------- MODULE MCWindowManager --------------------------
(* WindowManager on a small instance.  Panels and keyboards are model      *)
(* values the specification only compares; windows are ranks of creation   *)
(* and are not interchangeable.                                            *)
EXTENDS WindowManager, TLC

Symmetry == Permutations(Layers) \cup Permutations(Keyboards)
============================================================================
