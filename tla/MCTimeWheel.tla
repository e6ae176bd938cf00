---------------------------- MODULE MCTimeWheel -----------------------------
(* A wheel of three slots; timeouts below, at and beyond one round; enough *)
(* timers for a list with an inner element.                                *)
EXTENDS TimeWheel, TLC

Symmetry == Permutations(Cells)
=============================================================================
