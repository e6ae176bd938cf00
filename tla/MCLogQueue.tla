----------------------------- MODULE MCLogQueue -----------------------------
(* Two threads of two lines each; a ring that wraps and overflows; files   *)
(* of two lines; two midnights.                                             *)
EXTENDS LogQueue, TLC
=============================================================================
