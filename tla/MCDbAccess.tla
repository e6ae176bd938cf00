----------------------------- MODULE MCDbAccess -----------------------------
(* Workers and the event loop against one connection more than workers.    *)
EXTENDS DbAccess

(* Workers and connections are interchangeable: no definition orders them  *)
(* except the free list, whose initial order is arbitrary.                 *)
Symmetry == Permutations(Workers) \cup Permutations(Conns)
=============================================================================
