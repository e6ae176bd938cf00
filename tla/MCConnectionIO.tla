--------------------------- MODULE MCConnectionIO ---------------------------
(* One connection, two workers, pipelined requests, a push from another    *)
(* user, and a send buffer smaller than two answers.                       *)
EXTENDS ConnectionIO
=============================================================================
