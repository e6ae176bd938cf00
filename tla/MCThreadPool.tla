---------------------------- MODULE MCThreadPool ----------------------------
(* A small pool: enough workers to race for one token, a queue that fills, *)
(* and answers appended by the workers themselves.                         *)
EXTENDS ThreadPool
=============================================================================
