---------------------------- MODULE MCEventLoop -----------------------------
(* Two descriptors and four inputs, so that a third client can be given a  *)
(* descriptor again, also while its former connection is being closed; a   *)
(* live timer is an accepted client's, so that four of them suffice.       *)
EXTENDS EventLoop, TLC
=============================================================================
