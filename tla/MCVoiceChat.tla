---------------------------- MODULE MCVoiceChat -----------------------------
(* Three users who are all friends, so that one can call while two talk;   *)
(* ids for two calls and the id 0.                                         *)
EXTENDS VoiceChat, TLC

AllFriends == {f \in Users \X Users : f[1] # f[2]}

(* What follows a repeated draw or a lost address is not explored.         *)
Bound == sound

Symmetry == Permutations(Users) \cup Permutations(Ids \ {Zero})
=============================================================================
