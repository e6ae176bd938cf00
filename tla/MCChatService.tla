--------------------------- MODULE MCChatService ---------------------------
(* Two users on two descriptors, with enough session ids for one of them   *)
(* to log in again.                                                        *)
EXTENDS ChatService, TLC

(* No definition orders users, descriptors or ids. *)
Symmetry == Permutations(Users) \cup Permutations(Conns) \cup Permutations(Sids)
=============================================================================
