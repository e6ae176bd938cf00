---------------------------- MODULE BoundedQueue ----------------------------
(***************************************************************************)
(* What block_queue promises: a first-in-first-out queue of at most        *)
(* Capacity items, whatever ring of cells holds them.                      *)
(***************************************************************************)
EXTENDS Naturals, Sequences

CONSTANTS Items, Capacity

VARIABLE queue

Init == queue = <<>>

Put(x) == /\ Len(queue) < Capacity
          /\ queue' = Append(queue, x)

Get == /\ queue # <<>>
       /\ queue' = Tail(queue)

Next == Get \/ \E x \in Items : Put(x)

Spec == Init /\ [][Next]_queue
=============================================================================
