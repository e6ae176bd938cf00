------------------------------ MODULE TaskPool ------------------------------
(***************************************************************************)
(* What the thread pool (src/threadpool) promises to the code that hands   *)
(* it work: a bounded first-in first-out queue of tasks, every accepted    *)
(* task executed once by one worker, and no accepted task forgotten while  *)
(* the pool is running.  How workers are woken is not visible here.        *)
(***************************************************************************)
EXTENDS Naturals, Sequences

CONSTANTS Workers,   \* the pool's threads
          Tasks,     \* what may be handed to the pool
          Capacity,  \* the most tasks that are ever pending
          NoTask     \* what a worker that executes nothing executes

VARIABLES pending,   \* accepted tasks no worker has taken yet
          running,   \* the task each worker executes
          stopped    \* the pool has been told to stop

poolVars == <<pending, running, stopped>>

PoolInit == /\ pending = <<>>
            /\ running = [w \in Workers |-> NoTask]
            /\ stopped \in BOOLEAN

Submit(x) == /\ Len(pending) < Capacity
             /\ pending' = Append(pending, x)
             /\ UNCHANGED running /\ stopped' = stopped

Start(w) == /\ running[w] = NoTask
            /\ pending # <<>>
            /\ running' = [running EXCEPT ![w] = Head(pending)]
            /\ pending' = Tail(pending)
            /\ stopped' = stopped

End(w) == /\ running[w] # NoTask
          /\ running' = [running EXCEPT ![w] = NoTask]
          /\ UNCHANGED pending /\ stopped' = stopped

Stop == /\ stopped' = TRUE
        /\ UNCHANGED <<pending, running>>

PoolNext == \/ \E x \in Tasks : Submit(x)
            \/ \E w \in Workers : Start(w) \/ End(w)
            \/ Stop

PoolSafety == PoolInit /\ [][PoolNext]_poolVars

(* A running pool with an idle worker takes the next task; every execution *)
(* ends.  Nothing is promised about pending tasks once the pool stops.     *)
PoolFairness ==
    /\ WF_poolVars(~stopped /\ \E w \in Workers : Start(w))
    /\ \A w \in Workers : WF_poolVars(End(w))

PoolSpec == PoolSafety /\ PoolFairness
=============================================================================
