----------------------------- MODULE ThreadPool -----------------------------
(***************************************************************************)
(* src/threadpool: the task queue, its mutex and semaphore, and the        *)
(* threads that share them.  The event loop (Main) appends mode-0 tasks;   *)
(* a worker that executes a mode-0 task (requestProcess::process(0))       *)
(* appends the mode-1 tasks that send its answers.                         *)
(*                                                                         *)
(* m_queuelocker protects short sections that never block, so each section *)
(* is one action.  What is kept apart is what the code leaves unprotected: *)
(* the test of m_stop, the gap between unlock and m_queuestat.post() in    *)
(* append, and the gap between m_queuestat.wait() and the lock in run.     *)
(***************************************************************************)
EXTENDS Integers, Sequences, FiniteSets

CONSTANTS Workers,         \* m_threads
          Main,            \* the thread of the event loop, in main.cpp
          Requests,        \* the requestProcess objects
          NULL,            \* the null request
          m_max_requests,
          MaxAppends,      \* bound: appends during one process(0)
          NoTask           \* a worker's task while it has none

ASSUME PoolAssumption == /\ IsFiniteSet(Workers)
                         /\ Main \notin Workers
                         /\ m_max_requests \in Nat \ {0}
                         /\ MaxAppends \in Nat
                         /\ NULL \notin Requests
                         /\ NoTask \notin Requests \X {0, 1}

VARIABLES m_workqueue, m_queuestat, m_stop,
          pc,     \* where each thread stands
          task,   \* the pair <<request, mode>> each worker executes
          left    \* how many appends the current process(0) may still make

vars == <<m_workqueue, m_queuestat, m_stop, pc, task, left>>

Threads == Workers \cup {Main}
Tasks == Requests \X {0, 1}
Places == {"check", "wait", "lock", "process", "post", "done"}

TypeOK == /\ m_workqueue \in Seq(Tasks)
          /\ m_queuestat \in Nat
          /\ m_stop \in BOOLEAN
          /\ pc \in [Threads -> Places]
          /\ task \in [Workers -> Tasks \cup {NoTask}]
          /\ left \in [Workers -> 0..MaxAppends]

-----------------------------------------------------------------------------
(* The constructor starts the workers and never assigns m_stop, so the     *)
(* value they read is whatever the allocated memory holds.                 *)
Init == /\ m_workqueue = <<>>
        /\ m_queuestat = 0
        /\ m_stop \in BOOLEAN
        /\ pc = [t \in Threads |-> IF t = Main THEN "process" ELSE "check"]
        /\ task = [w \in Workers |-> NoTask]
        /\ left = [w \in Workers |-> 0]

(* run(): the loop's condition, read without the lock. *)
Check(w) == /\ pc[w] = "check"
            /\ pc' = [pc EXCEPT ![w] = IF m_stop THEN "done" ELSE "wait"]
            /\ UNCHANGED <<m_workqueue, m_queuestat, m_stop, task, left>>

(* Mutant of WaitOk: a wait that returns without a token. *)
WaitOkSpurious(w) == /\ pc[w] = "wait"
                     /\ m_queuestat' = m_queuestat - 1
                     /\ pc' = [pc EXCEPT ![w] = "lock"]
                     /\ UNCHANGED <<m_workqueue, m_stop, task, left>>

(* run(): m_queuestat.wait() returns. *)
WaitOk(w) == /\ pc[w] = "wait"
             /\ m_queuestat > 0
             /\ m_queuestat' = m_queuestat - 1
             /\ pc' = [pc EXCEPT ![w] = "lock"]
             /\ UNCHANGED <<m_workqueue, m_stop, task, left>>

(* run(): the section under m_queuelocker. *)
Take(w) ==
    /\ pc[w] = "lock"
    /\ IF m_workqueue = <<>>
       THEN /\ pc' = [pc EXCEPT ![w] = "check"]
            /\ UNCHANGED <<m_workqueue, task, left>>
       ELSE LET x == Head(m_workqueue) IN
            /\ m_workqueue' = Tail(m_workqueue)
            /\ IF x[1] = NULL
               THEN /\ pc' = [pc EXCEPT ![w] = "check"]
                    /\ UNCHANGED <<task, left>>
               ELSE /\ pc' = [pc EXCEPT ![w] = "process"]
                    /\ task' = [task EXCEPT ![w] = x]
                    /\ left' = [left EXCEPT ![w] = IF x[2] = 0
                                                   THEN MaxAppends ELSE 0]
    /\ UNCHANGED <<m_queuestat, m_stop>>

(* run(): request->process(mode) returns. *)
Return(w) == /\ pc[w] = "process"
             /\ pc' = [pc EXCEPT ![w] = "check"]
             /\ task' = [task EXCEPT ![w] = NoTask]
             /\ left' = [left EXCEPT ![w] = 0]
             /\ UNCHANGED <<m_workqueue, m_queuestat, m_stop>>

(* Mutant of PushOrRefuse: a refused task still posts the semaphore. *)
PushOrRefusePosting(t, x) ==
    /\ m_workqueue' = IF Len(m_workqueue) > m_max_requests
                      THEN m_workqueue ELSE Append(m_workqueue, x)
    /\ pc' = [pc EXCEPT ![t] = "post"]
    /\ UNCHANGED <<m_queuestat, m_stop, task>>

(* Mutant of PushOrRefuse: the limit is off by one more. *)
PushOrRefuseLater(t, x) ==
    /\ IF Len(m_workqueue) > m_max_requests + 1
       THEN UNCHANGED <<m_workqueue, pc>>
       ELSE /\ m_workqueue' = Append(m_workqueue, x)
            /\ pc' = [pc EXCEPT ![t] = "post"]
    /\ UNCHANGED <<m_queuestat, m_stop, task>>

(* append(): the section under m_queuelocker, which pushes the task unless *)
(* the queue is over its limit; the callers go on in either case.          *)
PushOrRefuse(t, x) ==
    /\ IF Len(m_workqueue) > m_max_requests
       THEN UNCHANGED <<m_workqueue, pc>>
       ELSE /\ m_workqueue' = Append(m_workqueue, x)
            /\ pc' = [pc EXCEPT ![t] = "post"]
    /\ UNCHANGED <<m_queuestat, m_stop, task>>

MainAppend(r) == /\ pc[Main] = "process"
                 /\ PushOrRefuse(Main, <<r, 0>>)
                 /\ UNCHANGED left

WorkerAppend(w, r) == /\ pc[w] = "process"
                      /\ left[w] > 0
                      /\ left' = [left EXCEPT ![w] = @ - 1]
                      /\ PushOrRefuse(w, <<r, 1>>)

(* Mutant of Post: the token of a push is lost. *)
PostLost(t) == /\ pc[t] = "post"
               /\ pc' = [pc EXCEPT ![t] = "process"]
               /\ UNCHANGED <<m_workqueue, m_queuestat, m_stop, task, left>>

(* append(): m_queuestat.post(), after the lock is released. *)
Post(t) == /\ pc[t] = "post"
           /\ m_queuestat' = m_queuestat + 1
           /\ pc' = [pc EXCEPT ![t] = "process"]
           /\ UNCHANGED <<m_workqueue, m_stop, task, left>>

(* The event loop has ended: the destructor sets m_stop and posts nothing, *)
(* so a worker that waits goes on waiting.                                 *)
Destroy == /\ pc[Main] = "process"
           /\ m_stop' = TRUE
           /\ pc' = [pc EXCEPT ![Main] = "done"]
           /\ UNCHANGED <<m_workqueue, m_queuestat, task, left>>

run(w) == Check(w) \/ WaitOk(w) \/ Take(w) \/ Return(w) \/ Post(w)

Next == \/ \E w \in Workers : run(w)
        \/ \E w \in Workers, r \in Requests : WorkerAppend(w, r)
        \/ \E r \in Requests : MainAppend(r)
        \/ Post(Main)
        \/ Destroy

(* Every thread is scheduled and every call of process(mode) returns; when *)
(* to append, and whether to stop, is up to the clients.                   *)
Fairness == /\ \A w \in Workers : WF_vars(run(w))
            /\ WF_vars(Post(Main))

Spec == Init /\ [][Next]_vars /\ Fairness
-----------------------------------------------------------------------------
At(f, p) == {t \in Threads : f[t] = p}
HowMany(f, p) == Cardinality(At(f, p))

(* Every queued task is covered by exactly one token: one still in the     *)
(* semaphore, one that a woken worker has consumed but not yet used, or    *)
(* one that the thread that pushed the task has yet to post.  So a worker  *)
(* that is woken never finds the queue empty (the `continue` of            *)
(* threadpool.cpp:76-80 is dead code) and no task is left unannounced.     *)
TokensMatchTasks ==
    Len(m_workqueue) = m_queuestat + HowMany(pc, "lock") + HowMany(pc, "post")

(* The test `size() > m_max_requests` lets the queue reach one more than   *)
(* the limit, and never two.                                               *)
QueueBound == Len(m_workqueue) <= m_max_requests + 1

(* The pool implements the bounded queue of TaskPool: first in first out,  *)
(* each accepted task started by one worker, and while m_stop is unset a   *)
(* pending task is taken as soon as a worker is idle.                      *)
Pool == INSTANCE TaskPool WITH Capacity <- m_max_requests + 1,
                               pending <- m_workqueue,
                               running <- task,
                               stopped <- m_stop
ImplementsTaskPool == Pool!PoolSpec
=============================================================================
