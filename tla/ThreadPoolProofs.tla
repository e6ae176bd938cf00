-------------------------- MODULE ThreadPoolProofs --------------------------
(***************************************************************************)
(* Proofs about ThreadPool for every number of workers, every queue limit  *)
(* and every number of appends.                                            *)
(***************************************************************************)
EXTENDS ThreadPool, FiniteSetTheorems, TLAPS

LEMMA ThreadsFinite == IsFiniteSet(Threads)
  BY PoolAssumption, FS_AddElement, FS_Singleton, FS_Union DEF Threads

(* Every variable keeps its type: the semaphore never goes below zero and  *)
(* a worker never executes anything but a task that was appended.          *)
THEOREM TypeCorrect == Spec => []TypeOK
<1>1. Init => TypeOK
  BY PoolAssumption DEF Init, TypeOK, Threads, Places, Tasks
<1>2. TypeOK /\ [Next]_vars => TypeOK'
  <2> SUFFICES ASSUME TypeOK, [Next]_vars PROVE TypeOK'
    OBVIOUS
  <2> USE PoolAssumption DEF TypeOK, Threads, Places
  <2>1. ASSUME NEW w \in Workers, Check(w) PROVE TypeOK'
    BY <2>1 DEF Check
  <2>2. ASSUME NEW w \in Workers, WaitOk(w) PROVE TypeOK'
    BY <2>2 DEF WaitOk
  <2>3. ASSUME NEW w \in Workers, Take(w) PROVE TypeOK'
    <3>1. CASE m_workqueue = <<>>
      BY <2>3, <3>1 DEF Take
    <3>2. CASE m_workqueue # <<>>
      <4>1. Head(m_workqueue) \in Tasks /\ Tail(m_workqueue) \in Seq(Tasks)
        BY <3>2
      <4>2. m_workqueue' = Tail(m_workqueue) /\ UNCHANGED <<m_queuestat, m_stop>>
        BY <2>3, <3>2 DEF Take
      <4>3. pc' \in [Threads -> Places]
        BY <2>3, <3>2, SMTT(30) DEF Take
      <4>4. task' \in [Workers -> Tasks \cup {NoTask}]
        BY <2>3, <3>2, <4>1 DEF Take
      <4>5. left' \in [Workers -> 0..MaxAppends]
        BY <2>3, <3>2 DEF Take
      <4> QED BY <4>1, <4>2, <4>3, <4>4, <4>5
    <3> QED BY <3>1, <3>2
  <2>4. ASSUME NEW w \in Workers, Return(w) PROVE TypeOK'
    BY <2>4 DEF Return
  <2>5. ASSUME NEW t \in Threads, Post(t) PROVE TypeOK'
    BY <2>5 DEF Post
  <2>6. ASSUME NEW t \in Threads, NEW x \in Tasks, PushOrRefuse(t, x),
               left' \in [Workers -> 0..MaxAppends]
        PROVE TypeOK'
    <3>1. CASE Len(m_workqueue) > m_max_requests
      BY <2>6, <3>1 DEF PushOrRefuse
    <3>2. CASE ~(Len(m_workqueue) > m_max_requests)
      <4>1. Append(m_workqueue, x) \in Seq(Tasks)
        BY <2>6
      <4>2. pc' = [pc EXCEPT ![t] = "post"] /\ m_workqueue' = Append(m_workqueue, x)
        BY <2>6, <3>2 DEF PushOrRefuse
      <4> QED BY <2>6, <4>1, <4>2 DEF PushOrRefuse
    <3> QED BY <3>1, <3>2
  <2>7. ASSUME NEW w \in Workers, NEW r \in Requests, WorkerAppend(w, r)
        PROVE TypeOK'
    <3>1. left' \in [Workers -> 0..MaxAppends]
      BY <2>7 DEF WorkerAppend
    <3> QED BY <2>6, <2>7, <3>1 DEF WorkerAppend, Tasks
  <2>8. ASSUME NEW r \in Requests, MainAppend(r) PROVE TypeOK'
    BY <2>6, <2>8 DEF MainAppend, Tasks
  <2>9. CASE Destroy
    BY <2>9 DEF Destroy
  <2>10. CASE UNCHANGED vars
    BY <2>10 DEF vars
  <2> QED
    BY <2>1, <2>2, <2>3, <2>4, <2>5, <2>7, <2>8, <2>9, <2>10 DEF Next, run
<1> QED BY <1>1, <1>2, PTL DEF Spec

-----------------------------------------------------------------------------
(* A thread that moves from one place to another leaves the first with one *)
(* thread less, the second with one more, and the others as they were.     *)
LEMMA Move ==
  ASSUME NEW f \in [Threads -> Places], NEW t \in Threads,
         NEW p \in Places, NEW q \in Places, f[t] = p, p # q,
         NEW g \in [Threads -> Places], g[t] = q,
         \A s \in Threads \ {t} : g[s] = f[s]
  PROVE  /\ HowMany(g, p) = HowMany(f, p) - 1
         /\ HowMany(g, q) = HowMany(f, q) + 1
         /\ \A o \in Places \ {p, q} : HowMany(g, o) = HowMany(f, o)
<1>1. \A h, o : IsFiniteSet(At(h, o))
  BY ThreadsFinite, FS_Subset DEF At
<1>2. /\ At(g, p) = At(f, p) \ {t}    /\ t \in At(f, p)
      /\ At(g, q) = At(f, q) \cup {t} /\ t \notin At(f, q)
      /\ \A o \in Places \ {p, q} : At(g, o) = At(f, o)
  BY DEF At
<1>3. HowMany(g, p) = HowMany(f, p) - 1
  BY <1>1, <1>2, FS_RemoveElement DEF HowMany
<1>4. HowMany(g, q) = HowMany(f, q) + 1
  <2>1. Cardinality(At(f, q) \cup {t}) = Cardinality(At(f, q)) + 1
    BY <1>1, <1>2, FS_AddElement
  <2> QED BY <1>2, <2>1 DEF HowMany
<1> QED BY <1>2, <1>3, <1>4 DEF HowMany

(* How many threads stand at a place is a number, above zero exactly when  *)
(* some thread stands there.                                               *)
LEMMA HowManyNat ==
  ASSUME NEW f, NEW p
  PROVE  /\ HowMany(f, p) \in Nat
         /\ HowMany(f, p) = 0 <=> \A t \in Threads : f[t] # p
<1>1. IsFiniteSet(At(f, p))
  BY ThreadsFinite, FS_Subset DEF At
<1>2. HowMany(f, p) \in Nat
  BY <1>1, FS_CardinalityType DEF HowMany
<1>3. HowMany(f, p) = 0 <=> At(f, p) = {}
  BY <1>1, FS_EmptySet DEF HowMany
<1> QED BY <1>2, <1>3 DEF At

(* The semaphore, the woken workers and the threads about to post together *)
(* hold exactly one token for every queued task.                           *)
THEOREM TokensCorrect == Spec => []TokensMatchTasks
<1>1. Init => TokensMatchTasks
  BY HowManyNat DEF Init, TokensMatchTasks
<1>2. TypeOK /\ TokensMatchTasks /\ [Next]_vars => TokensMatchTasks'
  <2> SUFFICES ASSUME TypeOK, TokensMatchTasks, [Next]_vars
               PROVE  TokensMatchTasks'
    OBVIOUS
  <2> DEFINE In(p) == HowMany(pc, p)
  <2>0. /\ In("lock") \in Nat /\ In("post") \in Nat
        /\ Len(m_workqueue) \in Nat /\ m_queuestat \in Nat
        /\ Len(m_workqueue) = m_queuestat + In("lock") + In("post")
    BY HowManyNat DEF TypeOK, TokensMatchTasks
  \* A thread that goes from one place to another.
  <2>a. ASSUME NEW t \in Threads, NEW p \in Places, NEW q \in Places,
               pc[t] = p, p # q, pc' = [pc EXCEPT ![t] = q]
        PROVE  /\ In(p)' = In(p) - 1
               /\ In(q)' = In(q) + 1
               /\ \A o \in Places \ {p, q} : In(o)' = In(o)
    <3>1. pc \in [Threads -> Places]
      BY DEF TypeOK
    <3>2. /\ pc[t] = p /\ p # q /\ pc' \in [Threads -> Places] /\ pc'[t] = q
          /\ \A s \in Threads \ {t} : pc'[s] = pc[s]
      BY <2>a, <3>1
    <3>3. HowMany(pc', p) = HowMany(pc, p) - 1
      BY <3>1, <3>2, Move
    <3>4. HowMany(pc', q) = HowMany(pc, q) + 1
      BY <3>1, <3>2, Move
    <3>5. ASSUME NEW o \in Places \ {p, q}
          PROVE  HowMany(pc', o) = HowMany(pc, o)
      BY <3>1, <3>2, Move
    <3> QED BY <3>3, <3>4, <3>5
  <2>1. ASSUME NEW w \in Workers, Check(w) PROVE TokensMatchTasks'
    <3>1. /\ In("lock")' = In("lock") /\ In("post")' = In("post")
          /\ UNCHANGED <<m_workqueue, m_queuestat>>
      <4>1. PICK q \in {"done", "wait"} : pc' = [pc EXCEPT ![w] = q]
        BY <2>1 DEF Check
      <4>2. pc[w] = "check" /\ w \in Threads /\ q \in Places
        BY <2>1 DEF Check, Threads, Places
      <4> QED BY <2>1, <2>a, <4>1, <4>2, ZenonT(40) DEF Check, Places
    <3> QED BY <3>1, <2>0 DEF TokensMatchTasks
  <2>2. ASSUME NEW w \in Workers, WaitOk(w) PROVE TokensMatchTasks'
    <3>1. In("lock")' = In("lock") + 1 /\ In("post")' = In("post")
      <4>1. pc[w] = "wait" /\ pc' = [pc EXCEPT ![w] = "lock"]
        BY <2>2 DEF WaitOk
      <4>2. {"wait", "lock"} \subseteq Places /\ w \in Threads
        BY DEF Places, Threads
      <4> QED BY <2>a, <4>1, <4>2 DEF Places
    <3> QED BY <2>2, <3>1, <2>0 DEF WaitOk, TokensMatchTasks
  <2>3. ASSUME NEW w \in Workers, Take(w) PROVE TokensMatchTasks'
    <3>1. PICK q \in {"check", "process"} : pc' = [pc EXCEPT ![w] = q]
      BY <2>3 DEF Take
    <3>2. pc[w] = "lock" /\ w \in Threads /\ q \in Places /\ q # "lock"
      BY <2>3 DEF Take, Threads, Places
    <3>3. In("lock")' = In("lock") - 1 /\ In("post")' = In("post")
      BY <2>a, <3>1, <3>2 DEF Places
    <3>4. m_workqueue # <<>>
      <4>1. In("lock") # 0
        BY <3>2, HowManyNat
      <4> QED BY <2>0, <4>1
    <3>5. Len(m_workqueue') = Len(m_workqueue) - 1 /\ UNCHANGED m_queuestat
      BY <2>3, <3>4 DEF Take, TypeOK
    <3> QED BY <2>0, <3>3, <3>5 DEF TokensMatchTasks
  <2>4. ASSUME NEW w \in Workers, Return(w) PROVE TokensMatchTasks'
    <3>1. In("lock")' = In("lock") /\ In("post")' = In("post")
      <4>1. pc[w] = "process" /\ pc' = [pc EXCEPT ![w] = "check"]
        BY <2>4 DEF Return
      <4>2. {"process", "check"} \subseteq Places /\ w \in Threads
        BY DEF Places, Threads
      <4> QED BY <2>a, <4>1, <4>2, ZenonT(40) DEF Places
    <3> QED BY <2>4, <3>1, <2>0 DEF Return, TokensMatchTasks
  <2>5. ASSUME NEW t \in Threads, Post(t) PROVE TokensMatchTasks'
    <3>1. In("lock")' = In("lock") /\ In("post")' = In("post") - 1
      <4>1. pc[t] = "post" /\ pc' = [pc EXCEPT ![t] = "process"]
        BY <2>5 DEF Post
      <4>2. {"post", "process"} \subseteq Places
        BY DEF Places
      <4> QED BY <2>a, <4>1, <4>2 DEF Places
    <3> QED BY <2>5, <3>1, <2>0 DEF Post, TokensMatchTasks
  <2>6. ASSUME NEW t \in Threads, NEW x \in Tasks, pc[t] = "process",
               PushOrRefuse(t, x)
        PROVE TokensMatchTasks'
    <3>1. CASE Len(m_workqueue) > m_max_requests
      BY <2>6, <3>1 DEF PushOrRefuse, TokensMatchTasks
    <3>2. CASE ~(Len(m_workqueue) > m_max_requests)
      <4>1. In("lock")' = In("lock") /\ In("post")' = In("post") + 1
        <5>1. pc[t] = "process" /\ pc' = [pc EXCEPT ![t] = "post"]
          BY <2>6, <3>2 DEF PushOrRefuse
        <5>2. {"process", "post"} \subseteq Places
          BY DEF Places
        <5> QED BY <2>a, <5>1, <5>2 DEF Places
      <4>2. Len(m_workqueue') = Len(m_workqueue) + 1 /\ UNCHANGED m_queuestat
        BY <2>6, <3>2 DEF PushOrRefuse, TypeOK
      <4> QED BY <4>1, <4>2, <2>0 DEF TokensMatchTasks
    <3> QED BY <3>1, <3>2
  <2>7. ASSUME NEW w \in Workers, NEW r \in Requests, WorkerAppend(w, r)
        PROVE TokensMatchTasks'
    BY <2>6, <2>7 DEF WorkerAppend, Tasks, Threads
  <2>8. ASSUME NEW r \in Requests, MainAppend(r) PROVE TokensMatchTasks'
    BY <2>6, <2>8 DEF MainAppend, Tasks, Threads
  <2>9. CASE Destroy
    <3>1. In("lock")' = In("lock") /\ In("post")' = In("post")
      <4>1. pc[Main] = "process" /\ pc' = [pc EXCEPT ![Main] = "done"]
        BY <2>9 DEF Destroy
      <4>2. {"process", "done"} \subseteq Places /\ Main \in Threads
        BY DEF Places, Threads
      <4> QED BY <2>a, <4>1, <4>2 DEF Places
    <3> QED BY <2>9, <3>1, <2>0 DEF Destroy, TokensMatchTasks
  <2>10. CASE UNCHANGED vars
    BY <2>10 DEF vars, TokensMatchTasks
  <2> QED
    BY <2>1, <2>2, <2>3, <2>4, <2>5, <2>7, <2>8, <2>9, <2>10
    DEF Next, run, Threads
<1> QED BY <1>1, <1>2, TypeCorrect, PTL DEF Spec

(* A worker that was woken finds a task: threadpool.cpp:76-80 never runs.  *)
THEOREM WokenFindsTask ==
  Spec => [](\A w \in Workers : pc[w] = "lock" => m_workqueue # <<>>)
<1>1. TypeOK /\ TokensMatchTasks
        => \A w \in Workers : pc[w] = "lock" => m_workqueue # <<>>
  <2> SUFFICES ASSUME TypeOK, TokensMatchTasks, NEW w \in Workers, pc[w] = "lock"
               PROVE  m_workqueue # <<>>
    OBVIOUS
  <2>1. HowMany(pc, "lock") \in Nat \ {0} /\ HowMany(pc, "post") \in Nat
    BY HowManyNat DEF Threads
  <2> QED BY <2>1 DEF TypeOK, TokensMatchTasks
<1> QED BY <1>1, TypeCorrect, TokensCorrect, PTL

(* A worker has a task exactly while it is inside process(mode).           *)
TaskWhileProcessing ==
  \A w \in Workers : task[w] # NoTask <=> pc[w] \in {"process", "post"}

(* The worker's task and its place in run() agree.                         *)
THEOREM ProcessingCorrect == Spec => []TaskWhileProcessing
<1>1. Init => TaskWhileProcessing
  BY PoolAssumption DEF Init, TaskWhileProcessing, Threads
<1>2. TypeOK /\ TaskWhileProcessing /\ [Next]_vars => TaskWhileProcessing'
  <2> SUFFICES ASSUME TypeOK, TaskWhileProcessing, [Next]_vars
               PROVE  TaskWhileProcessing'
    OBVIOUS
  <2> USE PoolAssumption DEF TypeOK, TaskWhileProcessing, Threads
  <2>1. ASSUME NEW w \in Workers, Check(w) PROVE TaskWhileProcessing'
    BY <2>1 DEF Check
  <2>2. ASSUME NEW w \in Workers, WaitOk(w) PROVE TaskWhileProcessing'
    BY <2>2 DEF WaitOk
  <2>3. ASSUME NEW w \in Workers, Take(w) PROVE TaskWhileProcessing'
    <3>1. CASE m_workqueue = <<>>
      BY <2>3, <3>1 DEF Take
    <3>2. CASE m_workqueue # <<>>
      <4>1. Head(m_workqueue) \in Tasks
        BY <3>2
      <4>2. Head(m_workqueue)[1] # NULL /\ Head(m_workqueue) # NoTask
        BY <4>1 DEF Tasks
      <4> QED BY <2>3, <3>2, <4>2 DEF Take
    <3> QED BY <3>1, <3>2
  <2>4. ASSUME NEW w \in Workers, Return(w) PROVE TaskWhileProcessing'
    BY <2>4 DEF Return
  <2>5. ASSUME NEW t \in Threads, Post(t) PROVE TaskWhileProcessing'
    BY <2>5 DEF Post
  <2>6. ASSUME NEW t \in Threads, NEW x, pc[t] = "process", PushOrRefuse(t, x)
        PROVE TaskWhileProcessing'
    BY <2>6 DEF PushOrRefuse
  <2>7. CASE Destroy
    BY <2>7 DEF Destroy
  <2>8. CASE UNCHANGED vars
    BY <2>8 DEF vars
  <2> QED
    BY <2>1, <2>2, <2>3, <2>4, <2>5, <2>6, <2>7, <2>8
    DEF Next, run, WorkerAppend, MainAppend
<1> QED BY <1>1, <1>2, TypeCorrect, PTL DEF Spec

(* The queue never holds more than one task above its limit.               *)
THEOREM QueueBounded == Spec => []QueueBound
<1>1. Init => QueueBound
  BY PoolAssumption DEF Init, QueueBound
<1>2. TypeOK /\ QueueBound /\ [Next]_vars => QueueBound'
  <2> SUFFICES ASSUME TypeOK, QueueBound, [Next]_vars PROVE QueueBound'
    OBVIOUS
  <2> USE PoolAssumption DEF TypeOK, QueueBound
  <2>1. CASE UNCHANGED m_workqueue
    BY <2>1
  <2>2. ASSUME NEW w \in Workers, Take(w), m_workqueue # <<>>
        PROVE QueueBound'
    BY <2>2 DEF Take
  <2>3. ASSUME NEW t \in Threads, NEW x \in Tasks, PushOrRefuse(t, x)
        PROVE QueueBound'
    BY <2>3 DEF PushOrRefuse
  <2> QED
    BY <2>1, <2>2, <2>3 DEF Next, run, vars, Check, WaitOk, Take, Return, Post,
       WorkerAppend, MainAppend, Destroy, Tasks, Threads
<1> QED BY <1>1, <1>2, TypeCorrect, PTL DEF Spec

(* Every behaviour of the pool is a behaviour of the bounded queue of      *)
(* TaskPool: tasks are taken in order, by one worker each, within the      *)
(* capacity m_max_requests + 1.                                            *)
THEOREM PoolRefinement == Spec => Pool!PoolSafety
<1>1. Init => Pool!PoolInit
  BY DEF Init, Pool!PoolInit
<1>2. TypeOK /\ TaskWhileProcessing /\ [Next]_vars => [Pool!PoolNext]_Pool!poolVars
  <2> SUFFICES ASSUME TypeOK, TaskWhileProcessing, [Next]_vars
               PROVE  Pool!PoolNext \/ UNCHANGED Pool!poolVars
    BY DEF Pool!poolVars
  <2> USE DEF Pool!poolVars
  <2>1. ASSUME NEW w \in Workers, Check(w) \/ WaitOk(w) \/ Post(w)
        PROVE UNCHANGED Pool!poolVars
    BY <2>1 DEF Check, WaitOk, Post
  <2>2. ASSUME NEW w \in Workers, Take(w)
        PROVE Pool!Start(w) \/ UNCHANGED Pool!poolVars
    <3>1. CASE m_workqueue = <<>>
      BY <2>2, <3>1 DEF Take
    <3>2. CASE m_workqueue # <<>>
      <4>1. Head(m_workqueue) \in Tasks
        BY <3>2 DEF TypeOK
      <4>2. Head(m_workqueue)[1] # NULL
        BY <4>1, PoolAssumption DEF Tasks
      <4>3. task[w] = NoTask
        BY <2>2 DEF Take, TaskWhileProcessing
      <4> QED BY <2>2, <3>2, <4>2, <4>3 DEF Take, Pool!Start
    <3> QED BY <3>1, <3>2
  <2>3. ASSUME NEW w \in Workers, Return(w) PROVE Pool!End(w)
    BY <2>3 DEF Return, Pool!End, TaskWhileProcessing
  <2>4. ASSUME NEW t \in Threads, NEW x \in Tasks, PushOrRefuse(t, x)
        PROVE Pool!Submit(x) \/ UNCHANGED Pool!poolVars
    <3>1. CASE Len(m_workqueue) > m_max_requests
      BY <2>4, <3>1 DEF PushOrRefuse
    <3>2. CASE ~(Len(m_workqueue) > m_max_requests)
      BY <2>4, <3>2, PoolAssumption DEF PushOrRefuse, Pool!Submit, TypeOK
    <3> QED BY <3>1, <3>2
  <2>5. ASSUME NEW w \in Workers, NEW r \in Requests, WorkerAppend(w, r)
        PROVE Pool!PoolNext \/ UNCHANGED Pool!poolVars
    <3>1. <<r, 1>> \in Tasks /\ w \in Threads /\ PushOrRefuse(w, <<r, 1>>)
      BY <2>5 DEF WorkerAppend, Tasks, Threads
    <3> QED BY <2>4, <3>1 DEF Pool!PoolNext
  <2>6. ASSUME NEW r \in Requests, MainAppend(r)
        PROVE Pool!PoolNext \/ UNCHANGED Pool!poolVars
    <3>1. <<r, 0>> \in Tasks /\ Main \in Threads /\ PushOrRefuse(Main, <<r, 0>>)
      BY <2>6 DEF MainAppend, Tasks, Threads
    <3> QED BY <2>4, <3>1 DEF Pool!PoolNext
  <2>7. CASE Post(Main)
    BY <2>7 DEF Post
  <2>8. CASE Destroy
    BY <2>8 DEF Destroy, Pool!Stop, Pool!PoolNext
  <2>9. CASE UNCHANGED vars
    BY <2>9 DEF vars
  <2> QED
    BY <2>1, <2>2, <2>3, <2>5, <2>6, <2>7, <2>8, <2>9
    DEF Next, run, Pool!PoolNext
<1> QED BY <1>1, <1>2, TypeCorrect, ProcessingCorrect, PTL DEF Spec, Pool!PoolSafety
=============================================================================
