--------------------------- MODULE DbAccessProofs ---------------------------
(***************************************************************************)
(* Theorems about DbAccess, for every number of workers and connections.   *)
(***************************************************************************)
EXTENDS DbAccess, FiniteSetTheorems, TLAPS

(* What a thread may have left of a request, by what it holds meanwhile:   *)
(* nothing, the mutex, a connection, the mutex and a connection, or the    *)
(* mutex and two.                                                          *)
None == {<<>>, <<"lock", "unlock">>, <<"lock", "get", "put", "unlock">>,
         <<"lock", "get", "get", "put", "put", "unlock">>,
         <<"get", "lock", "unlock", "put">>, <<"get", "put">>}
Mutex == {<<"unlock">>, <<"get", "put", "unlock">>,
          <<"get", "get", "put", "put", "unlock">>}
One == {<<"put">>, <<"lock", "unlock", "put">>}
MutexOne == {<<"put", "unlock">>, <<"get", "put", "put", "unlock">>,
             <<"unlock", "put">>}
MutexTwo == {<<"put", "put", "unlock">>}
Todos == None \cup Mutex \cup One \cup MutexOne \cup MutexTwo

Owns(s) == s \in Mutex \cup MutexOne \cup MutexTwo
Held(s) == IF s \in One \cup MutexOne THEN 1 ELSE IF s \in MutexTwo THEN 2 ELSE 0

(* The event loop never waits for the mutex with a connection in hand, nor *)
(* takes a connection without the mutex.                                   *)
MainTodos == {<<>>, <<"lock", "unlock">>, <<"unlock">>,
              <<"lock", "get", "put", "unlock">>, <<"get", "put", "unlock">>,
              <<"put", "unlock">>}

(* No request is in two of the classes. *)
LEMMA Classes ==
    /\ None \cap Mutex = {} /\ None \cap One = {} /\ None \cap MutexOne = {}
    /\ None \cap MutexTwo = {} /\ Mutex \cap One = {} /\ Mutex \cap MutexOne = {}
    /\ Mutex \cap MutexTwo = {} /\ One \cap MutexOne = {} /\ One \cap MutexTwo = {}
    /\ MutexOne \cap MutexTwo = {}
BY DEF None, Mutex, One, MutexOne, MutexTwo

(* How the next step of a request moves it from class to class. *)
Moves(s) ==
    /\ Head(s) = "lock" => \/ s \in None /\ Tail(s) \in Mutex
                           \/ s \in One /\ Tail(s) \in MutexOne
    /\ Head(s) = "unlock" => \/ s \in Mutex /\ Tail(s) \in None
                             \/ s \in MutexOne /\ Tail(s) \in One
    /\ Head(s) = "get" => \/ s \in None /\ Tail(s) \in One
                          \/ s \in Mutex /\ Tail(s) \in MutexOne
                          \/ s \in MutexOne /\ Tail(s) \in MutexTwo
    /\ Head(s) = "put" => \/ s \in One /\ Tail(s) \in None
                          \/ s \in MutexOne /\ Tail(s) \in Mutex
                          \/ s \in MutexTwo /\ Tail(s) \in MutexOne

(* The next step takes or returns what the classes say it holds. *)
LEMMA NextStep ==
    ASSUME NEW s \in Todos, s # <<>>
    PROVE  Moves(s)
<1>1. CASE s \in None
  <2>1. CASE s = <<"lock", "unlock">>
    BY <2>1 DEF Moves, None, Mutex
  <2>2. CASE s = <<"lock", "get", "put", "unlock">>
    BY <2>2 DEF Moves, None, Mutex
  <2>3. CASE s = <<"lock", "get", "get", "put", "put", "unlock">>
    BY <2>3 DEF Moves, None, Mutex
  <2>4. CASE s = <<"get", "lock", "unlock", "put">>
    BY <2>4 DEF Moves, None, One
  <2>5. CASE s = <<"get", "put">>
    BY <2>5 DEF Moves, None, One
  <2> QED BY <1>1, <2>1, <2>2, <2>3, <2>4, <2>5 DEF None
<1>2. CASE s \in Mutex
  <2>1. CASE s = <<"unlock">>
    BY <2>1 DEF Moves, None, Mutex
  <2>2. CASE s = <<"get", "put", "unlock">>
    BY <2>2 DEF Moves, Mutex, MutexOne
  <2>3. CASE s = <<"get", "get", "put", "put", "unlock">>
    BY <2>3 DEF Moves, Mutex, MutexOne
  <2> QED BY <1>2, <2>1, <2>2, <2>3 DEF Mutex
<1>3. CASE s \in One
  <2>1. CASE s = <<"put">>
    BY <2>1 DEF Moves, None, One
  <2>2. CASE s = <<"lock", "unlock", "put">>
    BY <2>2 DEF Moves, One, MutexOne
  <2> QED BY <1>3, <2>1, <2>2 DEF One
<1>4. CASE s \in MutexOne
  <2>1. CASE s = <<"put", "unlock">>
    BY <2>1 DEF Moves, Mutex, MutexOne
  <2>2. CASE s = <<"get", "put", "put", "unlock">>
    BY <2>2 DEF Moves, MutexOne, MutexTwo
  <2>3. CASE s = <<"unlock", "put">>
    BY <2>3 DEF Moves, One, MutexOne
  <2> QED BY <1>4, <2>1, <2>2, <2>3 DEF MutexOne
<1>5. CASE s \in MutexTwo
  <2>1. s = <<"put", "put", "unlock">>
    BY <1>5 DEF MutexTwo
  <2> QED BY <2>1 DEF Moves, MutexOne, MutexTwo
<1> QED BY <1>1, <1>2, <1>3, <1>4, <1>5 DEF Todos

(* The event loop's requests stay among its own as it runs them. *)
LEMMA MainStep ==
    ASSUME NEW s \in MainTodos, s # <<>>
    PROVE  /\ Tail(s) \in MainTodos
           /\ Head(s) = "get" => s \in Mutex
<1>1. CASE s = <<"lock", "unlock">>
  BY <1>1 DEF MainTodos
<1>2. CASE s = <<"unlock">>
  BY <1>2 DEF MainTodos
<1>3. CASE s = <<"lock", "get", "put", "unlock">>
  BY <1>3 DEF MainTodos
<1>4. CASE s = <<"get", "put", "unlock">>
  BY <1>4 DEF MainTodos, Mutex
<1>5. CASE s = <<"put", "unlock">>
  BY <1>5 DEF MainTodos
<1> QED BY <1>1, <1>2, <1>3, <1>4, <1>5 DEF MainTodos

(* Requests begin with nothing held. *)
LEMMA Beginnings ==
    ASSUME NEW t \in Threads, NEW s \in Scripts(t)
    PROVE  /\ s \in None
           /\ t = Main => s \in MainTodos
BY DEF Scripts, Memory, Locked, Nested, Ready, Avatar, None, MainTodos

(* The event loop never holds a connection without the mutex. *)
LEMMA MainClasses == MainTodos \subseteq None \cup Mutex \cup MutexOne
BY DEF MainTodos, None, Mutex, MutexOne

-----------------------------------------------------------------------------
(* How many threads are at a place. *)
Places == {"begin", "null", "wait", "pop", "post"}
At(f, p) == {t \in Threads : f[t] = p}
HowMany(f, p) == Cardinality(At(f, p))

(* There are finitely many threads. *)
LEMMA ThreadsFinite == IsFiniteSet(Threads)
BY DbAssumption, FS_AddElement DEF Threads

(* As many threads as are at a place can be counted, and none are at it    *)
(* exactly when the count is 0.                                            *)
LEMMA HowManyNat ==
    ASSUME NEW f, NEW p
    PROVE  /\ HowMany(f, p) \in Nat
           /\ HowMany(f, p) = 0 <=> \A t \in Threads : f[t] # p
<1>1. IsFiniteSet(At(f, p))
  BY ThreadsFinite, FS_Subset DEF At
<1>2. HowMany(f, p) \in Nat
  BY <1>1, FS_CardinalityType DEF HowMany
<1>3. HowMany(f, p) = 0 <=> At(f, p) = {}
  BY <1>1, FS_EmptySet DEF HowMany
<1> QED BY <1>2, <1>3 DEF At

(* A thread that moves leaves one less behind and is one more where it is. *)
LEMMA Move ==
    ASSUME NEW f \in [Threads -> Places], NEW g \in [Threads -> Places],
           NEW t \in Threads, NEW p \in Places, NEW q \in Places,
           f[t] = p, g[t] = q, p # q, \A u \in Threads \ {t} : g[u] = f[u]
    PROVE  /\ HowMany(g, p) = HowMany(f, p) - 1
           /\ HowMany(g, q) = HowMany(f, q) + 1
           /\ \A o \in Places \ {p, q} : HowMany(g, o) = HowMany(f, o)
<1>1. IsFiniteSet(At(f, p)) /\ IsFiniteSet(At(f, q))
  BY ThreadsFinite, FS_Subset DEF At
<1>2. /\ At(g, p) = At(f, p) \ {t}    /\ t \in At(f, p)
      /\ At(g, q) = At(f, q) \cup {t} /\ t \notin At(f, q)
      /\ \A o \in Places \ {p, q} : At(g, o) = At(f, o)
  BY DEF At
<1>3. HowMany(g, p) = HowMany(f, p) - 1
  BY <1>1, <1>2, FS_RemoveElement DEF HowMany
<1>4. Cardinality(At(f, q) \cup {t}) = Cardinality(At(f, q)) + 1
  BY <1>1, <1>2, FS_AddElement
<1> QED BY <1>2, <1>3, <1>4 DEF HowMany

(* A thread holds the mutex and the connections its request says, one of   *)
(* them on its way back into the semaphore after the push.                 *)
Types == /\ m_connList \in Seq(Conns) /\ m_reserve \in Nat
         /\ lock \in Threads \cup {NoThread}
         /\ todo \in [Threads -> Todos] /\ todo[Main] \in MainTodos
         /\ at \in [Threads -> Places]
         /\ conns \in [Threads -> Seq(Conns)]
Pushed(t) == IF at[t] = "post" THEN 1 ELSE 0
Requested(t) ==
    /\ Len(conns[t]) + Pushed(t) = Held(todo[t])
    /\ lock = t <=> Owns(todo[t])
    /\ at[t] = "post" => todo[t] # <<>> /\ Head(todo[t]) = "put"
    /\ at[t] \in {"wait", "pop", "null"} => todo[t] # <<>> /\ Head(todo[t]) = "get"
Listed == Len(m_connList) = m_reserve + HowMany(at, "pop") + HowMany(at, "post")
PoolInv == Types /\ Listed /\ \A t \in Threads : Requested(t)

(* The connection a thread was promised is in the list. *)
LEMMA PromiseKept ==
    ASSUME Types, Listed, NEW t \in Threads, at[t] = "pop"
    PROVE  m_connList # <<>> /\ Len(m_connList) > 0
<1>1. HowMany(at, "pop") # 0
  BY HowManyNat
<1>2. HowMany(at, "pop") \in Nat /\ HowMany(at, "post") \in Nat
  BY HowManyNat
<1> QED BY <1>1, <1>2 DEF Types, Listed

(* How a step of t leaves Listed, by where t is before and after it. *)
LEMMA ListedSteps ==
    ASSUME Types, Listed, NEW t \in Threads, ThreadStep(t)
    PROVE  Listed'
<1>0. /\ HowMany(at, "pop") \in Nat /\ HowMany(at, "post") \in Nat
      /\ Len(m_connList) \in Nat /\ m_reserve \in Nat
      /\ Len(m_connList) = m_reserve + HowMany(at, "pop") + HowMany(at, "post")
  BY HowManyNat DEF Types, Listed
<1>a. ASSUME NEW p \in Places, NEW q \in Places, at[t] = p, p # q, at' = [at EXCEPT ![t] = q]
      PROVE  /\ HowMany(at', p) = HowMany(at, p) - 1
             /\ HowMany(at', q) = HowMany(at, q) + 1
             /\ \A o \in Places \ {p, q} : HowMany(at', o) = HowMany(at, o)
  <2>1. /\ at \in [Threads -> Places] /\ at' \in [Threads -> Places]
        /\ at[t] = p /\ at'[t] = q /\ p # q
        /\ \A u \in Threads \ {t} : at'[u] = at[u]
    BY <1>a DEF Types
  <2>2. HowMany(at', p) = HowMany(at, p) - 1
    BY <2>1, Move
  <2>3. HowMany(at', q) = HowMany(at, q) + 1
    BY <2>1, Move
  <2>4. ASSUME NEW o \in Places \ {p, q} PROVE HowMany(at', o) = HowMany(at, o)
    BY <2>1, Move
  <2> QED BY <2>2, <2>3, <2>4
<1>1. CASE Request(t) \/ Lock(t) \/ Unlock(t)
  BY <1>1 DEF Request, Lock, Unlock, Listed
<1>2. CASE TestSize(t)
  <2>1. PICK q \in {"null", "wait"} : at' = [at EXCEPT ![t] = q]
    BY <1>2 DEF TestSize
  <2>2. at[t] = "begin" /\ UNCHANGED <<m_connList, m_reserve>>
    BY <1>2 DEF TestSize, Doing
  <2>3. /\ HowMany(at', "pop") = HowMany(at, "pop")
        /\ HowMany(at', "post") = HowMany(at, "post")
    BY <1>a, <2>1, <2>2 DEF Places
  <2> QED BY <2>2, <2>3, <1>0 DEF Listed
<1>3. CASE WaitReserve(t)
  <2>1. /\ at[t] = "wait" /\ at' = [at EXCEPT ![t] = "pop"]
        /\ m_reserve' = m_reserve - 1 /\ UNCHANGED m_connList
    BY <1>3 DEF WaitReserve, Doing
  <2>2. /\ HowMany(at', "pop") = HowMany(at, "pop") + 1
        /\ HowMany(at', "post") = HowMany(at, "post")
    BY <1>a, <2>1 DEF Places
  <2> QED BY <2>1, <2>2, <1>0 DEF Listed
<1>4. CASE PopConn(t)
  <2>1. /\ at[t] = "pop" /\ at' = [at EXCEPT ![t] = "begin"]
        /\ m_connList' = Tail(m_connList) /\ UNCHANGED m_reserve
    BY <1>4 DEF PopConn, Doing
  <2>2. /\ HowMany(at', "pop") = HowMany(at, "pop") - 1
        /\ HowMany(at', "post") = HowMany(at, "post")
    BY <1>a, <2>1 DEF Places
  <2>3. Len(m_connList') = Len(m_connList) - 1
    BY <2>1, PromiseKept DEF Types
  <2> QED BY <2>1, <2>2, <2>3, <1>0 DEF Listed
<1>5. CASE PushConn(t)
  <2>1. /\ at[t] = "begin" /\ at' = [at EXCEPT ![t] = "post"]
        /\ m_connList' = Append(m_connList, Last(conns[t])) /\ UNCHANGED m_reserve
    BY <1>5 DEF PushConn, Doing
  <2>2. /\ HowMany(at', "pop") = HowMany(at, "pop")
        /\ HowMany(at', "post") = HowMany(at, "post") + 1
    BY <1>a, <2>1 DEF Places
  <2>3. Len(m_connList') = Len(m_connList) + 1
    BY <2>1 DEF Types
  <2> QED BY <2>1, <2>2, <2>3, <1>0 DEF Listed
<1>6. CASE PostReserve(t)
  <2>1. /\ at[t] = "post" /\ at' = [at EXCEPT ![t] = "begin"]
        /\ m_reserve' = m_reserve + 1 /\ UNCHANGED m_connList
    BY <1>6 DEF PostReserve, Doing
  <2>2. /\ HowMany(at', "pop") = HowMany(at, "pop")
        /\ HowMany(at', "post") = HowMany(at, "post") - 1
    BY <1>a, <2>1 DEF Places
  <2> QED BY <2>1, <2>2, <1>0 DEF Listed
<1> QED BY <1>1, <1>2, <1>3, <1>4, <1>5, <1>6 DEF ThreadStep

(* How it leaves the requests: the others' are as they were. *)
LEMMA RequestSteps ==
    ASSUME PoolInv, NEW t \in Threads, ThreadStep(t)
    PROVE  Types' /\ \A u \in Threads : Requested(u)'
<1> USE DbAssumption
<1>1. Types /\ Listed /\ Requested(t) /\ NoThread \notin Threads
  BY DEF PoolInv, Threads
<1>2. /\ todo[t] \in Todos /\ at[t] \in Places /\ conns[t] \in Seq(Conns)
      /\ t = Main => todo[t] \in MainTodos
  BY <1>1 DEF Types
<1>3. todo[t] # <<>> => Moves(todo[t])
  BY <1>2, NextStep
<1>4. t = Main /\ todo[t] # <<>> => Tail(todo[t]) \in MainTodos
  BY <1>2, MainStep
<1>5. SUFFICES Types' /\ Requested(t)' /\ \A u \in Threads \ {t} : Requested(u)'
  OBVIOUS
<1>a. ASSUME \/ lock' = lock
             \/ lock = NoThread /\ lock' = t
             \/ lock = t /\ lock' = NoThread,
             \A u \in Threads \ {t} :
                 todo'[u] = todo[u] /\ at'[u] = at[u] /\ conns'[u] = conns[u]
      PROVE  \A u \in Threads \ {t} : Requested(u)'
  <2> SUFFICES ASSUME NEW u \in Threads \ {t} PROVE Requested(u)'
    OBVIOUS
  <2>1. Requested(u) /\ u # NoThread /\ u # t
    BY <1>1 DEF PoolInv
  <2>2. lock' = u <=> lock = u
    BY <1>a, <2>1
  <2>3. todo'[u] = todo[u] /\ at'[u] = at[u] /\ conns'[u] = conns[u]
    BY <1>a
  <2> QED BY <2>1, <2>2, <2>3 DEF Requested, Pushed
<1>6. CASE Request(t)
  <2>1. PICK s \in Scripts(t) : todo' = [todo EXCEPT ![t] = s]
    BY <1>6 DEF Request
  <2>2. s \in None /\ s \in Todos /\ (t = Main => s \in MainTodos)
    BY Beginnings DEF Todos
  <2>3. todo[t] = <<>> /\ todo[t] \in None /\ UNCHANGED <<m_connList, m_reserve, lock, at, conns>>
    BY <1>6 DEF Request, None
  <2>4. todo'[t] = s /\ \A u \in Threads \ {t} : todo'[u] = todo[u]
    BY <1>1, <2>1 DEF Types
  <2>5. Types'
    BY <1>1, <2>1, <2>2, <2>3 DEF Types
  <2>6. Held(s) = Held(todo[t]) /\ ~Owns(s) /\ ~Owns(todo[t])
    BY <2>2, <2>3, Classes DEF Held, Owns
  <2>7. Requested(t)'
    BY <1>1, <2>3, <2>4, <2>6 DEF Requested, Pushed
  <2> QED BY <1>a, <2>3, <2>4, <2>5, <2>7
<1>b. ASSUME NEW step \in {"lock", "unlock", "get", "put"}, NEW place \in Places,
             Doing(t, step, place)
      PROVE  /\ todo[t] # <<>> /\ Head(todo[t]) = step /\ at[t] = place
             /\ Tail(todo[t]) \in Todos
  <2>1. todo[t] # <<>> /\ Head(todo[t]) = step /\ at[t] = place
    BY <1>b DEF Doing
  <2>2. Tail(todo[t]) \in Todos
    BY <1>3, <2>1 DEF Moves, Todos
  <2> QED BY <2>1, <2>2
<1>c. ASSUME StepDone(t), Tail(todo[t]) \in Todos, todo[t] # <<>>
      PROVE  /\ todo' \in [Threads -> Todos] /\ todo'[Main] \in MainTodos
             /\ todo'[t] = Tail(todo[t])
             /\ \A u \in Threads \ {t} : todo'[u] = todo[u]
  <2>1. todo' = [todo EXCEPT ![t] = Tail(todo[t])] /\ todo \in [Threads -> Todos]
    BY <1>1, <1>c DEF StepDone, Types
  <2>2. Main \in Threads /\ todo[Main] \in MainTodos
    BY <1>1 DEF Types, Threads
  <2> QED BY <1>4, <1>c, <2>1, <2>2
<1>7. CASE Lock(t)
  <2>1. /\ todo[t] # <<>> /\ Head(todo[t]) = "lock" /\ at[t] = "begin"
        /\ Tail(todo[t]) \in Todos
        /\ lock = NoThread /\ lock' = t /\ StepDone(t)
        /\ UNCHANGED <<m_connList, m_reserve, at, conns>>
    BY <1>7, <1>b DEF Lock, Places
  <2>2. Types'
    BY <1>1, <1>c, <2>1 DEF Types
  <2>3. Held(Tail(todo[t])) = Held(todo[t]) /\ Owns(Tail(todo[t]))
    BY <1>3, <2>1, Classes DEF Moves, Held, Owns
  <2>4. Requested(t)'
    BY <1>1, <1>c, <2>1, <2>3 DEF Requested, Pushed
  <2> QED BY <1>a, <1>c, <2>1, <2>2, <2>4
<1>8. CASE Unlock(t)
  <2>1. /\ todo[t] # <<>> /\ Head(todo[t]) = "unlock" /\ at[t] = "begin"
        /\ Tail(todo[t]) \in Todos
        /\ lock' = NoThread /\ StepDone(t)
        /\ UNCHANGED <<m_connList, m_reserve, at, conns>>
    BY <1>8, <1>b DEF Unlock, Places
  <2>2. Types'
    BY <1>1, <1>c, <2>1 DEF Types
  <2>3. /\ Held(Tail(todo[t])) = Held(todo[t])
        /\ Owns(todo[t]) /\ ~Owns(Tail(todo[t]))
    BY <1>3, <2>1, Classes DEF Moves, Held, Owns
  <2>4. Requested(t)' /\ lock = t
    BY <1>1, <1>c, <2>1, <2>3 DEF Requested, Pushed
  <2> QED BY <1>a, <1>c, <2>1, <2>2, <2>4
<1>9. CASE TestSize(t)
  <2>1. PICK q \in {"null", "wait"} : at' = [at EXCEPT ![t] = q]
    BY <1>9 DEF TestSize
  <2>2. /\ todo[t] # <<>> /\ Head(todo[t]) = "get" /\ at[t] = "begin"
        /\ UNCHANGED <<m_connList, m_reserve, lock, todo, conns>>
    BY <1>9, <1>b DEF TestSize, Places
  <2>3. at' \in [Threads -> Places] /\ at'[t] = q /\ \A u \in Threads \ {t} : at'[u] = at[u]
    BY <1>1, <2>1 DEF Types, Places
  <2>4. Types' /\ Requested(t)'
    BY <1>1, <2>2, <2>3 DEF Types, Requested, Pushed
  <2> QED BY <1>a, <2>2, <2>3, <2>4
<1>10. CASE WaitReserve(t)
  <2>1. /\ todo[t] # <<>> /\ Head(todo[t]) = "get" /\ at[t] = "wait"
        /\ m_reserve > 0 /\ m_reserve' = m_reserve - 1
        /\ at' = [at EXCEPT ![t] = "pop"]
        /\ UNCHANGED <<m_connList, lock, todo, conns>>
    BY <1>10, <1>b DEF WaitReserve, Places
  <2>2. at' \in [Threads -> Places] /\ at'[t] = "pop" /\ \A u \in Threads \ {t} : at'[u] = at[u]
    BY <1>1, <2>1 DEF Types, Places
  <2>3. Types' /\ Requested(t)'
    BY <1>1, <2>1, <2>2 DEF Types, Requested, Pushed
  <2> QED BY <1>a, <2>1, <2>2, <2>3
<1>11. CASE PopConn(t)
  <2>1. /\ todo[t] # <<>> /\ Head(todo[t]) = "get" /\ at[t] = "pop"
        /\ Tail(todo[t]) \in Todos /\ StepDone(t)
        /\ m_connList' = Tail(m_connList) /\ at' = [at EXCEPT ![t] = "begin"]
        /\ conns' = [conns EXCEPT ![t] = Append(conns[t], Head(m_connList))]
        /\ UNCHANGED <<m_reserve, lock>>
    BY <1>11, <1>b DEF PopConn, Places
  <2>2. at' \in [Threads -> Places] /\ at'[t] = "begin" /\ \A u \in Threads \ {t} : at'[u] = at[u]
    BY <1>1, <2>1 DEF Types, Places
  <2>3. m_connList' \in Seq(Conns) /\ Head(m_connList) \in Conns
    BY <1>1, <2>1, PromiseKept DEF Types
  <2>4. /\ conns' \in [Threads -> Seq(Conns)] /\ Len(conns'[t]) = Len(conns[t]) + 1
        /\ \A u \in Threads \ {t} : conns'[u] = conns[u]
    BY <1>1, <2>1, <2>3 DEF Types
  <2>5. Types'
    BY <1>1, <1>c, <2>1, <2>2, <2>3, <2>4 DEF Types
  <2>6. /\ Held(Tail(todo[t])) = Held(todo[t]) + 1
        /\ Owns(Tail(todo[t])) <=> Owns(todo[t])
    BY <1>3, <2>1, Classes DEF Moves, Held, Owns
  <2>7. Requested(t)'
    BY <1>1, <1>2, <1>c, <2>1, <2>2, <2>4, <2>6 DEF Requested, Pushed
  <2> QED BY <1>a, <1>c, <2>1, <2>2, <2>4, <2>5, <2>7
<1>12. CASE PushConn(t)
  <2>1. /\ todo[t] # <<>> /\ Head(todo[t]) = "put" /\ at[t] = "begin"
        /\ m_connList' = Append(m_connList, Last(conns[t]))
        /\ at' = [at EXCEPT ![t] = "post"] /\ conns' = [conns EXCEPT ![t] = Front(conns[t])]
        /\ UNCHANGED <<m_reserve, lock, todo>>
    BY <1>12, <1>b DEF PushConn, Places
  <2>2. at' \in [Threads -> Places] /\ at'[t] = "post" /\ \A u \in Threads \ {t} : at'[u] = at[u]
    BY <1>1, <2>1 DEF Types, Places
  <2>3. Held(todo[t]) > 0
    BY <1>3, <2>1, Classes DEF Moves, Held
  <2>4. Len(conns[t]) > 0
    BY <1>1, <2>1, <2>3 DEF Requested, Pushed
  <2>5. /\ Last(conns[t]) \in Conns /\ Front(conns[t]) \in Seq(Conns)
        /\ Len(Front(conns[t])) = Len(conns[t]) - 1
    BY <1>2, <2>4 DEF Last, Front
  <2>6. /\ conns' \in [Threads -> Seq(Conns)] /\ Len(conns'[t]) = Len(conns[t]) - 1
        /\ \A u \in Threads \ {t} : conns'[u] = conns[u]
    BY <1>1, <2>1, <2>5 DEF Types
  <2>7. Types'
    BY <1>1, <2>1, <2>2, <2>5, <2>6 DEF Types
  <2>8. Requested(t)'
    BY <1>1, <1>2, <2>1, <2>2, <2>6 DEF Requested, Pushed
  <2> QED BY <1>a, <2>1, <2>2, <2>6, <2>7, <2>8
<1>13. CASE PostReserve(t)
  <2>1. /\ todo[t] # <<>> /\ Head(todo[t]) = "put" /\ at[t] = "post"
        /\ Tail(todo[t]) \in Todos /\ StepDone(t)
        /\ m_reserve' = m_reserve + 1 /\ at' = [at EXCEPT ![t] = "begin"]
        /\ UNCHANGED <<m_connList, lock, conns>>
    BY <1>13, <1>b DEF PostReserve, Places
  <2>2. at' \in [Threads -> Places] /\ at'[t] = "begin" /\ \A u \in Threads \ {t} : at'[u] = at[u]
    BY <1>1, <2>1 DEF Types, Places
  <2>3. Types'
    BY <1>1, <1>c, <2>1, <2>2 DEF Types
  <2>4. /\ Held(Tail(todo[t])) = Held(todo[t]) - 1
        /\ Owns(Tail(todo[t])) <=> Owns(todo[t])
    BY <1>3, <2>1, Classes DEF Moves, Held, Owns
  <2>5. Requested(t)'
    BY <1>1, <1>2, <1>c, <2>1, <2>2, <2>4 DEF Requested, Pushed
  <2> QED BY <1>a, <1>c, <2>1, <2>2, <2>3, <2>5
<1> QED
  BY <1>6, <1>7, <1>8, <1>9, <1>10, <1>11, <1>12, <1>13 DEF ThreadStep

(* Every thread keeps to its request and the semaphore to the list. *)
LEMMA PoolInvariant == Spec => []PoolInv
<1>1. Init => PoolInv
  <2> SUFFICES ASSUME Init PROVE PoolInv
    OBVIOUS
  <2>1. Cardinality(Conns) \in Nat
    BY DbAssumption, FS_CardinalityType
  <2>2. m_connList \in Seq(Conns) /\ Len(m_connList) = Cardinality(Conns)
    BY <2>1 DEF Init, SetToSeqs
  <2>3. HowMany(at, "pop") = 0 /\ HowMany(at, "post") = 0
    BY HowManyNat DEF Init
  <2>4. <<>> \in None /\ <<>> \in Todos /\ <<>> \in MainTodos
    BY DEF None, Todos, MainTodos
  <2>5. Types
    BY <2>1, <2>2, <2>4 DEF Init, Types, Places, Threads
  <2>6. Listed
    BY <2>1, <2>2, <2>3 DEF Init, Listed
  <2>7. Held(<<>>) = 0 /\ ~Owns(<<>>)
    BY <2>4, Classes DEF Held, Owns
  <2>8. \A t \in Threads : Requested(t)
    BY <2>7, DbAssumption DEF Init, Requested, Pushed, Threads
  <2> QED BY <2>5, <2>6, <2>8 DEF PoolInv
<1>2. PoolInv /\ [Next]_vars => PoolInv'
  <2> SUFFICES ASSUME PoolInv, [Next]_vars PROVE PoolInv'
    OBVIOUS
  <2>1. ASSUME NEW t \in Threads, ThreadStep(t) PROVE PoolInv'
    BY <2>1, RequestSteps, ListedSteps DEF PoolInv
  <2>2. CASE UNCHANGED vars
    BY <2>2 DEF vars, PoolInv, Types, Listed, Requested, Pushed
  <2> QED BY <2>1, <2>2 DEF Next
<1> QED BY <1>1, <1>2, PTL DEF Spec

-----------------------------------------------------------------------------
(* Connections in use: those a thread holds, the one it has been promised  *)
(* and the one the semaphore does not count yet.                           *)
Slots(t) == Len(conns[t]) + (IF at[t] \in {"pop", "post"} THEN 1 ELSE 0)
InUse == {x \in Threads \X {1, 2} : x[2] <= Slots(x[1])}
Counted == m_reserve + Cardinality(InUse) = Cardinality(Conns)

(* The connections in use can be counted. *)
LEMMA InUseFinite == IsFiniteSet(InUse)
<1>1. IsFiniteSet({1, 2})
  <2>1. IsFiniteSet({1} \cup {2})
    BY FS_Singleton, FS_AddElement
  <2>2. {1} \cup {2} = {1, 2}
    OBVIOUS
  <2> QED BY <2>1, <2>2
<1>2. IsFiniteSet(Threads \X {1, 2})
  BY <1>1, ThreadsFinite, FS_Product
<1> QED BY <1>2, FS_Subset DEF InUse

(* A thread uses two at most, the second only with the mutex; the event    *)
(* loop one at most, only with the mutex.                                  *)
LEMMA SlotsBound ==
    ASSUME PoolInv, NEW t \in Threads
    PROVE  /\ Slots(t) \in 0..2
           /\ Slots(t) = 2 => lock = t
           /\ t = Main /\ Slots(t) > 0 => lock = t /\ Slots(t) = 1
<1>1. /\ todo[t] \in Todos /\ conns[t] \in Seq(Conns) /\ Len(conns[t]) \in Nat
      /\ t = Main => todo[t] \in None \cup Mutex \cup MutexOne
  BY MainClasses DEF PoolInv, Types
<1>2. Requested(t)
  BY DEF PoolInv
<1>3. CASE at[t] = "pop"
  <2>1. todo[t] # <<>> /\ Head(todo[t]) = "get" /\ Moves(todo[t])
    BY <1>1, <1>2, <1>3, NextStep DEF Requested
  <2>2. Held(todo[t]) = 0 \/ (Held(todo[t]) = 1 /\ Owns(todo[t]))
    BY <2>1, Classes DEF Moves, Held, Owns
  <2>3. t = Main => Held(todo[t]) = 0 /\ Owns(todo[t])
    <3>1. t = Main => todo[t] \in Mutex
      BY <2>1, MainStep DEF PoolInv, Types
    <3> QED BY <3>1, Classes DEF Held, Owns
  <2>4. Slots(t) = Held(todo[t]) + 1
    BY <1>1, <1>2, <1>3 DEF Slots, Requested, Pushed
  <2> QED BY <1>2, <2>2, <2>3, <2>4 DEF Requested
<1>4. CASE at[t] # "pop"
  <2>1. Slots(t) = Held(todo[t])
    BY <1>1, <1>2, <1>4 DEF Slots, Requested, Pushed
  <2>2. /\ Held(todo[t]) \in 0..2 /\ (Held(todo[t]) = 2 => Owns(todo[t]))
    BY Classes DEF Held, Owns
  <2>3. t = Main => Held(todo[t]) = 0 \/ (Held(todo[t]) = 1 /\ Owns(todo[t]))
    BY <1>1, Classes DEF Held, Owns
  <2> QED BY <1>2, <2>1, <2>2, <2>3 DEF Requested
<1> QED BY <1>3, <1>4

(* The semaphore pays for each connection that comes into use.             *)
LEMMA SlotsStep ==
    ASSUME PoolInv, NEW t \in Threads, ThreadStep(t)
    PROVE  /\ \A u \in Threads \ {t} : Slots(u)' = Slots(u)
           /\ \/ m_reserve' = m_reserve /\ Slots(t)' = Slots(t)
              \/ m_reserve' = m_reserve - 1 /\ Slots(t)' = Slots(t) + 1
              \/ m_reserve' = m_reserve + 1 /\ Slots(t)' = Slots(t) - 1
<1>1. Types /\ Types' /\ Requested(t)
  BY RequestSteps DEF PoolInv
<1>2. /\ conns[t] \in Seq(Conns) /\ Len(conns[t]) \in Nat
      /\ at \in [Threads -> Places] /\ conns \in [Threads -> Seq(Conns)]
      /\ todo[t] \in Todos
  BY <1>1 DEF Types
<1>3. CASE Request(t) \/ Lock(t) \/ Unlock(t)
  BY <1>3 DEF Request, Lock, Unlock, Slots
<1>4. CASE TestSize(t)
  <2>1. /\ at[t] = "begin" /\ at'[t] \in {"null", "wait"}
        /\ \A u \in Threads \ {t} : at'[u] = at[u]
        /\ UNCHANGED <<m_reserve, conns>>
    BY <1>2, <1>4 DEF TestSize, Doing
  <2> QED BY <2>1 DEF Slots
<1>5. CASE WaitReserve(t)
  <2>1. /\ at[t] = "wait" /\ at'[t] = "pop"
        /\ \A u \in Threads \ {t} : at'[u] = at[u]
        /\ m_reserve' = m_reserve - 1 /\ UNCHANGED conns
    BY <1>2, <1>5 DEF WaitReserve, Doing
  <2> QED BY <1>2, <2>1 DEF Slots
<1>6. CASE PopConn(t)
  <2>1. at[t] = "pop" /\ at' = [at EXCEPT ![t] = "begin"]
    BY <1>6 DEF PopConn, Doing
  <2>2. Head(m_connList) \in Conns
    BY <1>1, <2>1, PromiseKept DEF PoolInv, Types
  <2>3. conns' = [conns EXCEPT ![t] = Append(conns[t], Head(m_connList))]
    BY <1>6 DEF PopConn
  <2>4. /\ at'[t] = "begin" /\ \A u \in Threads \ {t} : at'[u] = at[u]
        /\ Len(conns'[t]) = Len(conns[t]) + 1
        /\ \A u \in Threads \ {t} : conns'[u] = conns[u]
    BY <1>2, <2>1, <2>2, <2>3
  <2>5. UNCHANGED m_reserve
    BY <1>6 DEF PopConn
  <2>6. Slots(t)' = Slots(t)
    BY <1>2, <2>1, <2>4 DEF Slots
  <2>7. \A u \in Threads \ {t} : Slots(u)' = Slots(u)
    BY <2>4 DEF Slots
  <2> QED BY <2>5, <2>6, <2>7
<1>7. CASE PushConn(t)
  <2>1. /\ at[t] = "begin" /\ at' = [at EXCEPT ![t] = "post"]
        /\ todo[t] # <<>> /\ Head(todo[t]) = "put"
    BY <1>7 DEF PushConn, Doing
  <2>2. Held(todo[t]) > 0
    BY <1>2, <2>1, NextStep, Classes DEF Moves, Held
  <2>3. Len(conns[t]) > 0
    BY <1>1, <2>1, <2>2 DEF Requested, Pushed
  <2>4. Len(Front(conns[t])) = Len(conns[t]) - 1
    <3>1. conns[t] \in Seq(Conns) /\ Len(conns[t]) > 0
      BY <1>2, <2>3
    <3> QED BY <3>1 DEF Front
  <2>5. conns' = [conns EXCEPT ![t] = Front(conns[t])]
    BY <1>7 DEF PushConn
  <2>6. /\ at'[t] = "post" /\ \A u \in Threads \ {t} : at'[u] = at[u]
        /\ Len(conns'[t]) = Len(conns[t]) - 1
        /\ \A u \in Threads \ {t} : conns'[u] = conns[u]
    BY <1>2, <2>1, <2>4, <2>5
  <2>7. UNCHANGED m_reserve
    BY <1>7 DEF PushConn
  <2>8. Slots(t)' = Slots(t)
    BY <1>2, <2>1, <2>6 DEF Slots
  <2>9. \A u \in Threads \ {t} : Slots(u)' = Slots(u)
    BY <2>6 DEF Slots
  <2> QED BY <2>7, <2>8, <2>9
<1>8. CASE PostReserve(t)
  <2>1. /\ at[t] = "post" /\ at'[t] = "begin"
        /\ \A u \in Threads \ {t} : at'[u] = at[u]
        /\ m_reserve' = m_reserve + 1 /\ UNCHANGED conns
    BY <1>2, <1>8 DEF PostReserve, Doing
  <2> QED BY <1>2, <2>1 DEF Slots
<1> QED BY <1>3, <1>4, <1>5, <1>6, <1>7, <1>8 DEF ThreadStep

SlotsOK == \A t \in Threads : Slots(t) \in 0..2

(* No thread ever uses more than two connections. *)
LEMMA SlotsInvariant == Spec => []SlotsOK
<1>1. PoolInv => SlotsOK
  BY SlotsBound DEF SlotsOK
<1> QED BY <1>1, PoolInvariant, PTL

(* The semaphore counts the connections that are not in use. *)
LEMMA CountedInvariant == Spec => []Counted
<1>1. Init => Counted
  <2> SUFFICES ASSUME Init PROVE Counted
    OBVIOUS
  <2>1. \A t \in Threads : Slots(t) = 0
    BY DEF Init, Slots
  <2>2. InUse = {}
    BY <2>1 DEF InUse
  <2>3. Cardinality(InUse) = 0 /\ Cardinality(Conns) \in Nat
    BY <2>2, FS_EmptySet, FS_CardinalityType, DbAssumption
  <2> QED BY <2>3 DEF Init, Counted
<1>2. PoolInv /\ SlotsOK /\ SlotsOK' /\ Counted /\ [Next]_vars => Counted'
  <2> SUFFICES ASSUME PoolInv, SlotsOK, SlotsOK', Counted, [Next]_vars PROVE Counted'
    OBVIOUS
  <2>1. ASSUME NEW t \in Threads, ThreadStep(t) PROVE Counted'
    <3>1. /\ \A u \in Threads \ {t} : Slots(u)' = Slots(u)
          /\ \/ m_reserve' = m_reserve /\ Slots(t)' = Slots(t)
             \/ m_reserve' = m_reserve - 1 /\ Slots(t)' = Slots(t) + 1
             \/ m_reserve' = m_reserve + 1 /\ Slots(t)' = Slots(t) - 1
      BY <2>1, SlotsStep
    <3>2. \A u \in Threads : Slots(u) \in 0..2 /\ Slots(u)' \in 0..2
      BY DEF SlotsOK
    <3>3. m_reserve \in Nat /\ Cardinality(InUse) \in Nat /\ IsFiniteSet(InUse)
      BY InUseFinite, FS_CardinalityType DEF PoolInv, Types
    <3>4. CASE m_reserve' = m_reserve /\ Slots(t)' = Slots(t)
      <4>1. InUse' = InUse
        BY <3>1, <3>4 DEF InUse
      <4> QED BY <3>4, <4>1 DEF Counted
    <3>5. CASE m_reserve' = m_reserve - 1 /\ Slots(t)' = Slots(t) + 1
      <4>1. InUse' = InUse \cup {<<t, Slots(t) + 1>>}
        BY <3>1, <3>2, <3>5 DEF InUse
      <4>2. <<t, Slots(t) + 1>> \notin InUse
        BY <3>2 DEF InUse
      <4>3. Cardinality(InUse') = Cardinality(InUse) + 1
        BY <3>3, <4>1, <4>2, FS_AddElement
      <4> QED BY <3>3, <3>5, <4>3 DEF Counted
    <3>6. CASE m_reserve' = m_reserve + 1 /\ Slots(t)' = Slots(t) - 1
      <4>1. InUse' = InUse \ {<<t, Slots(t)>>}
        BY <3>1, <3>2, <3>6 DEF InUse
      <4>2. <<t, Slots(t)>> \in InUse
        BY <3>2, <3>6 DEF InUse
      <4>3. Cardinality(InUse') = Cardinality(InUse) - 1
        BY <3>3, <4>1, <4>2, FS_RemoveElement
      <4> QED BY <3>3, <3>6, <4>3 DEF Counted
    <3> QED BY <3>1, <3>4, <3>5, <3>6
  <2>2. CASE UNCHANGED vars
    BY <2>2 DEF vars, Counted, InUse, Slots
  <2> QED BY <2>1, <2>2 DEF Next
<1> QED BY <1>1, <1>2, PoolInvariant, SlotsInvariant, PTL DEF Spec

(* Whoever is about to take a connection leaves one for each worker, and   *)
(* so finds one if there are more.                                         *)
LEMMA OneIsFree ==
    ASSUME PoolInv, Counted, Cardinality(Conns) > Cardinality(Workers),
           NEW t \in Threads, at[t] \in {"begin", "wait"},
           todo[t] # <<>>, Head(todo[t]) = "get"
    PROVE  m_reserve > 0
<1> DEFINE Firsts == Workers \X {1}
<1>1. /\ IsFiniteSet(Firsts) /\ Cardinality(Firsts) = Cardinality(Workers)
      /\ Cardinality(Workers) \in Nat
  <2>1. IsFiniteSet({1}) /\ Cardinality({1}) = 1
    BY FS_Singleton
  <2>2. IsFiniteSet(Workers) /\ Cardinality(Workers) \in Nat
    BY DbAssumption, FS_CardinalityType
  <2>3. IsFiniteSet(Firsts) /\ Cardinality(Firsts) = Cardinality(Workers) * 1
    BY <2>1, <2>2, FS_Product
  <2> QED BY <2>2, <2>3
<1>2. /\ todo[t] \in Todos /\ Requested(t) /\ Len(conns[t]) \in Nat
      /\ t = Main => todo[t] \in Mutex
  BY MainStep DEF PoolInv, Types
<1>3. Slots(t) = Held(todo[t])
  BY <1>2 DEF Slots, Requested, Pushed
<1>4. Slots(t) = 0 \/ (Slots(t) = 1 /\ lock = t)
  <2>1. Held(todo[t]) = 0 \/ (Held(todo[t]) = 1 /\ Owns(todo[t]))
    BY <1>2, NextStep, Classes DEF Moves, Held, Owns
  <2> QED BY <1>2, <1>3, <2>1 DEF Requested
<1>5. t = Main => Slots(t) = 0 /\ lock = t
  BY <1>2, <1>3, Classes DEF Requested, Held, Owns
<1>6. \A u \in Threads : /\ Slots(u) \in 0..2 /\ (Slots(u) = 2 => lock = u)
                         /\ (u = Main /\ Slots(u) > 0 => lock = u /\ Slots(u) = 1)
  BY SlotsBound
<1>7. Cardinality(InUse) <= Cardinality(Workers)
  <2>1. CASE lock = t
    <3>1. InUse \subseteq Firsts
      BY <1>4, <1>5, <1>6, <2>1 DEF InUse, Threads
    <3> QED BY <1>1, <3>1, FS_Subset
  <2>2. CASE lock # t
    <3> DEFINE extra == IF lock = Main THEN <<Main, 1>> ELSE <<lock, 2>>
               rest == Firsts \ {<<t, 1>>}
    <3>1. t \in Workers /\ Slots(t) = 0
      BY <1>4, <1>5, <2>2 DEF Threads
    <3>2. InUse \subseteq rest \cup {extra}
      BY <1>6, <3>1 DEF InUse, Threads
    <3>3. IsFiniteSet(rest) /\ Cardinality(rest) = Cardinality(Workers) - 1
      <4>1. <<t, 1>> \in Firsts
        BY <3>1
      <4> HIDE DEF Firsts
      <4> QED BY <1>1, <4>1, FS_RemoveElement
    <3> HIDE DEF extra, rest
    <3>4. /\ IsFiniteSet(rest \cup {extra})
          /\ Cardinality(rest \cup {extra}) =
                IF extra \in rest THEN Cardinality(rest) ELSE Cardinality(rest) + 1
      BY <3>3, FS_AddElement
    <3>5. Cardinality(InUse) <= Cardinality(rest \cup {extra})
      BY <3>2, <3>4, FS_Subset
    <3>6. Cardinality(InUse) \in Nat
      BY InUseFinite, FS_CardinalityType
    <3> QED BY <1>1, <3>3, <3>4, <3>5, <3>6
  <2> QED BY <2>1, <2>2
<1>8. Cardinality(InUse) \in Nat /\ m_reserve \in Nat /\ Cardinality(Conns) \in Nat
  BY InUseFinite, FS_CardinalityType, DbAssumption DEF PoolInv, Types
<1> QED BY <1>1, <1>7, <1>8 DEF Counted

(* With more connections than workers, no handler is given NULL and none   *)
(* waits for a connection: the mutex's owner in particular never waits for *)
(* one that client_ready holds.                                            *)
THEOREM ConnectionsSuffice ==
    ASSUME Cardinality(Conns) > Cardinality(Workers)
    PROVE  Spec => []ConnectionAtOnce
<1> DEFINE NotNull == \A t \in Threads : at[t] # "null"
<1>1. Init => NotNull
  BY DEF Init
<1>2. PoolInv /\ Counted /\ NotNull /\ [Next]_vars => NotNull'
  <2> SUFFICES ASSUME PoolInv, Counted, NotNull, [Next]_vars PROVE NotNull'
    OBVIOUS
  <2>1. at \in [Threads -> Places]
    BY DEF PoolInv, Types
  <2>2. ASSUME NEW t \in Threads, TestSize(t) PROVE NotNull'
    <3>1. at[t] = "begin" /\ todo[t] # <<>> /\ Head(todo[t]) = "get"
      BY <2>2 DEF TestSize, Doing
    <3>2. m_reserve > 0
      BY <3>1, OneIsFree
    <3>3. Len(m_connList) > 0
      BY <3>2, HowManyNat DEF PoolInv, Types, Listed
    <3>4. m_connList # <<>>
      BY <3>3
    <3>5. at' = [at EXCEPT ![t] = "wait"]
      BY <2>2, <3>4 DEF TestSize
    <3> QED BY <2>1, <3>5
  <2>3. ASSUME NEW t \in Threads, ThreadStep(t), ~TestSize(t) PROVE NotNull'
    <3>1. \/ UNCHANGED at
          \/ \E q \in {"begin", "pop", "post"} : at' = [at EXCEPT ![t] = q]
      BY <2>3 DEF ThreadStep, Request, Lock, Unlock, WaitReserve, PopConn, PushConn,
                  PostReserve
    <3> QED BY <2>1, <3>1
  <2>4. CASE UNCHANGED vars
    BY <2>4 DEF vars
  <2> QED BY <2>2, <2>3, <2>4 DEF Next
<1>3. PoolInv /\ Counted /\ NotNull => ConnectionAtOnce
  <2> SUFFICES ASSUME PoolInv, Counted, NotNull, NEW t \in Threads, at[t] = "wait"
               PROVE  m_reserve > 0
    BY DEF ConnectionAtOnce
  <2>1. todo[t] # <<>> /\ Head(todo[t]) = "get"
    BY DEF PoolInv, Requested
  <2> QED BY <2>1, OneIsFree
<1> HIDE DEF NotNull
<1> QED BY <1>1, <1>2, <1>3, PoolInvariant, CountedInvariant, PTL DEF Spec

-----------------------------------------------------------------------------
(* Every connection is in the list or in a thread's hands, and in one      *)
(* place only.                                                             *)
InList(c) == \E i \in DOMAIN m_connList : m_connList[i] = c
InHand(t, c) == \E i \in DOMAIN conns[t] : conns[t][i] = c
Once == /\ \A i, j \in DOMAIN m_connList : m_connList[i] = m_connList[j] => i = j
        /\ \A t \in Threads : \A i, j \in DOMAIN conns[t] :
               conns[t][i] = conns[t][j] => i = j
Apart == \A c \in Conns : \A t \in Threads :
             InHand(t, c) => /\ ~InList(c)
                             /\ \A u \in Threads : InHand(u, c) => u = t
Somewhere == \A c \in Conns : InList(c) \/ \E t \in Threads : InHand(t, c)
Placed == Once /\ Apart /\ Somewhere

(* Each connection stays in one place, whatever gets and puts interleave. *)
LEMMA PlacedInvariant == Spec => []Placed
<1>1. Init => Placed
  <2> SUFFICES ASSUME Init PROVE Placed
    OBVIOUS
  <2> DEFINE D == 1..Cardinality(Conns)
  <2>1. /\ IsFiniteSet(Conns) /\ Cardinality(Conns) \in Nat
        /\ IsFiniteSet(D) /\ Cardinality(D) = Cardinality(Conns)
    BY DbAssumption, FS_CardinalityType, FS_Interval
  <2>2. /\ m_connList \in [D -> Conns]
        /\ \A i, j \in D : i # j => m_connList[i] # m_connList[j]
    BY DEF Init, SetToSeqs
  <2>3. m_connList \in Surjection(D, Conns)
    BY <2>1, <2>2, FS_Injection DEF Injection, IsInjective
  <2>4. \A c \in Conns : InList(c)
    BY <2>2, <2>3 DEF Surjection, InList
  <2>5. \A t \in Threads : DOMAIN conns[t] = {}
    BY DEF Init
  <2> QED BY <2>2, <2>4, <2>5 DEF Placed, Once, Apart, Somewhere, InHand
<1>2. PoolInv /\ Placed /\ [Next]_vars => Placed'
  <2> SUFFICES ASSUME PoolInv, Placed, [Next]_vars PROVE Placed'
    OBVIOUS
  <2>0. /\ m_connList \in Seq(Conns) /\ conns \in [Threads -> Seq(Conns)]
        /\ todo \in [Threads -> Todos]
    BY DEF PoolInv, Types
  <2>1. ASSUME NEW t \in Threads, PopConn(t) PROVE Placed'
    <3> DEFINE hd == Head(m_connList)
    <3>1. at[t] = "pop" /\ m_connList # <<>> /\ Len(m_connList) > 0
      BY <2>1, PromiseKept DEF PopConn, Doing, PoolInv
    <3>2. hd \in Conns /\ hd = m_connList[1] /\ InList(hd)
      BY <2>0, <3>1 DEF InList
    <3>3. /\ DOMAIN m_connList = 1..Len(m_connList)
          /\ DOMAIN m_connList' = 1..(Len(m_connList) - 1)
          /\ \A i \in DOMAIN m_connList' : m_connList'[i] = m_connList[i + 1]
      BY <2>0, <2>1, <3>1 DEF PopConn
    <3>4. /\ DOMAIN conns[t] = 1..Len(conns[t]) /\ Len(conns[t]) \in Nat
          /\ conns' = [conns EXCEPT ![t] = Append(conns[t], hd)]
      BY <2>0, <2>1 DEF PopConn
    <3> HIDE DEF hd
    <3>5. /\ DOMAIN conns'[t] = 1..(Len(conns[t]) + 1)
          /\ \A i \in DOMAIN conns[t] : conns'[t][i] = conns[t][i]
          /\ conns'[t][Len(conns[t]) + 1] = hd
          /\ \A u \in Threads \ {t} : conns'[u] = conns[u]
      BY <2>0, <3>2, <3>4
    <3>6. \A c \in Conns : InList(c)' <=> InList(c) /\ c # hd
      <4> SUFFICES ASSUME NEW c \in Conns PROVE InList(c)' <=> InList(c) /\ c # hd
        OBVIOUS
      <4>1. ASSUME NEW i \in DOMAIN m_connList', m_connList'[i] = c
            PROVE  InList(c) /\ c # hd
        <5>1. i + 1 \in DOMAIN m_connList /\ m_connList[i + 1] = c /\ i + 1 # 1
          BY <3>1, <3>3, <4>1
        <5> QED BY <3>1, <3>2, <3>3, <5>1 DEF InList, Placed, Once
      <4>2. ASSUME NEW i \in DOMAIN m_connList, m_connList[i] = c, c # hd
            PROVE  InList(c)'
        <5>1. i - 1 \in DOMAIN m_connList' /\ m_connList'[i - 1] = c
          BY <3>1, <3>2, <3>3, <4>2
        <5> QED BY <5>1 DEF InList
      <4> QED BY <4>1, <4>2 DEF InList
    <3>7. \A c \in Conns : InHand(t, c)' <=> InHand(t, c) \/ c = hd
      BY <3>4, <3>5 DEF InHand
    <3>8. \A u \in Threads \ {t} : \A c \in Conns : InHand(u, c)' <=> InHand(u, c)
      BY <3>5 DEF InHand
    <3>9. \A u \in Threads : ~InHand(u, hd)
      BY <3>2 DEF Placed, Apart
    <3>10. Once'
      <4>1. \A i, j \in DOMAIN m_connList' : m_connList'[i] = m_connList'[j] => i = j
        <5> SUFFICES ASSUME NEW i \in DOMAIN m_connList', NEW j \in DOMAIN m_connList',
                            m_connList'[i] = m_connList'[j]
                     PROVE  i = j
          OBVIOUS
        <5>1. /\ i + 1 \in DOMAIN m_connList /\ j + 1 \in DOMAIN m_connList
              /\ m_connList[i + 1] = m_connList[j + 1] /\ i \in Int /\ j \in Int
          BY <3>1, <3>3
        <5>2. i + 1 = j + 1
          BY <5>1 DEF Placed, Once
        <5> QED BY <5>1, <5>2
      <4>2. \A i, j \in DOMAIN conns'[t] : conns'[t][i] = conns'[t][j] => i = j
        BY <3>4, <3>5, <3>9 DEF Placed, Once, InHand
      <4>3. \A u \in Threads \ {t} : \A i, j \in DOMAIN conns'[u] :
               conns'[u][i] = conns'[u][j] => i = j
        BY <3>5 DEF Placed, Once
      <4> QED BY <4>1, <4>2, <4>3 DEF Once
    <3>11. Apart'
      BY <3>6, <3>7, <3>8, <3>9 DEF Placed, Apart
    <3>12. Somewhere'
      BY <3>6, <3>7, <3>8 DEF Placed, Somewhere
    <3> QED BY <3>10, <3>11, <3>12 DEF Placed
  <2>2. ASSUME NEW t \in Threads, PushConn(t) PROVE Placed'
    <3> DEFINE last == Last(conns[t])  n == Len(conns[t])
    <3>1. conns[t] \in Seq(Conns) /\ n \in Nat /\ DOMAIN conns[t] = 1..n
      BY <2>0
    <3>2. n > 0
      <4>1. todo[t] # <<>> /\ Head(todo[t]) = "put" /\ at[t] = "begin"
        BY <2>2 DEF PushConn, Doing
      <4>2. todo[t] \in Todos /\ Requested(t)
        BY <2>0 DEF PoolInv
      <4>3. Held(todo[t]) > 0
        BY <4>1, <4>2, NextStep, Classes DEF Moves, Held
      <4> QED BY <4>1, <4>2, <4>3 DEF Requested, Pushed
    <3>3. last \in Conns /\ last = conns[t][n] /\ InHand(t, last)
      BY <3>1, <3>2 DEF Last, InHand
    <3>4. /\ m_connList' = Append(m_connList, last)
          /\ conns' = [conns EXCEPT ![t] = Front(conns[t])]
      BY <2>2 DEF PushConn
    <3>5. /\ Front(conns[t]) \in Seq(Conns)
          /\ DOMAIN Front(conns[t]) = 1..(n - 1)
          /\ \A i \in 1..(n - 1) : Front(conns[t])[i] = conns[t][i]
      BY <3>1, <3>2 DEF Front
    <3> HIDE DEF last, n
    <3>6. /\ DOMAIN conns'[t] = 1..(n - 1)
          /\ \A i \in 1..(n - 1) : conns'[t][i] = conns[t][i]
          /\ \A u \in Threads \ {t} : conns'[u] = conns[u]
      BY <2>0, <3>4, <3>5
    <3>7. /\ DOMAIN m_connList = 1..Len(m_connList) /\ Len(m_connList) \in Nat
          /\ DOMAIN m_connList' = 1..(Len(m_connList) + 1)
          /\ \A i \in DOMAIN m_connList : m_connList'[i] = m_connList[i]
          /\ m_connList'[Len(m_connList) + 1] = last
      BY <2>0, <3>3, <3>4
    <3>8. \A c \in Conns : InList(c)' <=> InList(c) \/ c = last
      BY <3>7 DEF InList
    <3>9. \A c \in Conns : InHand(t, c)' <=> InHand(t, c) /\ c # last
      <4> SUFFICES ASSUME NEW c \in Conns
                   PROVE  InHand(t, c)' <=> InHand(t, c) /\ c # last
        OBVIOUS
      <4>1. ASSUME NEW i \in DOMAIN conns'[t], conns'[t][i] = c
            PROVE  InHand(t, c) /\ c # last
        <5>1. i \in 1..n /\ i # n /\ n \in 1..n /\ conns[t][i] = c
          BY <3>1, <3>2, <3>6, <4>1
        <5> QED BY <3>1, <3>3, <5>1 DEF Placed, Once, InHand
      <4>2. ASSUME NEW i \in DOMAIN conns[t], conns[t][i] = c, c # last
            PROVE  InHand(t, c)'
        <5>1. i \in 1..(n - 1)
          BY <3>1, <3>2, <3>3, <4>2
        <5> QED BY <3>6, <4>2, <5>1 DEF InHand
      <4> QED BY <4>1, <4>2 DEF InHand
    <3>10. \A u \in Threads \ {t} : \A c \in Conns : InHand(u, c)' <=> InHand(u, c)
      BY <3>6 DEF InHand
    <3>11. ~InList(last) /\ \A u \in Threads \ {t} : ~InHand(u, last)
      BY <3>3 DEF Placed, Apart
    <3>12. Once'
      <4>1. \A i, j \in DOMAIN m_connList' : m_connList'[i] = m_connList'[j] => i = j
        BY <3>7, <3>11 DEF Placed, Once, InList
      <4>2. \A i, j \in DOMAIN conns'[t] : conns'[t][i] = conns'[t][j] => i = j
        BY <3>1, <3>2, <3>6 DEF Placed, Once
      <4>3. \A u \in Threads \ {t} : \A i, j \in DOMAIN conns'[u] :
               conns'[u][i] = conns'[u][j] => i = j
        BY <3>6 DEF Placed, Once
      <4> QED BY <4>1, <4>2, <4>3 DEF Once
    <3>13. Apart'
      BY <3>8, <3>9, <3>10, <3>11 DEF Placed, Apart
    <3>14. Somewhere'
      BY <3>8, <3>9, <3>10 DEF Placed, Somewhere
    <3> QED BY <3>12, <3>13, <3>14 DEF Placed
  <2>3. ASSUME UNCHANGED <<m_connList, conns>> PROVE Placed'
    BY <2>3 DEF Placed, Once, Apart, Somewhere, InList, InHand
  <2>4. ASSUME NEW t \in Threads, ThreadStep(t), ~PopConn(t), ~PushConn(t)
        PROVE  UNCHANGED <<m_connList, conns>>
    BY <2>4 DEF ThreadStep, Request, Lock, Unlock, TestSize, WaitReserve, PostReserve
  <2>5. UNCHANGED vars => UNCHANGED <<m_connList, conns>>
    BY DEF vars
  <2> QED BY <2>1, <2>2, <2>3, <2>4, <2>5 DEF Next
<1> QED BY <1>1, <1>2, PoolInvariant, PTL DEF Spec

(* No connection is lost and none is shared, whatever gets and puts        *)
(* interleave, and the semaphore counts the list.                          *)
THEOREM ConservedCorrect == Spec => []ConnsConserved
<1>1. PoolInv /\ Placed => ConnsConserved
  <2> SUFFICES ASSUME PoolInv, Placed PROVE ConnsConserved
    OBVIOUS
  <2>1. /\ Len(m_connList) = m_reserve + Cardinality({t \in Threads : at[t] = "pop"})
                                         + Cardinality({t \in Threads : at[t] = "post"})
    BY DEF PoolInv, Listed, HowMany, At
  <2>2. ASSUME NEW c \in Conns
        PROVE  Cardinality({t \in Threads : \E i \in DOMAIN conns[t] : conns[t][i] = c})
                 + Cardinality({i \in {k \in DOMAIN m_connList : TRUE} :
                                   m_connList[i] = c}) = 1
    <3> DEFINE owners == {t \in Threads : \E i \in DOMAIN conns[t] : conns[t][i] = c}
               free == {i \in {k \in DOMAIN m_connList : TRUE} : m_connList[i] = c}
    <3>0. Cardinality({}) = 0 /\ \A x : Cardinality({x}) = 1
      BY FS_EmptySet, FS_Singleton
    <3>1. CASE InList(c)
      <4>1. owners = {}
        BY <3>1 DEF Placed, Apart, InHand
      <4>2. PICK i \in DOMAIN m_connList : m_connList[i] = c
        BY <3>1 DEF InList
      <4>3. free = {i}
        BY <4>2 DEF Placed, Once
      <4>4. Cardinality(owners) = 0
        BY <3>0, <4>1
      <4>5. Cardinality(free) = 1
        BY <3>0, <4>3
      <4> QED BY <4>4, <4>5
    <3>2. CASE ~InList(c)
      <4>1. free = {}
        BY <3>2 DEF InList
      <4>2. PICK t \in Threads : InHand(t, c)
        BY <3>2 DEF Placed, Somewhere
      <4>3. owners = {t}
        BY <4>2 DEF Placed, Apart, InHand
      <4>4. Cardinality(owners) = 1
        BY <3>0, <4>3
      <4>5. Cardinality(free) = 0
        BY <3>0, <4>1
      <4> QED BY <4>4, <4>5
    <3> QED BY <3>1, <3>2
  <2> QED BY <2>1, <2>2 DEF ConnsConserved
<1> QED BY <1>1, PoolInvariant, PlacedInvariant, PTL

-----------------------------------------------------------------------------
(* What is left of a sequence is one of its suffixes. *)
LEMMA SuffixTail ==
    ASSUME NEW S, NEW s \in Seq(S), NEW x \in Suffixes(s), x # <<>>
    PROVE  Tail(x) \in Suffixes(s)
<1>1. PICK l \in 1..Len(s) : x = SubSeq(s, l, Len(s))
  BY DEF Suffixes
<1>2. CASE l = Len(s)
  <2>1. Tail(x) = <<>>
    BY <1>1, <1>2
  <2> QED BY <2>1 DEF Suffixes
<1>3. CASE l # Len(s)
  <2>1. l + 1 \in 1..Len(s) /\ Tail(x) = SubSeq(s, l + 1, Len(s))
    BY <1>1, <1>3
  <2> QED BY <2>1 DEF Suffixes
<1> QED BY <1>2, <1>3

(* A sequence that is not empty is a suffix of itself. *)
LEMMA SuffixWhole ==
    ASSUME NEW S, NEW s \in Seq(S), s # <<>>
    PROVE  s \in Suffixes(s)
<1>1. 1 \in 1..Len(s) /\ s = SubSeq(s, 1, Len(s))
  OBVIOUS
<1> QED BY <1>1 DEF Suffixes

(* The requests are sequences of synchronisation steps. *)
LEMMA ScriptsAreSeqs ==
    ASSUME NEW t \in Threads, NEW s \in Scripts(t)
    PROVE  s \in Seq({"lock", "unlock", "get", "put"}) /\ s # <<>>
<1>1. CASE s = Memory
  BY <1>1 DEF Memory
<1>2. CASE s = Locked
  BY <1>2 DEF Locked
<1>3. CASE s = Nested
  BY <1>3 DEF Nested
<1>4. CASE s = Ready
  BY <1>4 DEF Ready
<1>5. CASE s = Avatar
  BY <1>5 DEF Avatar
<1> QED BY <1>1, <1>2, <1>3, <1>4, <1>5 DEF Scripts

(* A thread has the rest of one of its own requests before it. *)
Rest == \A t \in Threads : todo[t] \in UNION {Suffixes(s) : s \in Scripts(t)}

(* The pool's variables keep their types: a thread has the rest of one of  *)
(* its own requests before it, and never more than two connections.        *)
THEOREM TypeCorrect == Spec => []TypeOK
<1>1. Init => Rest
  <2> SUFFICES ASSUME Init, NEW t \in Threads
               PROVE  todo[t] \in UNION {Suffixes(s) : s \in Scripts(t)}
    BY DEF Rest
  <2>1. todo[t] = <<>> /\ Memory \in Scripts(t) /\ <<>> \in Suffixes(Memory)
    BY DEF Init, Scripts, Suffixes
  <2> QED BY <2>1
<1>2. PoolInv /\ Rest /\ [Next]_vars => Rest'
  <2> SUFFICES ASSUME PoolInv, Rest, [Next]_vars PROVE Rest'
    OBVIOUS
  <2>0. todo \in [Threads -> Todos]
    BY DEF PoolInv, Types
  <2>1. ASSUME NEW t \in Threads, Request(t) PROVE Rest'
    <3>1. PICK s \in Scripts(t) : todo' = [todo EXCEPT ![t] = s]
      BY <2>1 DEF Request
    <3>2. s \in Suffixes(s)
      BY ScriptsAreSeqs, SuffixWhole
    <3>3. todo'[t] = s /\ \A u \in Threads \ {t} : todo'[u] = todo[u]
      BY <2>0, <3>1
    <3> QED BY <3>2, <3>3 DEF Rest
  <2>2. ASSUME NEW t \in Threads, StepDone(t), todo[t] # <<>> PROVE Rest'
    <3>1. todo'[t] = Tail(todo[t]) /\ \A u \in Threads \ {t} : todo'[u] = todo[u]
      BY <2>0, <2>2 DEF StepDone
    <3>2. PICK s \in Scripts(t) : todo[t] \in Suffixes(s)
      BY DEF Rest
    <3>3. Tail(todo[t]) \in Suffixes(s)
      BY <2>2, <3>2, ScriptsAreSeqs, SuffixTail
    <3> QED BY <3>1, <3>3 DEF Rest
  <2>3. CASE UNCHANGED todo
    BY <2>3 DEF Rest
  <2>4. ASSUME NEW t \in Threads, ThreadStep(t)
        PROVE  Request(t) \/ (StepDone(t) /\ todo[t] # <<>>) \/ UNCHANGED todo
    BY <2>4 DEF ThreadStep, Lock, Unlock, TestSize, WaitReserve, PopConn, PushConn,
                PostReserve, Doing
  <2> QED BY <2>1, <2>2, <2>3, <2>4 DEF Next, vars
<1>3. PoolInv /\ Rest => TypeOK
  <2> SUFFICES ASSUME PoolInv, Rest PROVE TypeOK
    OBVIOUS
  <2>1. ASSUME NEW t \in Threads PROVE Len(conns[t]) <= 2
    <3>1. Len(conns[t]) \in Nat /\ Len(conns[t]) + Pushed(t) = Held(todo[t])
      BY DEF PoolInv, Types, Requested
    <3>2. Held(todo[t]) <= 2 /\ Pushed(t) \in 0..1
      BY DEF Held, Pushed
    <3> QED BY <3>1, <3>2
  <2> QED BY <2>1 DEF PoolInv, Types, Places, Rest, TypeOK
<1> QED BY <1>1, <1>2, <1>3, PoolInvariant, PTL DEF Spec
=============================================================================
