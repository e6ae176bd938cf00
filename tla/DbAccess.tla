------------------------------ MODULE DbAccess ------------------------------
(***************************************************************************)
(* The database connection pool (src/sqlconnpool) under the requests that  *)
(* use it (src/request): which handlers take connections, how many at a    *)
(* time, and how that nests with the global mutex `lock` of                *)
(* request_process.cpp.                                                    *)
(*                                                                         *)
(* A request is the sequence of its synchronisation steps.  What it reads  *)
(* and writes in between is the business of ChatService.  get_connection   *)
(* has three steps: the unlocked test of the list's size, the wait on      *)
(* m_reserve, and the section under m_lock; release_connection has two.    *)
(* The reconnection of a broken connection (lines 39-59) keeps the handle  *)
(* or ends the process, and is left out.                                   *)
(***************************************************************************)
EXTENDS Integers, Sequences, SequencesExt, FiniteSets

CONSTANTS Workers, Main,
          Conns,     \* the connections made by init, MaxConn of them
          NoThread   \* the owner of `lock` while it is free

ASSUME DbAssumption == /\ IsFiniteSet(Workers) /\ IsFiniteSet(Conns)
                       /\ Main \notin Workers
                       /\ NoThread \notin Workers \cup {Main}

Threads == Workers \cup {Main}

(* The handlers, by the order in which they lock and take connections.     *)
Memory == <<"lock", "unlock">>                 \* get_friend_items, voice, udp
Locked == <<"lock", "get", "put", "unlock">>   \* login, regis, logout,
                                               \* add_friend, send_message
Nested == <<"lock", "get", "get", "put", "put", "unlock">>
                                    \* reply_friend_request, delete_friend
Ready  == <<"get", "lock", "unlock", "put">>   \* client_ready
Avatar == <<"get", "put">>          \* change_avatar, each offline friend

(* The event loop runs logout (close_conn(true)) and handleUdpPack itself. *)
Scripts(t) == IF t = Main THEN {Memory, Locked}
                          ELSE {Memory, Locked, Nested, Ready, Avatar}

VARIABLES m_connList,  \* the free connections
          m_reserve,   \* the semaphore that counts them
          lock,        \* the owner of the global mutex
          todo,        \* the steps each thread has left in its request
          at,          \* how far it is inside its current get or put
          conns        \* the connections it holds, the innermost last

vars == <<m_connList, m_reserve, lock, todo, at, conns>>

Init == /\ m_connList \in SetToSeqs(Conns)
        /\ m_reserve = Cardinality(Conns)
        /\ lock = NoThread
        /\ todo = [t \in Threads |-> <<>>]
        /\ at = [t \in Threads |-> "begin"]
        /\ conns = [t \in Threads |-> <<>>]

(* get_connection has returned NULL and the handler queries with it: the   *)
(* server is gone.                                                         *)
Crashed == \E t \in Threads : at[t] = "null"

Doing(t, step, place) == /\ ~Crashed
                         /\ todo[t] # <<>> /\ Head(todo[t]) = step
                         /\ at[t] = place

StepDone(t) == todo' = [todo EXCEPT ![t] = Tail(@)]

Request(t) == /\ ~Crashed
              /\ todo[t] = <<>>
              /\ \E s \in Scripts(t) : todo' = [todo EXCEPT ![t] = s]
              /\ UNCHANGED <<m_connList, m_reserve, lock, at, conns>>

Lock(t) == /\ Doing(t, "lock", "begin")
           /\ lock = NoThread
           /\ lock' = t
           /\ StepDone(t)
           /\ UNCHANGED <<m_connList, m_reserve, at, conns>>

Unlock(t) == /\ Doing(t, "unlock", "begin")
             /\ lock' = NoThread
             /\ StepDone(t)
             /\ UNCHANGED <<m_connList, m_reserve, at, conns>>

(* get_connection: 0 == m_connList.size(), without m_lock. *)
TestSize(t) == /\ Doing(t, "get", "begin")
               /\ at' = [at EXCEPT ![t] = IF m_connList = <<>> THEN "null"
                                                               ELSE "wait"]
               /\ UNCHANGED <<m_connList, m_reserve, lock, todo, conns>>

(* Mutant of WaitReserve: the semaphore is not waited for. *)
WaitSkipped(t) == /\ Doing(t, "get", "wait")
                  /\ at' = [at EXCEPT ![t] = "pop"]
                  /\ UNCHANGED <<m_connList, m_reserve, lock, todo, conns>>

WaitReserve(t) == /\ Doing(t, "get", "wait")
                  /\ m_reserve > 0
                  /\ m_reserve' = m_reserve - 1
                  /\ at' = [at EXCEPT ![t] = "pop"]
                  /\ UNCHANGED <<m_connList, lock, todo, conns>>

(* Mutant of PopConn: front() without pop_front(). *)
PopKept(t) == /\ Doing(t, "get", "pop")
              /\ conns' = [conns EXCEPT ![t] = Append(@, Head(m_connList))]
              /\ at' = [at EXCEPT ![t] = "begin"]
              /\ StepDone(t)
              /\ UNCHANGED <<m_connList, m_reserve, lock>>

PopConn(t) == /\ Doing(t, "get", "pop")
              /\ conns' = [conns EXCEPT ![t] = Append(@, Head(m_connList))]
              /\ m_connList' = Tail(m_connList)
              /\ at' = [at EXCEPT ![t] = "begin"]
              /\ StepDone(t)
              /\ UNCHANGED <<m_reserve, lock>>

(* Mutant of PushConn: the handle outlives its release. *)
PushKeepsHandle(t) == /\ Doing(t, "put", "begin")
                      /\ m_connList' = Append(m_connList, Last(conns[t]))
                      /\ at' = [at EXCEPT ![t] = "post"]
                      /\ UNCHANGED <<m_reserve, lock, todo, conns>>

(* release_connection, from the destructor of the innermost connectionRAII. *)
PushConn(t) == /\ Doing(t, "put", "begin")
               /\ m_connList' = Append(m_connList, Last(conns[t]))
               /\ conns' = [conns EXCEPT ![t] = Front(@)]
               /\ at' = [at EXCEPT ![t] = "post"]
               /\ UNCHANGED <<m_reserve, lock, todo>>

(* Mutant of PostReserve: a released connection is not counted. *)
PostForgotten(t) == /\ Doing(t, "put", "post")
                    /\ at' = [at EXCEPT ![t] = "begin"]
                    /\ StepDone(t)
                    /\ UNCHANGED <<m_connList, m_reserve, lock, conns>>

PostReserve(t) == /\ Doing(t, "put", "post")
                  /\ m_reserve' = m_reserve + 1
                  /\ at' = [at EXCEPT ![t] = "begin"]
                  /\ StepDone(t)
                  /\ UNCHANGED <<m_connList, lock, conns>>

ThreadStep(t) == \/ Request(t) \/ Lock(t) \/ Unlock(t)
                 \/ TestSize(t) \/ WaitReserve(t) \/ PopConn(t)
                 \/ PushConn(t) \/ PostReserve(t)

Next == \E t \in Threads : ThreadStep(t)

Spec == Init /\ [][Next]_vars

-----------------------------------------------------------------------------
TypeOK ==
    /\ m_connList \in Seq(Conns)
    /\ m_reserve \in Nat
    /\ lock \in Threads \cup {NoThread}
    /\ \A t \in Threads :
          /\ todo[t] \in UNION {Suffixes(s) : s \in Scripts(t)}
          /\ at[t] \in {"begin", "null", "wait", "pop", "post"}
          /\ conns[t] \in Seq(Conns) /\ Len(conns[t]) <= 2

(* No connection is lost and none is shared: each one is either once in    *)
(* the free list or once in the hands of one thread, and the semaphore,    *)
(* with the threads between its change and the list's, counts the list.    *)
ConnsConserved ==
    LET InPlace(p) == Cardinality({t \in Threads : at[t] = p})
        Owners(c) == {t \in Threads : \E i \in DOMAIN conns[t] : conns[t][i] = c}
        Free == {i \in DOMAIN m_connList : TRUE}
    IN /\ \A c \in Conns :
             Cardinality(Owners(c))
               + Cardinality({i \in Free : m_connList[i] = c}) = 1
       /\ Len(m_connList) = m_reserve + InPlace("pop") + InPlace("post")

(* A handler that asks for a connection gets one at once: it is not given  *)
(* NULL, and it does not wait on m_reserve - which matters most for one    *)
(* that holds the global mutex, because client_ready waits for that mutex  *)
(* with a connection in hand.  Holds with more connections than workers,   *)
(* since only the mutex's owner ever holds two and the event loop holds    *)
(* one only with the mutex.                                                *)
ConnectionAtOnce ==
    \A t \in Threads : /\ at[t] # "null"
                       /\ at[t] = "wait" => m_reserve > 0
=============================================================================
