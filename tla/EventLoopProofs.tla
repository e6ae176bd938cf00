-------------------------- MODULE EventLoopProofs --------------------------
(***************************************************************************)
(* Theorems about EventLoop, for every set of descriptors and of timers,   *)
(* every time limit and any number of inputs; and about VoiceChat, whose   *)
(* packets the loop passes on, for every set of users, of friendships and  *)
(* of ids.  MCVoiceChat stops where a draw repeats an id; here those       *)
(* states are included, and the theorems say what holds in them as well.   *)
(***************************************************************************)
EXTENDS EventLoop, VoiceChat, TLAPS

(* The types, with what bounds connecting: each client that connects is    *)
(* counted, and the loop accepts only if there was one to be accepted.     *)
KernelOK == /\ open \subseteq Fds /\ armed \in [Fds -> {"none", "in", "out"}]
            /\ data \subseteq open /\ hup \subseteq open
InputsOK == /\ connecting \in Nat /\ inputs \in 0..MaxInputs
            /\ connecting <= inputs
            /\ <<"listenfd", "in">> \in batch => connecting > 0
TimersOK == /\ m_sockfd \in [Fds -> Fds \cup {Closed}]
            /\ users_timer \in [Fds -> Timers \cup {NULL}]
            /\ left \in [Timers -> -1..Rounds]
            /\ user_data \in [Timers -> Fds \cup {NULL}]
LoopOK == /\ alarm \in BOOLEAN /\ pipe \subseteq {"SIGALRM", "SIGTERM"}
          /\ timeout \in BOOLEAN /\ stop_server \in BOOLEAN
          /\ main \in {"wait", "batch"}
          /\ batch \subseteq (Fds \cup {"listenfd", "pipefd"})
                             \X {"in", "out", "hup"}
          /\ raced \in BOOLEAN
Places == {"none", "test", "remove", "forget", "done"}
WorkersOK == /\ task \subseteq Fds
             /\ closing \in [Fds -> [to : Fds \cup {NULL}, at : Places]]
Types == KernelOK /\ InputsOK /\ TimersOK /\ LoopOK /\ WorkersOK

(* The steps of the workers. *)
LEMMA WorkerTypes ==
    ASSUME Types, NEW c \in Fds, Worker(c)
    PROVE  Types'
<1> USE LoopAssumption
<1>0. UNCHANGED <<connecting, signals, loop, timers, raced>>
  BY DEF Worker, QueueAnswer, process, reconnect, CloseTest, CloseRemove,
         CloseForget, CloseDone, outside
<1>1. LoopOK'
  BY <1>0 DEF Types, LoopOK, signals, loop
<1>2. inputs' = inputs \/ (inputs < MaxInputs /\ inputs' = inputs + 1)
  <2>1. CASE QueueAnswer(c)
    BY <2>1 DEF QueueAnswer, Input
  <2>2. ASSUME process(c) \/ CloseTest(c) \/ CloseRemove(c) PROVE inputs' = inputs
    BY <2>2 DEF process, CloseTest, CloseRemove, outside
  <2>3. ASSUME CloseForget(c) \/ CloseDone(c) \/ \E d \in Fds : reconnect(c, d)
        PROVE  inputs' = inputs
    BY <2>3 DEF CloseForget, CloseDone, reconnect, outside
  <2> QED BY <2>1, <2>2, <2>3 DEF Worker
<1>3. InputsOK'
  BY <1>0, <1>2 DEF Types, InputsOK, loop
<1>4. TimersOK'
  <2>1. m_sockfd' \in [Fds -> Fds \cup {Closed}]
    BY DEF Types, TimersOK, Worker, QueueAnswer, process, reconnect, CloseTest,
           CloseRemove, CloseForget, CloseDone
  <2> QED BY <1>0, <2>1 DEF Types, TimersOK, timers
<1>5. KernelOK'
  <2>1. CASE UNCHANGED kernel
    BY <2>1 DEF Types, KernelOK, kernel
  <2>2. CASE QueueAnswer(c)
    BY <2>2 DEF QueueAnswer, Types, KernelOK
  <2>3. CASE process(c) \/ CloseDone(c)
    BY <2>3 DEF process, CloseDone, Rearm, Types, KernelOK
  <2>4. CASE CloseRemove(c)
    BY <2>4 DEF CloseRemove, Remove, Types, KernelOK, kernel
  <2> QED BY <2>1, <2>2, <2>3, <2>4 DEF Worker, reconnect, CloseTest, CloseForget
<1>6. WorkersOK'
  <2> USE DEF Types, WorkersOK, Places
  <2>1. CASE QueueAnswer(c)
    BY <2>1 DEF QueueAnswer, workers
  <2>2. CASE process(c)
    BY <2>2 DEF process
  <2>3. ASSUME NEW d \in Fds, reconnect(c, d) PROVE WorkersOK'
    BY <2>3 DEF reconnect
  <2>4. CASE CloseTest(c)
    BY <2>4 DEF CloseTest
  <2>5. CASE CloseRemove(c)
    BY <2>5 DEF CloseRemove
  <2>6. CASE CloseForget(c)
    BY <2>6 DEF CloseForget
  <2>7. CASE CloseDone(c)
    BY <2>7 DEF CloseDone, NotClosing
  <2> QED BY <2>1, <2>2, <2>3, <2>4, <2>5, <2>6, <2>7 DEF Worker
<1> QED BY <1>1, <1>3, <1>4, <1>5, <1>6 DEF Types

(* The new timer. *)
LEMMA FreshIsFree ==
    ASSUME NEW gone, Live \ gone # Timers
    PROVE  Fresh(gone) \in Timers /\ Fresh(gone) \notin Live \ gone
<1>1. \E t \in Timers : t \notin Live \ gone
  BY DEF Live
<1> QED BY <1>1 DEF Fresh

(* The timer put back or given to a new connection. *)
LEMMA AddTimerTypes ==
    ASSUME Types, NEW c \in Fds, NEW gone, add_timer(c, gone)
    PROVE  /\ users_timer' \in [Fds -> Timers \cup {NULL}]
           /\ left' \in [Timers -> -1..Rounds]
           /\ user_data' \in [Timers -> Fds \cup {NULL}]
<1>1. Fresh(gone) \in Timers
  BY FreshIsFree DEF add_timer
<1> QED BY <1>1, LoopAssumption DEF add_timer, Types, TimersOK, Free

(* The steps of the loop. *)
LEMMA LoopTypes ==
    ASSUME Types, EventLoop
    PROVE  Types'
<1> USE LoopAssumption
<1>0. WorkersOK'
  <2>1. closing' = closing /\ (task' = task \/ \E c \in Fds : task' = task \cup {c})
    BY DEF EventLoop, EpollWait, AcceptFails, Signal, Tick, NoTick, Accept, ReadEvent,
           WriteEvent, CloseEvent, workers
  <2> QED BY <2>1 DEF Types, WorkersOK
<1>1. CASE EpollWait
  <2>1. batch' \subseteq (Fds \cup {"listenfd", "pipefd"}) \X {"in", "out", "hup"}
    <3>1. \A c \in Ready : c \in Fds /\ Event(c) \in {"in", "out", "hup"}
      BY DEF Ready, Event, Types, KernelOK
    <3> QED BY <1>1, <3>1 DEF EpollWait, Events
  <2>2. <<"listenfd", "in">> \in batch' => connecting > 0
    <3>1. "listenfd" \notin Ready
      BY DEF Ready, Types, KernelOK
    <3> QED BY <1>1, <3>1 DEF EpollWait, Events
  <2>3. InputsOK' /\ LoopOK'
    BY <1>1, <2>1, <2>2 DEF EpollWait, Types, InputsOK, LoopOK, outside, signals
  <2>4. KernelOK' /\ TimersOK'
    BY <1>1 DEF EpollWait, Types, KernelOK, TimersOK, timers
  <2> QED BY <1>0, <2>3, <2>4 DEF Types
<1>2. CASE AcceptFails \/ Signal
  <2>1. KernelOK' /\ TimersOK'
    BY <1>2 DEF AcceptFails, Signal, Types, KernelOK, TimersOK, kernel, timers
  <2>2. InputsOK' /\ LoopOK'
    BY <1>2 DEF AcceptFails, Signal, Take, Types, InputsOK, LoopOK, outside, signals
  <2> QED BY <1>0, <2>1, <2>2 DEF Types
<1>3. CASE Tick \/ NoTick
  <2>1. KernelOK'
    BY <1>3 DEF Tick, NoTick, Close, Types, KernelOK, kernel
  <2>2. TimersOK'
    <3>1. \A t \in Live : left[t] - 1 \in -1..Rounds
      BY DEF Live, Free, Types, TimersOK
    <3>2. CASE Tick
      BY <3>1, <3>2 DEF Tick, Close, Types, TimersOK, Free
    <3>3. CASE NoTick
      BY <3>3 DEF NoTick, Types, TimersOK, timers
    <3> QED BY <1>3, <3>2, <3>3
  <2>3. InputsOK' /\ LoopOK'
    BY <1>3 DEF Tick, NoTick, Types, InputsOK, LoopOK, outside, signals
  <2> QED BY <1>0, <2>1, <2>2, <2>3 DEF Types
<1>4. ASSUME NEW c \in Fds, Accept(c) PROVE Types'
  <2>1. KernelOK'
    BY <1>4 DEF Accept, Types, KernelOK
  <2>2. m_sockfd' \in [Fds -> Fds \cup {Closed}]
    BY <1>4 DEF Accept, Types, TimersOK
  <2>3. TimersOK'
    BY <1>4, <2>2, AddTimerTypes DEF Accept, TimersOK
  <2>4. InputsOK'
    BY <1>4 DEF Accept, Take, Types, InputsOK
  <2>5. LoopOK'
    <3>1. raced' \in BOOLEAN
      BY <1>4 DEF Accept
    <3> QED BY <1>4, <3>1 DEF Accept, Take, Types, LoopOK, signals
  <2> QED BY <1>0, <2>1, <2>3, <2>4, <2>5 DEF Types
<1>5. ASSUME NEW c \in Fds, ReadEvent(c) \/ WriteEvent(c) PROVE Types'
  <2>1. KernelOK'
    BY <1>5 DEF ReadEvent, WriteEvent, Types, KernelOK
  <2>2. TimersOK'
    <3>1. add_timer(c, {users_timer[c]}) /\ UNCHANGED m_sockfd
      BY <1>5 DEF ReadEvent, WriteEvent
    <3> QED BY <3>1, AddTimerTypes DEF Types, TimersOK
  <2>3. InputsOK'
    BY <1>5 DEF ReadEvent, WriteEvent, Take, Input, Types, InputsOK, outside
  <2>4. LoopOK'
    BY <1>5 DEF ReadEvent, WriteEvent, Take, Types, LoopOK, signals
  <2> QED BY <1>0, <2>1, <2>2, <2>3, <2>4 DEF Types
<1>6. ASSUME NEW c \in Fds, CloseEvent(c) PROVE Types'
  <2>1. KernelOK'
    BY <1>6 DEF CloseEvent, Close, Types, KernelOK
  <2>2. TimersOK'
    <3>1. m_sockfd' \in [Fds -> Fds \cup {Closed}]
      <4>1. Close({c})
        BY <1>6 DEF CloseEvent
      <4>2. \A d \in Fds : m_sockfd[d] \in Fds \cup {Closed}
        BY DEF Types, TimersOK
      <4> QED BY <4>1, <4>2 DEF Close
    <3>2. left' \in [Timers -> -1..Rounds]
      <4>1. Free \in -1..Rounds
        BY DEF Free
      <4> HIDE DEF Free
      <4> QED BY <1>6, <4>1 DEF CloseEvent, Types, TimersOK
    <3> QED BY <1>6, <3>1, <3>2 DEF CloseEvent, Types, TimersOK
  <2>3. InputsOK' /\ LoopOK'
    BY <1>6 DEF CloseEvent, Take, Types, InputsOK, LoopOK, outside, signals
  <2> QED BY <1>0, <2>1, <2>2, <2>3 DEF Types
<1> QED BY <1>1, <1>2, <1>3, <1>4, <1>5, <1>6 DEF EventLoop

(* The loop, its timers and its signals keep their types. *)
LEMMA TypesInvariant == Spec => []Types
<1> USE LoopAssumption
<1>1. Init => Types
  <2> SUFFICES ASSUME Init PROVE Types
    OBVIOUS
  <2>0. InputsOK /\ LoopOK
    <3>1. InputsOK
      BY DEF Init, InputsOK
    <3>2. LoopOK
      BY DEF Init, LoopOK
    <3> QED BY <3>1, <3>2
  <2>1. KernelOK
    BY DEF Init, KernelOK
  <2>2. TimersOK
    <3>1. Free \in -1..Rounds
      BY DEF Free
    <3> HIDE DEF Free
    <3> QED BY <3>1 DEF Init, TimersOK
  <2>3. WorkersOK
    BY DEF Init, WorkersOK, Places, NotClosing
  <2> QED BY <2>0, <2>1, <2>2, <2>3 DEF Types
<1>2. Types /\ [Next]_vars => Types'
  <2> SUFFICES ASSUME Types, [Next]_vars PROVE Types'
    OBVIOUS
  <2>1. CASE Connect
    <3>1. InputsOK'
      BY <2>1 DEF Connect, Input, Types, InputsOK, loop
    <3>2. KernelOK' /\ LoopOK'
      BY <2>1 DEF Connect, Types, KernelOK, LoopOK, kernel, loop, signals
    <3>3. TimersOK' /\ WorkersOK'
      BY <2>1 DEF Connect, Types, TimersOK, WorkersOK, timers, workers
    <3> QED BY <3>1, <3>2, <3>3 DEF Types
  <2>2. CASE SIGALRM \/ SIGTERM
    <3>1. LoopOK'
      BY <2>2 DEF SIGALRM, SIGTERM, Types, LoopOK, loop
    <3>2. InputsOK' /\ KernelOK'
      BY <2>2 DEF SIGALRM, SIGTERM, Types, InputsOK, KernelOK, kernel, outside, loop
    <3>3. TimersOK' /\ WorkersOK'
      BY <2>2 DEF SIGALRM, SIGTERM, Types, TimersOK, WorkersOK, timers, workers
    <3> QED BY <3>1, <3>2, <3>3 DEF Types
  <2>3. ASSUME NEW c \in Fds, Arrive(c) \/ HangUp(c) PROVE Types'
    <3>1. InputsOK'
      BY <2>3 DEF Arrive, HangUp, Input, Types, InputsOK, loop, outside
    <3>2. KernelOK'
      BY <2>3 DEF Arrive, HangUp, Types, KernelOK
    <3>3. LoopOK'
      BY <2>3 DEF Arrive, HangUp, Types, LoopOK, signals, loop
    <3>4. TimersOK' /\ WorkersOK'
      BY <2>3 DEF Arrive, HangUp, Types, TimersOK, WorkersOK, timers, workers
    <3> QED BY <3>1, <3>2, <3>3, <3>4 DEF Types
  <2>4. CASE UNCHANGED vars
    BY <2>4 DEF vars, Types, KernelOK, InputsOK, TimersOK, LoopOK, WorkersOK
  <2> QED BY <2>1, <2>2, <2>3, <2>4, WorkerTypes, LoopTypes DEF Next
<1> QED BY <1>1, <1>2, PTL DEF Spec

(* The variables of the loop keep their types, with connecting bounded by  *)
(* the clients that did connect and no timer further off than Rounds.      *)
THEOREM TypeCorrect == Spec => []TypeOK
<1>1. Types => TypeOK
  <2> SUFFICES ASSUME Types PROVE TypeOK
    OBVIOUS
  <2>1. connecting \in 0..MaxInputs
    BY LoopAssumption DEF Types, InputsOK
  <2> QED
    BY <2>1 DEF Types, KernelOK, InputsOK, TimersOK, LoopOK, WorkersOK, Places, TypeOK
<1> QED BY <1>1, TypesInvariant, PTL

-----------------------------------------------------------------------------
(* The next alarm is always under way, and only one: the wheel neither     *)
(* stops nor turns twice for one interval.                                 *)
THEOREM AlarmCorrect == Spec => []AlarmChain
<1>1. Init => AlarmChain
  BY DEF Init, AlarmChain
<1>2. Types /\ AlarmChain /\ [Next]_vars => AlarmChain'
  <2> SUFFICES ASSUME Types, AlarmChain, [Next]_vars PROVE AlarmChain'
    OBVIOUS
  <2>1. CASE UNCHANGED <<alarm, pipe, timeout>>
    BY <2>1 DEF AlarmChain
  <2>2. CASE SIGALRM
    BY <2>2 DEF SIGALRM, AlarmChain
  <2>3. CASE SIGTERM
    BY <2>3 DEF SIGTERM, AlarmChain
  <2>4. CASE Signal
    BY <2>4 DEF Signal, AlarmChain
  <2>5. CASE Tick
    BY <2>5 DEF Tick, AlarmChain
  <2>6. ASSUME NEW c \in Fds, Worker(c) PROVE UNCHANGED <<alarm, pipe, timeout>>
    BY <2>6 DEF Worker, QueueAnswer, process, reconnect, CloseTest, CloseRemove,
                CloseForget, CloseDone, signals
  <2>7. ASSUME NEW c \in Fds, \/ Accept(c) \/ CloseEvent(c)
                               \/ ReadEvent(c) \/ WriteEvent(c)
        PROVE  UNCHANGED <<alarm, pipe, timeout>>
    BY <2>7 DEF Accept, CloseEvent, ReadEvent, WriteEvent, signals
  <2>8. ASSUME EpollWait \/ AcceptFails \/ NoTick
        PROVE  UNCHANGED <<alarm, pipe, timeout>>
    BY <2>8 DEF EpollWait, AcceptFails, NoTick, signals
  <2> QED
    BY <2>1, <2>2, <2>3, <2>4, <2>5, <2>6, <2>7, <2>8
    DEF Next, EventLoop, Connect, Arrive, HangUp, vars, signals
<1> QED BY <1>1, <1>2, TypesInvariant, PTL DEF Spec

-----------------------------------------------------------------------------
(* The timer of c is allocated, and is c's. *)
Mine(c) == users_timer[c] \in Live /\ user_data[users_timer[c]] = c
Pending(c) == \E ev \in {"in", "out", "hup"} : <<c, ev>> \in batch

(* As long as no descriptor was given out while a worker was closing it:   *)
(* a connection that is open, or has an event the loop will handle, has a  *)
(* timer of its own, and one event at most; only objects whose m_sockfd is *)
(* set have an open descriptor, and none that a worker has removed.        *)
Owned == \A c \in Fds : m_sockfd[c] = c \/ Pending(c) => Mine(c)
Bound == \A c \in open : m_sockfd[c] = c
Removed == \A w \in Fds : closing[w].at = "forget" => closing[w].to \notin open
OneEvent == \A c \in Fds : \A e, f \in {"in", "out", "hup"} :
                <<c, e>> \in batch /\ <<c, f>> \in batch => e = f
TimerInv == Owned /\ Bound /\ Removed /\ OneEvent

(* A new timer for c leaves the timers of the others alone. *)
LEMMA AddTimerOwned ==
    ASSUME Types, NEW c \in Fds, NEW gone, add_timer(c, gone),
           \A t \in gone : \A d \in Fds \ {c} : Mine(d) => t # users_timer[d]
    PROVE  /\ Mine(c)'
           /\ \A d \in Fds \ {c} : Mine(d) => Mine(d)'
<1> DEFINE new == Fresh(gone)
<1>1. new \in Timers /\ new \notin Live \ gone
  BY FreshIsFree DEF add_timer
<1>2. /\ users_timer' = [users_timer EXCEPT ![c] = new]
      /\ left' = [x \in Timers |-> IF x = new THEN Rounds
                                   ELSE IF x \in gone THEN Free ELSE left[x]]
      /\ user_data' = [user_data EXCEPT ![new] = c]
  BY DEF add_timer
<1> HIDE DEF new
<1>3. /\ users_timer'[c] = new /\ user_data'[new] = c
      /\ \A d \in Fds \ {c} : users_timer'[d] = users_timer[d]
      /\ \A x \in Timers : x # new => user_data'[x] = user_data[x]
  BY <1>1, <1>2 DEF Types, TimersOK
<1>4. new \in Live'
  <2>1. left'[new] = Rounds
    BY <1>1, <1>2
  <2> QED BY <1>1, <2>1, LoopAssumption DEF Live, Free
<1>5. \A x \in Live : x \notin gone /\ x # new => x \in Live'
  BY <1>2 DEF Live
<1>6. ASSUME NEW d \in Fds \ {c}, Mine(d) PROVE Mine(d)'
  <2>1. users_timer[d] \in Live /\ users_timer[d] \notin gone
    BY <1>6 DEF Mine
  <2>2. users_timer[d] # new /\ users_timer[d] \in Timers
    BY <1>1, <2>1 DEF Live
  <2> QED BY <1>3, <1>5, <1>6, <2>1, <2>2 DEF Mine
<1> QED BY <1>3, <1>4, <1>6 DEF Mine

(* It is inductive as long as no descriptor is raced for. *)
LEMMA TimerInvariant == Spec => [](~raced => TimerInv)
<1> USE LoopAssumption
<1>1. Init => TimerInv
  <2> SUFFICES ASSUME Init PROVE TimerInv
    OBVIOUS
  <2>1. \A c \in Fds : m_sockfd[c] # c /\ ~Pending(c)
    BY DEF Init, Pending
  <2>2. \A w \in Fds : closing[w].at = "none"
    BY DEF Init, NotClosing
  <2> QED BY <2>1, <2>2 DEF Init, TimerInv, Owned, Bound, Removed, OneEvent
<1>2. Types /\ TimerInv /\ ~raced /\ ~raced' /\ [Next]_vars => TimerInv'
  <2> SUFFICES ASSUME Types, TimerInv, ~raced', [Next]_vars PROVE TimerInv'
    OBVIOUS
  \* Which steps touch which of the four.
  <2>a. ASSUME UNCHANGED <<m_sockfd, timers, batch>> PROVE Owned'
    BY <2>a DEF TimerInv, Owned, Pending, Mine, Live, timers
  <2>b. ASSUME UNCHANGED batch PROVE OneEvent'
    BY <2>b DEF TimerInv, OneEvent
  <2>c. ASSUME batch' \subseteq batch PROVE OneEvent'
    BY <2>c DEF TimerInv, OneEvent
  <2>d. ASSUME UNCHANGED <<open, m_sockfd, closing>> PROVE Bound' /\ Removed'
    BY <2>d DEF TimerInv, Bound, Removed
  <2>1. CASE \/ Connect \/ SIGALRM \/ SIGTERM
             \/ \E c \in Fds : Arrive(c) \/ HangUp(c) \/ QueueAnswer(c)
    <3>1. UNCHANGED <<open, m_sockfd, closing, timers, batch>>
      BY <2>1 DEF Connect, SIGALRM, SIGTERM, Arrive, HangUp, QueueAnswer, kernel,
                  loop, workers
    <3> QED BY <2>a, <2>b, <2>d, <3>1 DEF TimerInv
  <2>2. ASSUME NEW c \in Fds,
               \/ process(c) \/ CloseTest(c) \/ CloseDone(c)
               \/ \E d \in Fds : reconnect(c, d)
        PROVE  TimerInv'
    <3>1. UNCHANGED <<open, m_sockfd, timers, batch>>
      BY <2>2 DEF process, CloseTest, CloseDone, reconnect, kernel, loop
    <3>2. \A w \in Fds : closing'[w].at = "forget" => closing'[w] = closing[w]
      BY <2>2 DEF process, CloseTest, CloseDone, reconnect, NotClosing, Types, WorkersOK
    <3>3. Bound' /\ Removed'
      BY <3>1, <3>2 DEF TimerInv, Bound, Removed
    <3> QED BY <2>a, <2>b, <3>1, <3>3 DEF TimerInv
  <2>3. ASSUME NEW c \in Fds, CloseRemove(c) PROVE TimerInv'
    <3> DEFINE d == closing[c].to
    <3>1. UNCHANGED <<m_sockfd, timers, batch>>
      BY <2>3 DEF CloseRemove, loop
    <3>2. open' \subseteq open /\ d \notin open'
      BY <2>3 DEF CloseRemove, Remove, kernel, TimerInv, Bound
    <3>3. \A w \in Fds : closing'[w].at = "forget" => closing'[w].to = closing[w].to
                                          /\ (w = c \/ closing'[w] = closing[w])
      BY <2>3 DEF CloseRemove, Types, WorkersOK
    <3> HIDE DEF d
    <3>4. Bound'
      BY <3>1, <3>2 DEF TimerInv, Bound
    <3>5. Removed'
      BY <3>2, <3>3 DEF TimerInv, Removed, d
    <3> QED BY <2>a, <2>b, <3>1, <3>4, <3>5 DEF TimerInv
  <2>4. ASSUME NEW c \in Fds, CloseForget(c) PROVE TimerInv'
    <3> DEFINE d == closing[c].to
    <3>1. UNCHANGED <<open, timers, batch>>
      BY <2>4 DEF CloseForget, kernel, loop
    <3>2. d \notin open
      BY <2>4 DEF CloseForget, TimerInv, Removed
    <3>3. \A e \in Fds : /\ e # d => m_sockfd'[e] = m_sockfd[e]
                         /\ m_sockfd'[e] = e => m_sockfd[e] = e
      BY <2>4 DEF CloseForget, Types, TimersOK, Closed
    <3>4. \A w \in Fds : closing'[w].at = "forget" => closing'[w] = closing[w]
      BY <2>4 DEF CloseForget, Types, WorkersOK
    <3> HIDE DEF d
    <3>5. Owned'
      BY <3>1, <3>3 DEF TimerInv, Owned, Pending, Mine, Live, timers
    <3>6. Bound'
      BY <3>1, <3>2, <3>3 DEF TimerInv, Bound, Types, KernelOK
    <3>7. Removed'
      BY <3>1, <3>4 DEF TimerInv, Removed
    <3> QED BY <2>b, <3>1, <3>5, <3>6, <3>7 DEF TimerInv
  <2>5. CASE EpollWait
    <3>1. UNCHANGED <<open, m_sockfd, closing, timers>> /\ batch' = Events
      BY <2>5 DEF EpollWait, workers
    <3>2. \A c \in Fds, e \in {"in", "out", "hup"} :
             <<c, e>> \in Events => c \in open /\ e = Event(c)
      BY DEF Events, Ready
    <3>3. OneEvent'
      BY <3>1, <3>2 DEF OneEvent
    <3>4. \A c \in Fds : Pending(c)' => m_sockfd[c] = c
      BY <3>1, <3>2 DEF Pending, TimerInv, Bound
    <3>5. Owned'
      BY <3>1, <3>4 DEF TimerInv, Owned, Mine, Live, timers
    <3> QED BY <2>d, <3>1, <3>3, <3>5 DEF TimerInv
  <2>6. CASE AcceptFails \/ Signal \/ NoTick
    <3>1. UNCHANGED <<open, m_sockfd, closing, timers>> /\ batch' \subseteq batch
      BY <2>6 DEF AcceptFails, Signal, NoTick, Take, kernel, workers
    <3>2. Owned'
      BY <3>1 DEF TimerInv, Owned, Pending, Mine, Live, timers
    <3> QED BY <2>c, <2>d, <3>1, <3>2 DEF TimerInv
  <2>7. ASSUME NEW c \in Fds, Accept(c) PROVE TimerInv'
    <3>1. /\ batch' \subseteq batch /\ UNCHANGED closing
          /\ open' = open \cup {c} /\ m_sockfd' = [m_sockfd EXCEPT ![c] = c]
          /\ add_timer(c, {})
      BY <2>7 DEF Accept, Take, workers
    <3>2. m_sockfd'[c] = c /\ \A d \in Fds \ {c} : m_sockfd'[d] = m_sockfd[d]
      BY <3>1 DEF Types, TimersOK
    <3>3. \A w \in Fds : closing[w].at = "forget" => closing[w].to # c
      BY <2>7 DEF Accept
    <3>4. Mine(c)' /\ \A d \in Fds \ {c} : Mine(d) => Mine(d)'
      BY <3>1, AddTimerOwned
    <3>5. Owned'
      BY <3>1, <3>2, <3>4 DEF TimerInv, Owned, Pending
    <3>6. Bound'
      BY <3>1, <3>2 DEF TimerInv, Bound, Types, KernelOK
    <3>7. Removed'
      BY <3>1, <3>3 DEF TimerInv, Removed
    <3> QED BY <2>c, <3>1, <3>5, <3>6, <3>7 DEF TimerInv
  <2>8. ASSUME NEW c \in Fds, ReadEvent(c) \/ WriteEvent(c) PROVE TimerInv'
    <3>1. /\ batch' \subseteq batch /\ UNCHANGED <<closing, open, m_sockfd>>
          /\ add_timer(c, {users_timer[c]}) /\ m_sockfd[c] = c
      BY <2>8 DEF ReadEvent, WriteEvent, Take, workers, Readable, Writable
    <3>2. \A d \in Fds \ {c} : Mine(d) => users_timer[c] # users_timer[d]
      BY <3>1 DEF TimerInv, Owned, Mine
    <3>3. Mine(c)' /\ \A d \in Fds \ {c} : Mine(d) => Mine(d)'
      BY <3>1, <3>2, AddTimerOwned
    <3>4. Owned'
      BY <3>1, <3>3 DEF TimerInv, Owned, Pending
    <3> QED BY <2>c, <2>d, <3>1, <3>4 DEF TimerInv
  <2>9. ASSUME NEW c \in Fds, CloseEvent(c) PROVE TimerInv'
    <3>1. /\ UNCHANGED <<closing, users_timer, user_data>>
          /\ left' = [left EXCEPT ![users_timer[c]] = Free] /\ Close({c})
      BY <2>9 DEF CloseEvent, workers
    <3>2. \E ev \in {"in", "out", "hup"} :
             <<c, ev>> \in batch /\ batch' = batch \ {<<c, ev>>}
      BY <2>9 DEF CloseEvent, Take
    <3>3. Mine(c) /\ ~Pending(c)' /\ batch' \subseteq batch
      BY <3>2 DEF TimerInv, Owned, OneEvent, Pending
    <3>4. /\ m_sockfd'[c] = Closed
          /\ \A d \in Fds \ {c} : m_sockfd'[d] = m_sockfd[d]
      BY <3>1 DEF Close
    <3>5. open' \subseteq open /\ c \notin open'
      BY <3>1 DEF Close, TimerInv, Bound
    <3>6. \A d \in Fds \ {c} : Mine(d) => Mine(d)'
      <4>1. ASSUME NEW d \in Fds \ {c}, Mine(d) PROVE users_timer[d] \in Live'
        <5>1. users_timer[d] # users_timer[c] /\ users_timer[d] \in Live
          BY <3>3, <4>1 DEF Mine
        <5>2. left'[users_timer[d]] = left[users_timer[d]]
          BY <3>1, <5>1 DEF Live, Types, TimersOK
        <5> QED BY <5>1, <5>2 DEF Live
      <4> QED BY <3>1, <4>1 DEF Mine
    <3>7. Owned'
      BY <3>3, <3>4, <3>6 DEF TimerInv, Owned, Pending
    <3>8. Bound'
      BY <3>4, <3>5 DEF TimerInv, Bound, Types, KernelOK
    <3>9. Removed'
      BY <3>1, <3>5 DEF TimerInv, Removed
    <3> QED BY <2>c, <3>3, <3>7, <3>8, <3>9 DEF TimerInv
  <2>10. CASE Tick
    <3>1. /\ batch = {} /\ UNCHANGED <<batch, closing, users_timer, user_data>>
          /\ Close({user_data[t] : t \in Due})
          /\ left' = [t \in Timers |-> IF t \in Due \/ t \notin Live THEN Free
                                       ELSE left[t] - 1]
      BY <2>10 DEF Tick, workers
    <3>2. \A c \in Fds : /\ m_sockfd'[c] = c => m_sockfd[c] = c
                         /\ m_sockfd'[c] = c =>
                                \A t \in Due : user_data[t] # c
      BY <3>1 DEF Close
    <3>3. \A t \in Live : t \notin Due => t \in Live'
      <4>1. ASSUME NEW t \in Live, t \notin Due PROVE left'[t] # Free
        <5>1. t \in Timers /\ left[t] \in 0..Rounds /\ left[t] # 0
          BY <4>1 DEF Live, Due, Free, Types, TimersOK
        <5>2. left'[t] = left[t] - 1
          BY <3>1, <4>1, <5>1
        <5> QED BY <5>1, <5>2 DEF Free
      <4> QED BY <4>1 DEF Live
    <3>4. Owned'
      BY <3>1, <3>2, <3>3 DEF TimerInv, Owned, Pending, Mine
    <3>5. /\ open' \subseteq open
          /\ \A c \in open' : m_sockfd'[c] = m_sockfd[c]
      BY <3>1 DEF Close, TimerInv, Bound, Types, KernelOK
    <3>6. Bound' /\ Removed'
      BY <3>1, <3>5 DEF TimerInv, Bound, Removed
    <3> QED BY <2>b, <3>1, <3>4, <3>6 DEF TimerInv
  <2>11. CASE UNCHANGED vars
    BY <2>11, <2>a, <2>b, <2>d DEF vars, timers, TimerInv
  <2> QED
    BY <2>1, <2>2, <2>3, <2>4, <2>5, <2>6, <2>7, <2>8, <2>9, <2>10, <2>11
    DEF Next, EventLoop, Worker
<1>3. [Next]_vars /\ raced /\ Types => raced'
  BY DEF Next, EventLoop, Worker, Connect, SIGALRM, SIGTERM, Arrive, HangUp,
         QueueAnswer, process, reconnect, CloseTest, CloseRemove, CloseForget,
         CloseDone, EpollWait, AcceptFails, Signal, Tick, NoTick, Accept, CloseEvent,
         ReadEvent, WriteEvent, vars
<1> DEFINE Inv == ~raced => TimerInv
<1>4. Types /\ Inv /\ [Next]_vars => Inv'
  BY <1>2, <1>3
<1>5. Init => Inv
  BY <1>1
<1> HIDE DEF Inv
<1>6. Spec => []Inv
  BY <1>4, <1>5, TypesInvariant, PTL DEF Spec
<1> QED BY <1>6 DEF Inv

(* However accepts, closes, ticks and stale events interleave: a           *)
(* connection's timer is in the wheel and will close that connection, and  *)
(* the loop never uses a freed timer - as long as no descriptor is given   *)
(* out while a worker is closing it.                                       *)
THEOREM TimersCorrect == Spec => []TimersSound
<1>1. (~raced => TimerInv) => TimersSound
  BY DEF TimerInv, Owned, Pending, Mine, TimersSound
<1> QED BY <1>1, TimerInvariant, PTL

-----------------------------------------------------------------------------
(* Theorems about VoiceChat. *)

(* The maps keep their types: "" is never in a user's call and has no id.  *)
THEOREM VoiceTypeCorrect == VoiceSpec => []VoiceTypeOK
<1> USE VoiceAssumption DEF Names, NoPack, Has
<1>1. VoiceInit => VoiceTypeOK
  BY DEF VoiceInit, VoiceTypeOK
<1>2. VoiceTypeOK /\ [VoiceNext]_voice => VoiceTypeOK'
  <2> SUFFICES ASSUME VoiceTypeOK, [VoiceNext]_voice PROVE VoiceTypeOK'
    OBVIOUS
  <2> USE DEF VoiceTypeOK
  <2>1. ASSUME NEW u \in Users, Online(u) \/ Offline(u) PROVE VoiceTypeOK'
    BY <2>1 DEF Online, Offline, ids, udp
  <2>2. ASSUME NEW u \in Names, NEW tar \in Names, start_voice_chat(u, tar)
        PROVE VoiceTypeOK'
    <3>1. u \in Users /\ tar \in Users
      BY <2>2 DEF start_voice_chat
    <3> QED BY <2>2, <3>1 DEF start_voice_chat, ids, udp
  <2>3. ASSUME NEW u \in Names, ReplyWithoutCall(u) PROVE VoiceTypeOK'
    BY <2>3 DEF ReplyWithoutCall, ids, udp
  <2>4. ASSUME NEW u \in Names, Reject(u) PROVE VoiceTypeOK'
    BY <2>4 DEF Reject, ids, udp
  <2>5. ASSUME NEW u \in Names, end_voice_chat(u) PROVE VoiceTypeOK'
    BY <2>5 DEF end_voice_chat, Erase, udp
  <2>6. ASSUME NEW u \in Names, NEW a \in Ids, NEW b \in Ids,
               AcceptCall(u, a, b)
        PROVE VoiceTypeOK'
    <3>1. u \in Users /\ voice_chat_mp[u] \in Users
      BY <2>6 DEF AcceptCall
    <3> QED BY <2>6, <3>1 DEF AcceptCall, udp
  <2>7. ASSUME NEW u \in Users, NEW i \in Ids, NEW from \in Users \cup {Garbage},
               Receive(u, i, from)
        PROVE VoiceTypeOK'
    BY <2>7 DEF Receive, ids
  <2>8. CASE Route
    <3>1. Listener(pack.id) \in Users \cup {Garbage, NoEntry}
      BY <2>8 DEF Route, Listener
    <3> QED BY <2>8, <3>1 DEF Route, ids
  <2>9. CASE UNCHANGED voice
    BY <2>9 DEF voice
  <2> QED BY <2>1, <2>2, <2>3, <2>4, <2>5, <2>6, <2>7, <2>8, <2>9 DEF VoiceNext
<1> QED BY <1>1, <1>2, PTL DEF VoiceSpec

-----------------------------------------------------------------------------
(* Nobody is in a call with himself. *)
NotAlone == \A u \in Users : voice_chat_mp[u] # u

(* Calls are mutual, whoever starts, rejects and ends them, and in         *)
(* whatever order.                                                         *)
THEOREM CallsCorrect == VoiceSpec => [](CallsMutual /\ NotAlone)
<1> DEFINE Inv == CallsMutual /\ NotAlone
<1> USE VoiceAssumption DEF Names, Has
<1>1. VoiceInit => Inv
  BY DEF VoiceInit, CallsMutual, NotAlone
<1>2. VoiceTypeOK /\ Inv /\ [VoiceNext]_voice => Inv'
  <2> SUFFICES ASSUME VoiceTypeOK, Inv, [VoiceNext]_voice PROVE Inv'
    OBVIOUS
  <2>0. /\ voice_chat_mp \in [Names -> Names \cup {NoEntry}]
        /\ voice_chat_mp[NoName] \in {NoName, NoEntry}
        /\ online \subseteq Users
    BY DEF VoiceTypeOK
  <2> USE <2>0 DEF CallsMutual, NotAlone
  \* The two sides of a call leave it together.
  <2>a. ASSUME NEW u \in Names, Has(voice_chat_mp, u),
               voice_chat_mp' = Erase(voice_chat_mp, {u, voice_chat_mp[u]})
        PROVE Inv'
    <3>1. /\ DOMAIN voice_chat_mp = Names
          /\ \A v \in Names : voice_chat_mp'[v] =
                IF v \in {u, voice_chat_mp[u]} THEN NoEntry ELSE voice_chat_mp[v]
      BY <2>a DEF Erase
    <3> QED BY <2>a, <3>1
  <2>1. ASSUME NEW u \in Names, NEW tar \in Names, start_voice_chat(u, tar)
        PROVE Inv'
    <3>1. u \in Users /\ tar \in Users /\ u # tar
      BY <2>1 DEF start_voice_chat
    <3>2. /\ voice_chat_mp'[u] = tar /\ voice_chat_mp'[tar] = u
          /\ \A v \in Names \ {u, tar} : voice_chat_mp'[v] = voice_chat_mp[v]
      BY <2>1, <3>1 DEF start_voice_chat
    <3> QED BY <2>1, <3>1, <3>2 DEF start_voice_chat
  <2>2. ASSUME NEW u \in Names, ReplyWithoutCall(u) PROVE Inv'
    <3>1. /\ voice_chat_mp'[u] = NoName
          /\ \A v \in Names \ {u} : voice_chat_mp'[v] = voice_chat_mp[v]
      BY <2>2 DEF ReplyWithoutCall
    <3> QED BY <2>2, <3>1 DEF ReplyWithoutCall
  <2>3. ASSUME NEW u \in Names, Reject(u) PROVE Inv'
    <3>1. voice_chat_mp' = Erase(voice_chat_mp, {u, voice_chat_mp[u]})
      BY <2>3 DEF Reject, Erase
    <3> QED BY <2>3, <2>a, <3>1 DEF Reject
  <2>4. ASSUME NEW u \in Names, end_voice_chat(u) PROVE Inv'
    BY <2>4, <2>a DEF end_voice_chat
  <2>5. ASSUME UNCHANGED voice_chat_mp PROVE Inv'
    BY <2>5
  <2> QED
    BY <2>1, <2>2, <2>3, <2>4, <2>5
    DEF VoiceNext, Online, Offline, AcceptCall, Receive, Route, voice
<1> QED BY <1>1, <1>2, VoiceTypeCorrect, PTL DEF VoiceSpec

-----------------------------------------------------------------------------
(* What the draws and the addresses keep as long as they are good: an id   *)
(* has been told to one client only, 0 to none, and every map leads to     *)
(* that client.                                                            *)
ToldOnce == /\ \A u, v \in Users : u # v => told[u] \cap told[v] = {}
            /\ \A u \in Users : Zero \notin told[u]
IdsTold == \A u \in Users : Has(user_to_voice_id_mp, u) =>
               user_to_voice_id_mp[u] \in told[u]
UsersTold == \A i \in Ids : Has(voice_id_to_user_mp, i) =>
                 i \in told[voice_id_to_user_mp[i]]
AddressesTold == \A i \in Ids : Has(voice_id_sockaddr_mp, i) =>
                     /\ voice_id_sockaddr_mp[i] \in Users
                     /\ i \in told[voice_id_sockaddr_mp[i]]
PackTold == pack # NoPack => pack.id \in told[pack.user]
Told == ToldOnce /\ IdsTold /\ UsersTold /\ AddressesTold /\ PackTold

(* Each id leads to the one client it was told, whatever draws, packets    *)
(* and ends of calls interleave, while no draw repeats one.                *)
THEOREM IdsToldOnce == VoiceSpec => [](sound => Told)
<1> USE VoiceAssumption DEF Names, Has, NoPack
<1>1. VoiceInit => (sound => Told)
  BY DEF VoiceInit, Told, ToldOnce, IdsTold, UsersTold, AddressesTold, PackTold
<1>2. VoiceTypeOK /\ (sound => Told) /\ [VoiceNext]_voice => (sound => Told)'
  <2> SUFFICES ASSUME VoiceTypeOK, sound => Told, [VoiceNext]_voice, sound'
               PROVE  Told'
    OBVIOUS
  <2>0. /\ voice_chat_mp \in [Names -> Names \cup {NoEntry}]
        /\ voice_chat_mp[NoName] \in {NoName, NoEntry}
        /\ voice_id_to_user_mp \in [Ids -> Users \cup {NoEntry}]
        /\ user_to_voice_id_mp \in [Names -> Ids \cup {NoEntry}]
        /\ user_to_voice_id_mp[NoName] = NoEntry
        /\ voice_id_sockaddr_mp \in [Ids -> Users \cup {Garbage, NoEntry}]
        /\ online \subseteq Users /\ told \in [Users -> SUBSET Ids]
        /\ pack \in [user : Users, id : Ids] \cup {NoEntry}
    BY DEF VoiceTypeOK
  <2>a. ASSUME NEW u \in Names, NEW a \in Ids, NEW b \in Ids,
               AcceptCall(u, a, b)
        PROVE  sound /\ a # b /\ {a, b} \cap (Drawn \cup {Zero}) = {}
    BY <2>a DEF AcceptCall
  <2> USE <2>0
  <2> USE DEF Told, ToldOnce, IdsTold, UsersTold, AddressesTold, PackTold
  <2>1. ASSUME NEW u \in Names, NEW a \in Ids, NEW b \in Ids,
               AcceptCall(u, a, b)
        PROVE Told'
    <3> DEFINE tar == voice_chat_mp[u]
    <3>0. sound /\ a # b
      BY <2>1, <2>a
    <3>1. u \in Users /\ tar \in Users
      BY <2>1 DEF AcceptCall
    <3>2. a # Zero /\ b # Zero
          /\ \A v \in Users : a \notin told[v] /\ b \notin told[v]
      BY <2>1, <2>a DEF Drawn
    <3>3. /\ UNCHANGED <<voice_id_sockaddr_mp, pack>>
          /\ u # tar => told'[u] = told[u] \cup {a} /\ told'[tar] = told[tar] \cup {b}
          /\ u = tar => told'[u] = told[u] \cup {a, b}
          /\ \A v \in Users \ {u, tar} : told'[v] = told[v]
      BY <2>1, <3>1 DEF AcceptCall, udp
    <3>4. ToldOnce'
      BY <3>0, <3>1, <3>2, <3>3
    <3>5. IdsTold'
      <4>1. /\ u # tar => user_to_voice_id_mp'[u] = a
            /\ user_to_voice_id_mp'[tar] = b
            /\ \A v \in Names \ {u, tar} :
                   user_to_voice_id_mp'[v] = user_to_voice_id_mp[v]
        BY <2>1, <3>1 DEF AcceptCall
      <4> QED BY <4>1, <3>0, <3>1, <3>3
    <3>6. UsersTold'
      <4>1. /\ voice_id_to_user_mp'[a] = u /\ voice_id_to_user_mp'[b] = tar
            /\ \A i \in Ids \ {a, b} :
                   voice_id_to_user_mp'[i] = voice_id_to_user_mp[i]
        BY <2>1, <3>1 DEF AcceptCall
      <4> QED BY <4>1, <3>0, <3>1, <3>3
    <3>7. AddressesTold' /\ PackTold'
      BY <3>0, <3>1, <3>3
    <3> QED BY <3>4, <3>5, <3>6, <3>7
  <2>2. ASSUME NEW u \in Names, end_voice_chat(u) PROVE Told'
    <3> DEFINE pair == {u, voice_chat_mp[u]}
               dead == {IdOf(v) : v \in pair}
    <3>1. sound /\ UNCHANGED <<told, pack>>
      BY <2>2 DEF end_voice_chat, udp
    <3>2. /\ \A v \in Names : user_to_voice_id_mp'[v] \in
                                  {user_to_voice_id_mp[v], NoEntry}
          /\ \A i \in Ids : /\ voice_id_to_user_mp'[i] \in
                                   {voice_id_to_user_mp[i], NoEntry}
                            /\ voice_id_sockaddr_mp'[i] \in
                                   {voice_id_sockaddr_mp[i], NoEntry}
      BY <2>2 DEF end_voice_chat, Erase
    <3> QED BY <3>1, <3>2
  <2>3. ASSUME NEW u \in Users, NEW i \in Ids, NEW from \in Users \cup {Garbage},
               Receive(u, i, from)
        PROVE Told'
    <3>1. /\ sound /\ from = u /\ i \in told[u]
          /\ UNCHANGED <<told, user_to_voice_id_mp, voice_id_to_user_mp>>
          /\ pack' = [user |-> u, id |-> i]
      BY <2>3 DEF Receive, ids
    <3>2. \A j \in Ids : \/ voice_id_sockaddr_mp'[j] = voice_id_sockaddr_mp[j]
                         \/ j = i /\ voice_id_sockaddr_mp'[j] = u
      BY <2>3, <3>1 DEF Receive
    <3> QED BY <3>1, <3>2
  <2>4. CASE Route
    BY <2>4 DEF Route, ids
  <2>5. ASSUME UNCHANGED <<told, ids, voice_id_sockaddr_mp, pack, sound>>
        PROVE Told'
    BY <2>5 DEF ids
  <2> QED
    BY <2>1, <2>2, <2>3, <2>4, <2>5
    DEF VoiceNext, Online, Offline, start_voice_chat, ReplyWithoutCall, Reject,
        voice, udp, ids
<1> QED BY <1>1, <1>2, VoiceTypeCorrect, PTL DEF VoiceSpec

(* A packet is passed on to the partner of the one who sent it, or to      *)
(* nobody: the id leads to the sender, because it was told to no other;    *)
(* the sender to the partner; and the address of the partner's id is the   *)
(* partner's, because only somebody told the id can have entered it.       *)
THEOREM PartnerCorrect == VoiceSpec => PartnerHears
<1>1. VoiceTypeOK /\ (sound => Told) /\ [VoiceNext]_voice =>
          (Route /\ sound /\ heard' # NoEntry => heard' = voice_chat_mp[pack.user])
  <2> SUFFICES ASSUME VoiceTypeOK, Told, Route, heard' # NoEntry
               PROVE  heard' = voice_chat_mp[pack.user]
    OBVIOUS
  <2> USE VoiceAssumption DEF Names, Has, NoPack
  <2>1. /\ pack.id \in Ids /\ pack.user \in Users /\ pack.id \in told[pack.user]
        /\ heard' = Listener(pack.id)
    BY DEF VoiceTypeOK, Told, PackTold, Route
  <2>2. voice_id_to_user_mp[pack.id] = pack.user
    BY <2>1 DEF Listener, VoiceTypeOK, Told, ToldOnce, UsersTold
  <2> DEFINE tar == voice_chat_mp[pack.user]
             id == user_to_voice_id_mp[tar]
  <2>3. tar # NoEntry /\ id # NoEntry /\ heard' = voice_id_sockaddr_mp[id]
    BY <2>1, <2>2 DEF Listener
  <2>4. tar \in Users /\ id \in Ids /\ id \in told[tar]
    BY <2>1, <2>3 DEF VoiceTypeOK, Told, IdsTold
  <2>5. heard' \in Users /\ id \in told[heard']
    BY <2>3, <2>4 DEF Told, AddressesTold
  <2> QED BY <2>4, <2>5 DEF Told, ToldOnce
<1>2. VoiceTypeOK /\ (sound => Told) /\ [VoiceNext]_voice =>
          [Route /\ sound /\ heard' # NoEntry =>
               heard' = voice_chat_mp[pack.user]]_voice
  BY <1>1
<1> QED BY <1>2, VoiceTypeCorrect, IdsToldOnce, PTL DEF VoiceSpec, PartnerHears

(* The id a user has leads back to the user, and no other id does unless a *)
(* call was accepted twice.                                                *)
THEOREM IdsCorrect == VoiceSpec => []IdsBothWays
<1> USE VoiceAssumption DEF Names, Has
<1>1. VoiceInit => IdsBothWays
  BY DEF VoiceInit, IdsBothWays
<1>2. VoiceTypeOK /\ (CallsMutual /\ NotAlone) /\ (sound => Told) /\ IdsBothWays
        /\ [VoiceNext]_voice => IdsBothWays'
  <2> SUFFICES ASSUME VoiceTypeOK, NotAlone, sound => Told, IdsBothWays,
                      [VoiceNext]_voice
               PROVE  IdsBothWays'
    OBVIOUS
  <2>0. /\ voice_chat_mp \in [Names -> Names \cup {NoEntry}]
        /\ voice_chat_mp[NoName] \in {NoName, NoEntry}
        /\ voice_id_to_user_mp \in [Ids -> Users \cup {NoEntry}]
        /\ user_to_voice_id_mp \in [Names -> Ids \cup {NoEntry}]
        /\ user_to_voice_id_mp[NoName] = NoEntry
        /\ online \subseteq Users /\ told \in [Users -> SUBSET Ids]
    BY DEF VoiceTypeOK
  <2> USE <2>0
  <2>1. ASSUME NEW u \in Names, NEW a \in Ids, NEW b \in Ids,
               AcceptCall(u, a, b)
        PROVE IdsBothWays'
    <3> SUFFICES ASSUME sound' PROVE IdsBothWays'
      BY DEF IdsBothWays
    <3> DEFINE tar == voice_chat_mp[u]
    <3>1. u \in Users /\ tar \in Users /\ u # tar /\ sound /\ a # b
      BY <2>1 DEF AcceptCall, NotAlone
    <3>2. \A v \in Users : a \notin told[v] /\ b \notin told[v]
      <4>1. {a, b} \cap (Drawn \cup {Zero}) = {}
        BY <2>1 DEF AcceptCall
      <4> QED BY <4>1 DEF Drawn
    <3>3. /\ voice_id_to_user_mp'[a] = u /\ voice_id_to_user_mp'[b] = tar
          /\ \A i \in Ids \ {a, b} :
                 voice_id_to_user_mp'[i] = voice_id_to_user_mp[i]
      BY <2>1, <3>1 DEF AcceptCall
    <3>4. /\ user_to_voice_id_mp'[u] = a /\ user_to_voice_id_mp'[tar] = b
          /\ \A v \in Names \ {u, tar} :
                 user_to_voice_id_mp'[v] = user_to_voice_id_mp[v]
      BY <2>1, <3>1 DEF AcceptCall
    <3>5. \A v \in Users : Has(user_to_voice_id_mp', v) =>
              voice_id_to_user_mp'[user_to_voice_id_mp'[v]] = v
      BY <3>1, <3>2, <3>3, <3>4 DEF IdsBothWays, Told, IdsTold
    <3>6. ASSUME ~again', NEW i \in Ids, Has(voice_id_to_user_mp', i)
          PROVE  user_to_voice_id_mp'[voice_id_to_user_mp'[i]] = i
      <4>1. ~again /\ ~Has(user_to_voice_id_mp, u) /\ ~Has(user_to_voice_id_mp, tar)
        BY <2>1, <3>6 DEF AcceptCall
      <4>2. CASE i \notin {a, b}
        BY <4>1, <4>2, <3>1, <3>3, <3>4, <3>6 DEF IdsBothWays
      <4> QED BY <4>2, <3>3, <3>4
    <3> QED BY <3>5, <3>6 DEF IdsBothWays
  <2>2. ASSUME NEW u \in Names, end_voice_chat(u) PROVE IdsBothWays'
    <3> SUFFICES ASSUME sound' PROVE IdsBothWays'
      BY DEF IdsBothWays
    <3> DEFINE pair == {u, voice_chat_mp[u]}
               dead == {IdOf(v) : v \in pair}
    <3>1. sound /\ UNCHANGED again
      BY <2>2 DEF end_voice_chat
    <3>2. \A i \in Ids : voice_id_to_user_mp'[i] =
              IF i \in dead THEN NoEntry ELSE voice_id_to_user_mp[i]
      BY <2>2 DEF end_voice_chat, Erase
    <3>3. \A v \in Names : user_to_voice_id_mp'[v] =
              IF v \in pair THEN NoEntry ELSE user_to_voice_id_mp[v]
      BY <2>2 DEF end_voice_chat, Erase
    <3>4. \A v \in Users \ pair : user_to_voice_id_mp[v] \notin dead
                                  \/ ~Has(user_to_voice_id_mp, v)
      BY <2>2, <3>1 DEF end_voice_chat, IdOf, Told, ToldOnce, IdsTold
    <3>5. \A v \in Users \cap pair : Has(user_to_voice_id_mp, v) =>
              user_to_voice_id_mp[v] \in dead
      BY DEF IdOf
    <3>6. \A v \in Users : Has(user_to_voice_id_mp', v) =>
              voice_id_to_user_mp'[user_to_voice_id_mp'[v]] = v
      BY <3>1, <3>2, <3>3, <3>4 DEF IdsBothWays
    <3>7. ASSUME ~again', NEW i \in Ids, Has(voice_id_to_user_mp', i)
          PROVE  user_to_voice_id_mp'[voice_id_to_user_mp'[i]] = i
      BY <3>1, <3>2, <3>3, <3>5, <3>7 DEF IdsBothWays
    <3> QED BY <3>6, <3>7 DEF IdsBothWays
  <2>3. ASSUME UNCHANGED ids, UNCHANGED again, sound' => sound PROVE IdsBothWays'
    BY <2>3 DEF IdsBothWays, ids
  <2>4. ASSUME NEW u \in Users, NEW i \in Ids, NEW from \in Users \cup {Garbage},
               Receive(u, i, from)
        PROVE IdsBothWays'
    <3>1. UNCHANGED ids /\ UNCHANGED again /\ (sound' => sound)
      BY <2>4 DEF Receive
    <3> QED BY <3>1, <2>3
  <2>5. CASE UNCHANGED <<ids, again, sound>>
    BY <2>5, <2>3
  <2> QED
    BY <2>1, <2>2, <2>4, <2>5
    DEF VoiceNext, Online, Offline, start_voice_chat, ReplyWithoutCall, Reject,
        Route, voice, ids
<1> QED BY <1>1, <1>2, VoiceTypeCorrect, CallsCorrect, IdsToldOnce, PTL DEF VoiceSpec
=============================================================================
