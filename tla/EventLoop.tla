----------------------------- MODULE EventLoop ------------------------------
(***************************************************************************)
(* main()'s loop over epoll_wait and what it keeps alive: the connections, *)
(* the timer each of them is closed by, the SIGALRM that drives the wheel  *)
(* and the SIGTERM that ends it all; and, beside the loop, the workers     *)
(* that register descriptors again and, in reconnect(), close another      *)
(* connection in steps of their own.                                       *)
(*                                                                         *)
(* What requests say is ChatService's subject, how they are read and       *)
(* answered ConnectionIO's, the lists of the wheel TimeWheel's: a timer is *)
(* here the number of ticks it still has.  Level-triggered mode.           *)
(***************************************************************************)
EXTENDS Integers

CONSTANTS Fds,         \* descriptors a client may get
          Timers,      \* the memory timers are allocated from
          NULL,
          Rounds,      \* ticks a new timer waits for (TIMELIMIT / SI)
          MaxInputs    \* bound: clients that connect, data that arrives and
                       \* answers or parts of one that are sent

Closed == -1
Free == -1

ASSUME LoopAssumption == /\ Rounds \in Nat /\ MaxInputs \in Nat
                         /\ NULL \notin Fds \cup Timers /\ Closed \notin Fds
                         /\ Fds \cap {"listenfd", "pipefd"} = {}

VARIABLES
    open, armed,            \* descriptors and what epoll waits for on each
    data, hup,              \* data unread, peer gone
    connecting, inputs,     \* clients to be accepted; what MaxInputs counts
    m_sockfd, users_timer,  \* of users[fd], users_timer[fd].timer
    left, user_data,        \* of each timer
    alarm, pipe, timeout, stop_server,
    main, batch,            \* where the loop is, events left of epoll_wait
    task, closing,          \* process(0) of fd is due; reconnect()'s close_conn
    raced                   \* history: a descriptor was given to a client
                            \* while a worker was closing it

kernel == <<open, armed, data, hup>>
outside == <<connecting, inputs>>
timers == <<users_timer, left, user_data>>
signals == <<alarm, pipe, timeout, stop_server>>
loop == <<main, batch>>
workers == <<task, closing>>
vars == <<open, armed, data, hup, connecting, inputs, m_sockfd, users_timer,
          left, user_data, alarm, pipe, timeout, stop_server, main, batch,
          task, closing, raced>>

NotClosing == [to |-> NULL, at |-> "none"]
Live == {t \in Timers : left[t] # Free}

Init == /\ open = {} /\ armed = [c \in Fds |-> "none"]
        /\ data = {} /\ hup = {}
        /\ connecting = 0 /\ inputs = 0
        /\ m_sockfd = [c \in Fds |-> Closed]
        /\ users_timer = [c \in Fds |-> NULL]
        /\ left = [t \in Timers |-> Free] /\ user_data = [t \in Timers |-> NULL]
        /\ alarm = TRUE /\ pipe = {} /\ timeout = FALSE /\ stop_server = FALSE
        /\ main = "wait" /\ batch = {}
        /\ task = {} /\ closing = [c \in Fds |-> NotClosing]
        /\ raced = FALSE

-----------------------------------------------------------------------------
(* The clients and the signals. *)
Input == inputs < MaxInputs /\ inputs' = inputs + 1

Connect == /\ Input
           /\ connecting' = connecting + 1
           /\ UNCHANGED <<kernel, m_sockfd, timers, signals, loop, workers,
                          raced>>

Arrive(c) == /\ c \in open \ (data \cup hup)
             /\ Input /\ data' = data \cup {c}
             /\ UNCHANGED <<open, armed, hup, connecting, m_sockfd, timers,
                            signals, loop, workers, raced>>

HangUp(c) == /\ c \in open \ hup
             /\ hup' = hup \cup {c}
             /\ UNCHANGED <<open, armed, data, outside, m_sockfd, timers, signals,
                            loop, workers, raced>>

(* sig_handler(): the number of the signal goes into the pipe. *)
SIGALRM == /\ alarm
           /\ alarm' = FALSE /\ pipe' = pipe \cup {"SIGALRM"}
           /\ UNCHANGED <<kernel, outside, m_sockfd, timers, timeout, stop_server,
                          loop, workers, raced>>

SIGTERM == /\ "SIGTERM" \notin pipe
           /\ pipe' = pipe \cup {"SIGTERM"}
           /\ UNCHANGED <<kernel, outside, m_sockfd, timers, alarm, timeout,
                          stop_server, loop, workers, raced>>

-----------------------------------------------------------------------------
(* The workers.  process_write() of an answer to c, for whoever queued it. *)
QueueAnswer(c) == /\ m_sockfd[c] = c /\ c \in open
                  /\ Input
                  /\ armed' = [armed EXCEPT ![c] = "out"]
                  /\ UNCHANGED <<open, data, hup, connecting, m_sockfd,
                                 timers, signals, loop, workers, raced>>

(* The modfd() that ends process(0); on descriptor -1 it does nothing. *)
Rearm(c) == armed' = IF m_sockfd[c] = c /\ c \in open
                     THEN [armed EXCEPT ![c] = "in"] ELSE armed

process(c) == /\ c \in task /\ closing[c] = NotClosing
              /\ task' = task \ {c}
              /\ Rearm(c)
              /\ UNCHANGED <<open, data, hup, outside, m_sockfd, timers, signals,
                             loop, closing, raced>>

(* process(0) of c is given the session of the user connected on d; it     *)
(* calls close_conn() on d after the global mutex is released.             *)
reconnect(c, d) == /\ c \in task /\ closing[c] = NotClosing
                   /\ closing' = [closing EXCEPT ![c] = [to |-> d, at |-> "test"]]
                   /\ UNCHANGED <<kernel, outside, m_sockfd, timers, signals, loop,
                                  task, raced>>

(* close_conn() of a worker: "if (m_sockfd != -1)". *)
CloseTest(c) ==
    LET d == closing[c].to
    IN /\ closing[c].at = "test"
       /\ closing' = IF m_sockfd[d] = Closed
                     THEN [closing EXCEPT ![c].at = "done"]
                     ELSE [closing EXCEPT ![c].at = "remove"]
       /\ UNCHANGED <<kernel, outside, m_sockfd, timers, signals, loop, task, raced>>

(* removefd(m_epollfd, m_sockfd), which reads m_sockfd again. *)
Remove(d) == IF m_sockfd[d] = d
             THEN /\ open' = open \ {d} /\ armed' = [armed EXCEPT ![d] = "none"]
                  /\ data' = data \ {d} /\ hup' = hup \ {d}
             ELSE UNCHANGED kernel

CloseRemove(c) == /\ closing[c].at = "remove"
                  /\ Remove(closing[c].to)
                  /\ closing' = [closing EXCEPT ![c].at = "forget"]
                  /\ UNCHANGED <<outside, m_sockfd, timers, signals, loop, task,
                                 raced>>

CloseForget(c) == /\ closing[c].at = "forget"
                  /\ m_sockfd' = [m_sockfd EXCEPT ![closing[c].to] = Closed]
                  /\ closing' = [closing EXCEPT ![c].at = "done"]
                  /\ UNCHANGED <<kernel, outside, timers, signals, loop, task, raced>>

CloseDone(c) == /\ closing[c].at = "done"
                /\ closing' = [closing EXCEPT ![c] = NotClosing]
                /\ task' = task \ {c}
                /\ Rearm(c)
                /\ UNCHANGED <<open, data, hup, outside, m_sockfd, timers, signals,
                               loop, raced>>

Worker(c) == \/ QueueAnswer(c) \/ process(c)
             \/ \E d \in Fds : reconnect(c, d)
             \/ CloseTest(c) \/ CloseRemove(c) \/ CloseForget(c) \/ CloseDone(c)

-----------------------------------------------------------------------------
(* epoll_wait: an event for each descriptor that has one.  A client's      *)
(* descriptor is disarmed by it (EPOLLONESHOT).                            *)
Event(c) == IF c \in hup THEN "hup" ELSE armed[c]
Ready == {c \in open : \/ armed[c] # "none" /\ c \in hup
                       \/ armed[c] = "in" /\ c \in data
                       \/ armed[c] = "out"}
Events == {<<c, Event(c)>> : c \in Ready}
          \cup (IF connecting > 0 THEN {<<"listenfd", "in">>} ELSE {})
          \cup (IF pipe # {} THEN {<<"pipefd", "in">>} ELSE {})

EpollWait == /\ main = "wait" /\ ~stop_server
             /\ Events # {}
             /\ batch' = Events /\ main' = "batch"
             /\ armed' = [c \in Fds |-> IF c \in Ready THEN "none" ELSE armed[c]]
             /\ UNCHANGED <<open, data, hup, outside, m_sockfd, timers, signals,
                            workers, raced>>

Take(source, event) == /\ main = "batch" /\ <<source, event>> \in batch
                       /\ batch' = batch \ {<<source, event>>}
                       /\ UNCHANGED main

(* add_timer() for c, after the timers in gone have been deleted.  Which   *)
(* free memory the new one gets is the allocator's business; it may be     *)
(* what has just been freed.                                               *)
Fresh(gone) == CHOOSE t \in Timers : t \notin Live \ gone

(* Mutant of add_timer: the wheel turns once more before it fires. *)
AddTimerLate(c, gone) ==
    LET t == Fresh(gone)
    IN /\ Live \ gone # Timers
       /\ users_timer' = [users_timer EXCEPT ![c] = t]
       /\ left' = [x \in Timers |-> IF x = t THEN Rounds + 1
                                    ELSE IF x \in gone THEN Free ELSE left[x]]
       /\ user_data' = [user_data EXCEPT ![t] = c]

add_timer(c, gone) ==
    LET t == Fresh(gone)
    IN /\ Live \ gone # Timers
       /\ users_timer' = [users_timer EXCEPT ![c] = t]
       /\ left' = [x \in Timers |-> IF x = t THEN Rounds
                                    ELSE IF x \in gone THEN Free ELSE left[x]]
       /\ user_data' = [user_data EXCEPT ![t] = c]

(* accept() fails when there is no descriptor left. *)
Accept(c) ==
    /\ Take("listenfd", "in")
    /\ c \notin open
    /\ connecting' = connecting - 1
    /\ open' = open \cup {c} /\ armed' = [armed EXCEPT ![c] = "in"]
    /\ m_sockfd' = [m_sockfd EXCEPT ![c] = c]
    /\ add_timer(c, {})
    /\ raced' = (raced \/ \E w \in Fds : /\ closing[w].to = c
                                         /\ closing[w].at \in {"remove", "forget"})
    /\ UNCHANGED <<data, hup, inputs, signals, workers>>

AcceptFails == /\ Take("listenfd", "in")
               /\ open = Fds
               /\ UNCHANGED <<kernel, outside, m_sockfd, timers, signals, workers,
                              raced>>

Signal == /\ Take("pipefd", "in")
          /\ pipe' = {}
          /\ timeout' = (timeout \/ "SIGALRM" \in pipe)
          /\ stop_server' = (stop_server \/ "SIGTERM" \in pipe)
          /\ UNCHANGED <<kernel, outside, m_sockfd, timers, alarm, workers, raced>>

(* read() and write() work on m_sockfd. *)
Readable(c) == m_sockfd[c] = c /\ c \in open /\ c \in data
Writable(c) == m_sockfd[c] = c /\ c \in open /\ c \notin hup

(* Mutant of ReadEvent: the new timer is not entered in users_timer. *)
ReadEventOldTimer(c) ==
    LET t == Fresh({}) IN
    /\ Take(c, "in")
    /\ Readable(c)
    /\ data' = data \ {c} /\ task' = task \cup {c}
    /\ Live # Timers /\ UNCHANGED users_timer
    /\ left' = [left EXCEPT ![users_timer[c]] = Free, ![t] = Rounds]
    /\ user_data' = [user_data EXCEPT ![t] = c]
    /\ UNCHANGED <<open, armed, hup, outside, m_sockfd, signals, closing, raced>>

(* read() is true: the task is queued and the timer put back. *)
ReadEvent(c) == /\ Take(c, "in")
                /\ Readable(c)
                /\ data' = data \ {c} /\ task' = task \cup {c}
                /\ add_timer(c, {users_timer[c]})
                /\ UNCHANGED <<open, armed, hup, outside, m_sockfd, signals,
                               closing, raced>>

(* write() is true: everything was sent, or some of it, and the rest waits *)
(* for the next EPOLLOUT.                                                  *)
WriteEvent(c) == /\ Take(c, "out")
                 /\ Writable(c)
                 /\ \/ /\ armed' = [armed EXCEPT ![c] = "in"]
                       /\ UNCHANGED inputs
                    \/ /\ armed' = [armed EXCEPT ![c] = "out"]
                       /\ Input
                 /\ add_timer(c, {users_timer[c]})
                 /\ UNCHANGED <<open, data, hup, connecting, m_sockfd,
                                signals, workers, raced>>

(* close_conn(true) by cb_func for the connections in gone: nothing where  *)
(* m_sockfd is -1 already.  Only the loop accepts, so nothing of it can    *)
(* come between.                                                           *)
Close(gone) ==
    LET shut == {c \in gone : m_sockfd[c] = c}
    IN /\ open' = open \ shut /\ data' = data \ shut /\ hup' = hup \ shut
       /\ armed' = [c \in Fds |-> IF c \in shut THEN "none" ELSE armed[c]]
       /\ m_sockfd' = [c \in Fds |-> IF c \in gone THEN Closed ELSE m_sockfd[c]]

(* The peer is gone, or read() or write() is false: cb_func, then          *)
(* del_timer of the timer found in users_timer.                            *)
CloseEvent(c) == /\ \/ Take(c, "hup")
                    \/ Take(c, "in") /\ ~Readable(c)
                    \/ Take(c, "out") /\ ~Writable(c)
                 /\ Close({c})
                 /\ left' = [left EXCEPT ![users_timer[c]] = Free]
                 /\ UNCHANGED <<outside, users_timer, user_data, signals, workers,
                                raced>>

(* The events are done: timer_handler() if the alarm has rung; main()      *)
(* leaves the loop if it is told to stop.                                  *)
Due == {t \in Live : left[t] = 0}

(* Mutant of Tick: the flag stays up. *)
TickKeepsFlag == /\ main = "batch" /\ batch = {} /\ timeout
                 /\ Close({user_data[t] : t \in Due})
                 /\ left' = [t \in Timers |-> IF t \in Due \/ t \notin Live THEN Free
                                              ELSE left[t] - 1]
                 /\ UNCHANGED timeout /\ alarm' = TRUE
                 /\ main' = "wait"
                 /\ UNCHANGED <<outside, users_timer, user_data, pipe, stop_server,
                                batch, workers, raced>>

(* Mutant of Tick: alarm() is not called again. *)
TickOnce == /\ main = "batch" /\ batch = {} /\ timeout
            /\ Close({user_data[t] : t \in Due})
            /\ left' = [t \in Timers |-> IF t \in Due \/ t \notin Live THEN Free
                                         ELSE left[t] - 1]
            /\ timeout' = FALSE /\ UNCHANGED alarm
            /\ main' = "wait"
            /\ UNCHANGED <<outside, users_timer, user_data, pipe, stop_server,
                           batch, workers, raced>>

Tick == /\ main = "batch" /\ batch = {} /\ timeout
        /\ Close({user_data[t] : t \in Due})
        /\ left' = [t \in Timers |-> IF t \in Due \/ t \notin Live THEN Free
                                     ELSE left[t] - 1]
        /\ timeout' = FALSE /\ alarm' = TRUE
        /\ main' = "wait"
        /\ UNCHANGED <<outside, users_timer, user_data, pipe, stop_server, batch,
                       workers, raced>>

NoTick == /\ main = "batch" /\ batch = {} /\ ~timeout
          /\ main' = "wait"
          /\ UNCHANGED <<kernel, outside, m_sockfd, timers, signals, batch, workers,
                         raced>>

EventLoop == \/ EpollWait \/ AcceptFails \/ Signal \/ Tick \/ NoTick
             \/ \E c \in Fds : \/ Accept(c) \/ CloseEvent(c)
                               \/ ReadEvent(c) \/ WriteEvent(c)

Next == \/ EventLoop \/ Connect \/ SIGALRM \/ SIGTERM
        \/ \E c \in Fds : Arrive(c) \/ HangUp(c) \/ Worker(c)

(* The loop and the kernel's alarm run on their own; clients, workers and  *)
(* whoever sends SIGTERM owe nothing.                                      *)
Spec == Init /\ [][Next]_vars /\ WF_vars(EventLoop) /\ WF_vars(SIGALRM)

-----------------------------------------------------------------------------
TypeOK == /\ open \subseteq Fds /\ armed \in [Fds -> {"none", "in", "out"}]
          /\ data \subseteq open /\ hup \subseteq open
          /\ connecting \in 0..MaxInputs /\ inputs \in 0..MaxInputs
          /\ m_sockfd \in [Fds -> Fds \cup {Closed}]
          /\ users_timer \in [Fds -> Timers \cup {NULL}]
          /\ left \in [Timers -> -1..Rounds]
          /\ user_data \in [Timers -> Fds \cup {NULL}]
          /\ alarm \in BOOLEAN /\ pipe \subseteq {"SIGALRM", "SIGTERM"}
          /\ timeout \in BOOLEAN /\ stop_server \in BOOLEAN
          /\ main \in {"wait", "batch"}
          /\ batch \subseteq (Fds \cup {"listenfd", "pipefd"})
                             \X {"in", "out", "hup"}
          /\ task \subseteq Fds
          /\ closing \in [Fds -> [to : Fds \cup {NULL},
                 at : {"none", "test", "remove", "forget", "done"}]]
          /\ raced \in BOOLEAN

(* Unless a descriptor was given out again while a worker was closing it:  *)
(* an open connection has a timer in the wheel that will close it and no   *)
(* other, and the loop, whatever stale event it handles, finds in          *)
(* users_timer a timer that is still allocated.                            *)
TimersSound ==
    ~raced =>
        /\ \A c \in Fds : m_sockfd[c] = c =>
               users_timer[c] \in Live /\ user_data[users_timer[c]] = c
        /\ \A c \in Fds : (\E ev \in {"in", "out", "hup"} : <<c, ev>> \in batch)
               => users_timer[c] \in Live

(* The wheel never stops turning: the next alarm is set, has rung, or is   *)
(* waiting for the end of the batch, and never two of these.               *)
AlarmChain ==
    /\ alarm \/ "SIGALRM" \in pipe \/ timeout
    /\ alarm => "SIGALRM" \notin pipe /\ ~timeout
    /\ "SIGALRM" \in pipe => ~timeout

(* A connection is closed after its last traffic, with whatever orphans    *)
(* reconnect() leaves in the wheel, unless the server is stopped.          *)
IdleClosed ==
    \A c \in Fds :
        m_sockfd[c] = c ~> m_sockfd[c] = Closed \/ stop_server \/ raced
=============================================================================
