---------------------------- MODULE ConnectionIO ----------------------------
(***************************************************************************)
(* One open client connection of requestProcess, seen by the event loop    *)
(* (main.cpp), the worker threads (process) and the kernel: the one-shot   *)
(* epoll registration, the read buffer and its three indices, the list of  *)
(* answers m_datas, and the pool the two kinds of task go through.         *)
(*                                                                         *)
(* A request and an answer are single items: a request arrives whole, and  *)
(* an answer is PacketLen units, so that a send can be partial.  Parsing   *)
(* one buffered request is one step (PacketParser has the parser itself);  *)
(* what is kept apart is every access to state that another thread may     *)
(* touch in between.  Level-triggered mode, the shipped connection_mode;   *)
(* the peer neither closes nor is timed out (EventLoop).                   *)
(***************************************************************************)
EXTENDS Integers, Sequences, SequencesExt, FiniteSets

CONSTANTS Workers,
          Capacity,    \* tasks the pool can queue
          MaxRequests, \* bound: requests the client sends
          MaxPushes,   \* bound: packets other users' handlers push to it
          PacketLen,   \* units of an answer
          SendRoom,    \* units the kernel's send buffer holds
          NoTask

ASSUME IOAssumption == /\ Capacity \in Nat \ {0}
                       /\ MaxRequests \in Nat /\ MaxPushes \in Nat
                       /\ PacketLen \in Nat \ {0} /\ SendRoom \in Nat \ {0}
                       /\ NoTask \notin {0, 1}

VARIABLES
    pending, running,          \* the pool: queued modes, mode of each worker
    armed,                     \* the event the fd is registered for, or "none"
    inbox, sent, pushed,       \* kernel receive queue; what the clients sent
    unread,                    \* units in the kernel's send buffer
    m_read_buf, m_start_line, m_checked_idx, m_read_idx,
    m_datas, m_is_process_write,
    main, got,                 \* event loop: where it is, what recv returned
    wpc, request,              \* each worker: where it is, what it handles
    handled,                   \* history: requests given to do_request
    queued, wire               \* history: answers appended, units sent

poolState == <<pending, running>>
kernel == <<armed, inbox, unread>>
clients == <<sent, pushed>>
buffer == <<m_read_buf, m_start_line, m_checked_idx, m_read_idx>>
answers == <<m_datas, queued, wire>>
loop == <<main, got>>
worker == <<wpc, request, handled>>
vars == <<pending, running, armed, inbox, sent, pushed, unread,
          m_read_buf, m_start_line, m_checked_idx, m_read_idx, m_datas,
          m_is_process_write, main, got, wpc, request, handled, queued, wire>>

Pool == INSTANCE TaskPool WITH Tasks <- {0, 1}, stopped <- FALSE

Blank == 0                     \* '\0' bytes, or the garbage of process:277
IsRequest(b) == b # Blank

(* threadpool::append, whose result every caller ignores. *)
append(mode) == IF Len(pending) < Capacity THEN Pool!Submit(mode)
                                           ELSE UNCHANGED poolState

modfd(ev) == armed' = ev

Put(buf, at, items) ==         \* copy items to buf[at], blanks below them
    [i \in 1..(at + Len(items)) |->
        IF i > at THEN items[i - at]
        ELSE IF i <= Len(buf) THEN buf[i] ELSE Blank]

Init == /\ pending = <<>> /\ running = [w \in Workers |-> NoTask]
        /\ armed = "in" /\ inbox = <<>> /\ unread = 0
        /\ sent = 0 /\ pushed = 0
        /\ m_read_buf = <<>>
        /\ m_start_line = 0 /\ m_checked_idx = 0 /\ m_read_idx = 0
        /\ m_datas = <<>> /\ m_is_process_write = FALSE
        /\ main = "wait" /\ got = <<>>
        /\ wpc = [w \in Workers |-> "start"]
        /\ request = [w \in Workers |-> Blank]
        /\ handled = {} /\ queued = <<>> /\ wire = <<>>

-----------------------------------------------------------------------------
(* The client and the other users. *)
Send == /\ sent < MaxRequests
        /\ sent' = sent + 1
        /\ inbox' = Append(inbox, sent')
        /\ UNCHANGED <<poolState, armed, unread, pushed, buffer, answers,
                       m_is_process_write, loop, worker>>

Drain == /\ unread > 0
         /\ unread' = unread - 1
         /\ UNCHANGED <<poolState, armed, inbox, clients, buffer, answers,
                        m_is_process_write, loop, worker>>

Answer(x) == [of |-> x, left |-> PacketLen]

(* Mutant of append_back_data: the answer jumps the queue. *)
append_to_front(x) == /\ m_datas' = <<Answer(x)>> \o m_datas
                      /\ queued' = Append(queued, x)
                      /\ UNCHANGED wire

append_back_data(x) == /\ m_datas' = Append(m_datas, Answer(x))
                       /\ queued' = Append(queued, x)
                       /\ UNCHANGED wire

(* Another connection's handler: m_users[fd].append_back_data, append(.,1). *)
Push == /\ pushed < MaxPushes
        /\ pushed' = pushed + 1
        /\ append_back_data(-pushed')
        /\ append(1)
        /\ UNCHANGED <<kernel, sent, buffer, m_is_process_write, loop, worker>>

-----------------------------------------------------------------------------
(* The event loop.  epoll_wait reports the event and, the registration     *)
(* being one-shot, disarms the fd.                                         *)
EventIn == /\ main = "wait" /\ armed = "in" /\ inbox # <<>>
           /\ armed' = "none" /\ main' = "recv"
           /\ UNCHANGED <<poolState, inbox, unread, clients, buffer, answers,
                          m_is_process_write, got, worker>>

EventOut == /\ main = "wait" /\ armed = "out" /\ unread < SendRoom
            /\ armed' = "none" /\ main' = "write"
            /\ UNCHANGED <<poolState, inbox, unread, clients, buffer, answers,
                           m_is_process_write, got, worker>>

(* read(): recv copies to m_read_buf + m_read_idx. *)
Recv == /\ main = "recv"
        /\ got' = [base |-> m_read_idx, n |-> Len(inbox)]
        /\ m_read_buf' = Put(m_read_buf, m_read_idx, inbox)
        /\ inbox' = <<>>
        /\ main' = "advance"
        /\ UNCHANGED <<poolState, armed, unread, clients, m_start_line,
                       m_checked_idx, m_read_idx, answers, m_is_process_write,
                       worker>>

(* Mutant of Advance: one byte too many is counted. *)
AdvanceOneMore == /\ main = "advance"
                  /\ m_read_idx' = m_read_idx + got.n + 1
                  /\ main' = "submit"
                  /\ got' = <<>>
                  /\ UNCHANGED <<poolState, kernel, clients, m_read_buf,
                                 m_start_line, m_checked_idx, answers,
                                 m_is_process_write, worker>>

(* read(): m_read_idx += bytes_read, a load and a store that a worker's    *)
(* init_read may come between; then append(users + sockfd, 0).             *)
Advance == /\ main = "advance"
           /\ m_read_idx' \in {m_read_idx + got.n, got.base + got.n}
           /\ main' = "submit"
           /\ got' = <<>>
           /\ UNCHANGED <<poolState, kernel, clients, m_read_buf, m_start_line,
                          m_checked_idx, answers, m_is_process_write, worker>>

SubmitRead == /\ main = "submit"
              /\ append(0)
              /\ main' = "wait"
              /\ UNCHANGED <<kernel, clients, buffer, answers,
                             m_is_process_write, got, worker>>

(* write(): one turn of the loop with a packet to send; without room, wait *)
(* for the next EPOLLOUT.                                                  *)
WriteSome ==
    /\ main = "write" /\ m_datas # <<>>
    /\ IF unread = SendRoom
       THEN /\ modfd("out")
            /\ main' = "wait"
            /\ UNCHANGED <<unread, answers>>
       ELSE \E k \in 1..(SendRoom - unread) :
            LET pack == Head(m_datas) IN
            /\ k <= pack.left
            /\ unread' = unread + k
            /\ wire' = wire \o [i \in 1..k |-> pack.of]
            /\ m_datas' = IF k = pack.left THEN Tail(m_datas)
                          ELSE [m_datas EXCEPT ![1].left = @ - k]
            /\ UNCHANGED <<armed, main, queued>>
    /\ UNCHANGED <<poolState, inbox, clients, buffer, m_is_process_write, got,
                   worker>>

WriteDone == /\ main = "write" /\ m_datas = <<>>
             /\ main' = "rearm"
             /\ UNCHANGED <<poolState, kernel, clients, buffer, answers,
                            m_is_process_write, got, worker>>

(* Mutant of WriteRearm: the connection is not registered again. *)
WriteForgets == /\ main = "rearm"
                /\ main' = "wait"
                /\ UNCHANGED <<poolState, kernel, clients, buffer, answers,
                               m_is_process_write, got, worker>>

(* write(): the last modfd, after the list was seen empty. *)
WriteRearm == /\ main = "rearm"
              /\ modfd("in")
              /\ main' = "wait"
              /\ UNCHANGED <<poolState, inbox, unread, clients, buffer, answers,
                             m_is_process_write, got, worker>>

-----------------------------------------------------------------------------
(* The workers. *)
Begin(w) == /\ Pool!Start(w)
            /\ wpc' = [wpc EXCEPT ![w] = IF Head(pending) = 0 THEN "first"
                                                              ELSE "test"]
            /\ UNCHANGED <<kernel, clients, buffer, answers,
                           m_is_process_write, loop, request, handled>>

(* process(0), one turn of the loop.  From m_start_line on, the parser     *)
(* takes the next request if the line starts with it, refuses it           *)
(* (BAD_REQUEST) when blanks precede it, and finds no line at all          *)
(* (NO_REQUEST) when there are only blanks.                                *)
ParseNext(w) ==
    LET Avail == {i \in (m_checked_idx + 1)..m_read_idx :
                     i <= Len(m_read_buf) /\ IsRequest(m_read_buf[i])}
        next == CHOOSE i \in Avail : \A j \in Avail : i <= j
    IN
    /\ wpc[w] \in {"first", "loop"} /\ m_checked_idx < m_read_idx
    /\ IF Avail = {}
       THEN /\ m_read_buf' = [i \in 1..(m_read_idx - m_start_line) |-> Blank]
            /\ m_read_idx' = m_read_idx - m_start_line
            /\ m_checked_idx' = m_read_idx'
            /\ m_start_line' = 0
            /\ wpc' = [wpc EXCEPT ![w] = "rearm"]
            /\ UNCHANGED <<request, handled>>
       ELSE /\ m_checked_idx' = next
            /\ m_start_line' = next
            /\ IF next = m_start_line + 1
               THEN /\ request' = [request EXCEPT ![w] = m_read_buf[next]]
                    /\ handled' = handled \cup {m_read_buf[next]}
                    /\ wpc' = [wpc EXCEPT ![w] = "answer"]
               ELSE /\ wpc' = [wpc EXCEPT ![w] = "loop"]
                    /\ UNCHANGED <<request, handled>>
            /\ UNCHANGED <<m_read_buf, m_read_idx>>
    /\ UNCHANGED <<poolState, kernel, clients, answers, m_is_process_write,
                   loop>>

(* The loop ends: init_read() follows, unless the loop ran zero times and  *)
(* the uninitialised read_ret happens to equal NO_REQUEST.                 *)
ParseEnd(w) ==
    /\ wpc[w] \in {"first", "loop"} /\ m_checked_idx >= m_read_idx
    /\ \E next \in IF wpc[w] = "first" THEN {"wipe", "rearm"} ELSE {"wipe"} :
          wpc' = [wpc EXCEPT ![w] = next]
    /\ UNCHANGED <<poolState, kernel, clients, buffer, answers,
                   m_is_process_write, loop, request, handled>>

(* A handler: append_back_data(answer), then m_threadpool->append(this, 1). *)
Reply(w) == /\ wpc[w] = "answer"
            /\ append_back_data(request[w])
            /\ wpc' = [wpc EXCEPT ![w] = "notify"]
            /\ UNCHANGED <<poolState, kernel, clients, buffer,
                           m_is_process_write, loop, request, handled>>

Notify(w) == /\ wpc[w] = "notify"
             /\ append(1)
             /\ wpc' = [wpc EXCEPT ![w] = "loop"]
             /\ request' = [request EXCEPT ![w] = Blank]
             /\ UNCHANGED <<kernel, clients, buffer, answers,
                            m_is_process_write, loop, handled>>

init_read(w) == /\ wpc[w] = "wipe"
                /\ m_read_buf' = <<>>
                /\ m_start_line' = 0 /\ m_checked_idx' = 0 /\ m_read_idx' = 0
                /\ wpc' = [wpc EXCEPT ![w] = "rearm"]
                /\ UNCHANGED <<poolState, kernel, clients, answers,
                               m_is_process_write, loop, request, handled>>

(* process(0): the modfd at its end; run() then takes its next task. *)
ReadRearm(w) == /\ wpc[w] = "rearm"
                /\ modfd("in")
                /\ Pool!End(w)
                /\ wpc' = [wpc EXCEPT ![w] = "start"]
                /\ UNCHANGED <<inbox, unread, clients, buffer, answers,
                               m_is_process_write, loop, request, handled>>

(* Mutant of EnterWrite: the flag is not looked at. *)
EnterWriteAnyway(w) == /\ wpc[w] = "test"
                       /\ m_is_process_write' = TRUE
                       /\ wpc' = [wpc EXCEPT ![w] = "arm"]
                       /\ UNCHANGED <<poolState, kernel, clients, buffer,
                                      answers, loop, request, handled>>

(* process_write(): the section under m_lock_isProcessWrite.  A worker     *)
(* that finds another one inside throws its task back into the queue.      *)
EnterWrite(w) ==
    /\ wpc[w] = "test"
    /\ IF m_is_process_write
       THEN /\ pending' = IF Len(pending) < Capacity THEN Append(pending, 1)
                                                     ELSE pending
            /\ running' = [running EXCEPT ![w] = NoTask]
            /\ wpc' = [wpc EXCEPT ![w] = "start"]
            /\ UNCHANGED m_is_process_write
       ELSE /\ m_is_process_write' = TRUE
            /\ wpc' = [wpc EXCEPT ![w] = "arm"]
            /\ UNCHANGED poolState
    /\ UNCHANGED <<kernel, clients, buffer, answers, loop, request, handled>>

ArmWrite(w) == /\ wpc[w] = "arm"
               /\ IF m_datas # <<>> THEN modfd("out") ELSE UNCHANGED armed
               /\ wpc' = [wpc EXCEPT ![w] = "leave"]
               /\ UNCHANGED <<poolState, inbox, unread, clients, buffer,
                              answers, m_is_process_write, loop, request,
                              handled>>

LeaveWrite(w) == /\ wpc[w] = "leave"
                 /\ m_is_process_write' = FALSE
                 /\ Pool!End(w)
                 /\ wpc' = [wpc EXCEPT ![w] = "start"]
                 /\ UNCHANGED <<kernel, clients, buffer, answers, loop,
                                request, handled>>

-----------------------------------------------------------------------------
Loop == \/ EventIn \/ EventOut \/ Recv \/ Advance \/ SubmitRead
        \/ WriteSome \/ WriteDone \/ WriteRearm

Process(w) == \/ ParseNext(w) \/ ParseEnd(w) \/ Reply(w) \/ Notify(w)
              \/ init_read(w) \/ ReadRearm(w)
              \/ EnterWrite(w) \/ ArmWrite(w) \/ LeaveWrite(w)

Next == Send \/ Drain \/ Push \/ Loop \/ \E w \in Workers : Begin(w) \/ Process(w)

(* The event loop and the workers are threads the system schedules, an     *)
(* idle worker takes a queued task (ThreadPool), and the client reads what *)
(* it is sent.  Whether anything is sent or pushed is up to the clients.   *)
Fairness == /\ WF_vars(Loop)
            /\ WF_vars(Drain)
            /\ WF_vars(\E w \in Workers : Begin(w))
            /\ \A w \in Workers : WF_vars(Process(w))

Spec == Init /\ [][Next]_vars /\ Fairness

-----------------------------------------------------------------------------
Items == (-MaxPushes)..MaxRequests
Modes == {0, 1}

TypeOK ==
    /\ pending \in Seq(Modes) /\ Len(pending) <= Capacity
    /\ running \in [Workers -> Modes \cup {NoTask}]
    /\ armed \in {"in", "out", "none"}
    /\ inbox \in Seq(1..MaxRequests) /\ sent \in 0..MaxRequests
    /\ pushed \in 0..MaxPushes /\ unread \in 0..SendRoom
    /\ m_read_buf \in Seq(0..MaxRequests)
    /\ {m_start_line, m_checked_idx, m_read_idx} \subseteq 0..MaxRequests
    /\ m_start_line <= m_checked_idx
    /\ \A i \in DOMAIN m_datas : m_datas[i] \in [of : Items, left : 1..PacketLen]
    /\ m_is_process_write \in BOOLEAN
    /\ main \in {"wait", "recv", "advance", "submit", "write", "rearm"}
    /\ wpc \in [Workers -> {"start", "first", "loop", "answer", "notify", "wipe",
                            "rearm", "test", "arm", "leave"}]
    /\ request \in [Workers -> 0..MaxRequests] /\ handled \subseteq 1..MaxRequests
    /\ queued \in Seq(Items) /\ wire \in Seq(Items)

(* What the client receives is exactly the packets of m_datas in the order *)
(* they were appended: whatever handlers append while write() is between   *)
(* its unlocked steps, no packet is lost, sent twice, or begun inside a    *)
(* packet that is half sent.                                               *)
WireInOrder ==
    LET Units(x, n) == [i \in 1..n |-> x]
        unsent == [i \in DOMAIN m_datas |-> Units(m_datas[i].of, m_datas[i].left)]
    IN wire \o FlattenSeq(unsent)
         = FlattenSeq([i \in DOMAIN queued |-> Units(queued[i], PacketLen)])

(* The one-shot registration is never dropped: while the fd is disarmed,   *)
(* the event loop is handling its event, or a mode-0 task that ends with   *)
(* modfd is queued or being executed.  (Capacity large enough that append  *)
(* refuses nothing; see the README for what a refusal does.)               *)
NeverDeaf ==
    armed = "none" => \/ main # "wait"
                      \/ \E i \in DOMAIN pending : pending[i] = 0
                      \/ \E w \in Workers : running[w] = 0

(* m_is_process_write is set exactly while one worker is between its two   *)
(* sections, and no two workers are.                                       *)
OneProcessWriter ==
    LET Inside == {w \in Workers : wpc[w] \in {"arm", "leave"}}
    IN Cardinality(Inside) = IF m_is_process_write THEN 1 ELSE 0

(* What the client sends is read sooner or later, however the answers and  *)
(* the pushes of other users make the registration flip between EPOLLIN    *)
(* and EPOLLOUT.                                                           *)
RequestsAreRead == inbox # <<>> ~> inbox = <<>>

-----------------------------------------------------------------------------
(* request_process.cpp:918 says a heartbeat is sent back as it came, and   *)
(* every handler appends its answer for process_write to send: an answer   *)
(* in m_datas goes out without the client having to send something more.   *)
AnswersAreSent == (m_datas # <<>>) ~> (m_datas = <<>>)
=============================================================================
