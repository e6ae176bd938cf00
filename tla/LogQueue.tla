------------------------------ MODULE LogQueue ------------------------------
(***************************************************************************)
(* src/log: threads that log a line each, the ring of block_queue, and the *)
(* flusher thread that empties it into the file, in the asynchronous mode  *)
(* (log_mode 1).  write_log() takes m_mutex and the queue's mutex several  *)
(* times each; every such section is one step, and other threads run in    *)
(* between.  A line is named by who wrote it and when; its text is left    *)
(* out.                                                                    *)
(***************************************************************************)
EXTENDS Integers, Sequences, SequencesExt

CONSTANTS Threads,        \* the event loop and the workers
          m_max_size,     \* cells of the ring
          m_split_lines,  \* lines after which a new file is opened
          NoLine,         \* what a cell holds before it is written
          MaxLines,       \* bound: lines each thread logs
          MaxDay          \* bound: the last day of the run

ASSUME LogAssumption == /\ m_max_size \in Nat \ {0}
                        /\ m_split_lines \in Nat \ {0}
                        /\ MaxLines \in Nat /\ MaxDay \in Nat
                        /\ NoLine \notin Threads \X (1..MaxLines)

VARIABLES m_array, m_size, m_front, m_back,   \* block_queue
          m_count, m_today,
          files,            \* the files opened so far; m_fp is the last one
          written,          \* the lines put into them, in that order
          pc, line, stamp,  \* each thread: where it is, its line, my_tm's day
          flusher, hand,    \* the flusher: where it is, what pop() gave it
          day,              \* the clock
          pushed, dropped   \* history: lines push() took, and refused

ring == <<m_array, m_size, m_front, m_back>>
file == <<m_count, m_today, files, written>>
vars == <<m_array, m_size, m_front, m_back, m_count, m_today, files, written,
          pc, line, stamp, flusher, hand, day, pushed, dropped>>

Lines == Threads \X (1..MaxLines)
Days == 0..MaxDay
Cells == 0..(m_max_size - 1)
Log(t) == <<t, line[t]>>    \* the line thread t is writing
Opened(d, part) == [day |-> d, part |-> part]

(* Log::init, with the flusher created and the queue made. *)
Init == /\ m_array = [c \in Cells |-> NoLine]
        /\ m_size = 0 /\ m_front = -1 /\ m_back = -1
        /\ m_count = 0 /\ m_today = 0
        /\ files = <<Opened(0, 0)>> /\ written = <<>>
        /\ pc = [t \in Threads |-> "idle"]
        /\ line = [t \in Threads |-> 0] /\ stamp = [t \in Threads |-> 0]
        /\ flusher = "pop" /\ hand = NoLine
        /\ day = 0 /\ pushed = <<>> /\ dropped = {}

Midnight == /\ day < MaxDay
            /\ day' = day + 1
            /\ UNCHANGED <<ring, file, pc, line, stamp, flusher, hand,
                           pushed, dropped>>

-----------------------------------------------------------------------------
(* write_log() reads the clock before it takes any lock. *)
Stamp(t) == /\ pc[t] = "idle" /\ line[t] < MaxLines
            /\ line' = [line EXCEPT ![t] = @ + 1]
            /\ stamp' = [stamp EXCEPT ![t] = day]
            /\ pc' = [pc EXCEPT ![t] = "count"]
            /\ UNCHANGED <<ring, file, flusher, hand, day, pushed, dropped>>

(* Mutant of Rotate: the day of the new file is not noted. *)
RotateForgetsDay(d) ==
    LET count == m_count + 1
    IN IF m_today # d
       THEN m_count' = 0 /\ files' = Append(files, Opened(d, 0)) /\ UNCHANGED m_today
       ELSE /\ m_count' = count /\ UNCHANGED m_today
            /\ files' = IF count % m_split_lines = 0
                        THEN Append(files, Opened(d, count \div m_split_lines))
                        ELSE files

(* The line is counted, and a new file opened for a new day or when the    *)
(* old one has had its lines.                                              *)
Rotate(d) ==
    LET count == m_count + 1
    IN IF m_today # d
       THEN m_count' = 0 /\ m_today' = d /\ files' = Append(files, Opened(d, 0))
       ELSE /\ m_count' = count /\ UNCHANGED m_today
            /\ files' = IF count % m_split_lines = 0
                        THEN Append(files, Opened(d, count \div m_split_lines))
                        ELSE files

Count(t) == /\ pc[t] = "count"
            /\ Rotate(stamp[t])
            /\ pc' = [pc EXCEPT ![t] = "test"]
            /\ UNCHANGED <<ring, written, line, stamp, flusher, hand, day, pushed,
                           dropped>>

(* full() answers and gives the queue's mutex back before the answer is    *)
(* used.                                                                   *)
Test(t) == /\ pc[t] = "test"
           /\ pc' = [pc EXCEPT ![t] = IF m_size >= m_max_size THEN "direct"
                                                              ELSE "push"]
           /\ UNCHANGED <<ring, file, line, stamp, flusher, hand, day, pushed,
                          dropped>>

(* fputs() to the file that is open now, under m_mutex. *)
Write(l) == written' = Append(written, l)

Direct(t) == /\ pc[t] = "direct"
             /\ Write(Log(t))
             /\ pc' = [pc EXCEPT ![t] = "idle"]
             /\ UNCHANGED <<ring, m_count, m_today, files, line, stamp, flusher,
                            hand, day, pushed, dropped>>

(* m_cond.broadcast(): a waiting flusher goes back to pop()'s loop test. *)
Broadcast == flusher' = IF flusher = "wait" THEN "pop" ELSE flusher

(* Mutant of Push: the size is not tested again. *)
PushUnchecked(t) ==
    LET back == (m_back + 1) % m_max_size
    IN /\ pc[t] = "push"
       /\ m_back' = back /\ m_array' = [m_array EXCEPT ![back] = Log(t)]
       /\ m_size' = m_size + 1
       /\ pushed' = Append(pushed, Log(t))
       /\ Broadcast
       /\ pc' = [pc EXCEPT ![t] = "idle"]
       /\ UNCHANGED <<m_front, file, line, stamp, hand, day, dropped>>

(* Mutant of Push: the flusher is not woken. *)
PushSilently(t) ==
    LET back == (m_back + 1) % m_max_size
    IN /\ pc[t] = "push" /\ m_size < m_max_size
       /\ m_back' = back /\ m_array' = [m_array EXCEPT ![back] = Log(t)]
       /\ m_size' = m_size + 1
       /\ pushed' = Append(pushed, Log(t))
       /\ pc' = [pc EXCEPT ![t] = "idle"]
       /\ UNCHANGED <<m_front, file, line, stamp, flusher, hand, day, dropped>>

(* push(), the cases room and no room. *)
Push(t) ==
    LET back == (m_back + 1) % m_max_size
    IN /\ pc[t] = "push" /\ m_size < m_max_size
       /\ m_back' = back /\ m_array' = [m_array EXCEPT ![back] = Log(t)]
       /\ m_size' = m_size + 1
       /\ pushed' = Append(pushed, Log(t))
       /\ Broadcast
       /\ pc' = [pc EXCEPT ![t] = "idle"]
       /\ UNCHANGED <<m_front, file, line, stamp, hand, day, dropped>>

(* Nobody looks at the false that push() returns. *)
PushRefused(t) == /\ pc[t] = "push" /\ m_size >= m_max_size
                  /\ Broadcast
                  /\ dropped' = dropped \cup {Log(t)}
                  /\ pc' = [pc EXCEPT ![t] = "idle"]
                  /\ UNCHANGED <<ring, file, line, stamp, hand, day, pushed>>

write_log(t) == \/ Stamp(t) \/ Count(t) \/ Test(t) \/ Direct(t)
                \/ Push(t) \/ PushRefused(t)

-----------------------------------------------------------------------------
(* async_write_log(): pop() waits while there is nothing. *)
PopWaits == /\ flusher = "pop" /\ m_size <= 0
            /\ flusher' = "wait"
            /\ UNCHANGED <<ring, file, pc, line, stamp, hand, day, pushed, dropped>>

(* pthread_cond_wait may also return without a broadcast. *)
SpuriousWakeup == /\ flusher = "wait"
                  /\ flusher' = "pop"
                  /\ UNCHANGED <<ring, file, pc, line, stamp, hand, day, pushed,
                                 dropped>>

(* Mutant of Pop: the newest line is taken. *)
PopNewest == /\ flusher = "pop" /\ m_size > 0
             /\ hand' = m_array[m_back]
             /\ m_back' = IF m_back = 0 THEN m_max_size - 1 ELSE m_back - 1
             /\ m_size' = m_size - 1
             /\ flusher' = "write"
             /\ UNCHANGED <<m_array, m_front, file, pc, line, stamp, day, pushed,
                            dropped>>

Pop == LET front == (m_front + 1) % m_max_size
       IN /\ flusher = "pop" /\ m_size > 0
          /\ m_front' = front /\ hand' = m_array[front]
          /\ m_size' = m_size - 1
          /\ flusher' = "write"
          /\ UNCHANGED <<m_array, m_back, file, pc, line, stamp, day, pushed,
                         dropped>>

FlusherWrites == /\ flusher = "write"
                 /\ Write(hand)
                 /\ hand' = NoLine /\ flusher' = "pop"
                 /\ UNCHANGED <<ring, m_count, m_today, files, pc, line, stamp,
                                day, pushed, dropped>>

async_write_log == PopWaits \/ Pop \/ FlusherWrites

Next == \/ Midnight \/ SpuriousWakeup \/ async_write_log
        \/ \E t \in Threads : write_log(t)

(* The flusher is a thread like any other: it runs again and again, and no *)
(* section of m_mutex waits for anything.  Nothing makes a thread log.     *)
Spec == Init /\ [][Next]_vars /\ WF_vars(async_write_log)

-----------------------------------------------------------------------------
TypeOK == /\ m_array \in [Cells -> Lines \cup {NoLine}]
          /\ m_size \in 0..m_max_size
          /\ m_front \in -1..(m_max_size - 1) /\ m_back \in -1..(m_max_size - 1)
          /\ m_count \in Nat /\ m_today \in Days
          /\ files \in Seq([day : Days, part : Nat]) /\ written \in Seq(Lines)
          /\ pc \in [Threads -> {"idle", "count", "test", "direct", "push"}]
          /\ line \in [Threads -> 0..MaxLines] /\ stamp \in [Threads -> Days]
          /\ flusher \in {"pop", "wait", "write"}
          /\ hand \in Lines \cup {NoLine}
          /\ day \in Days /\ pushed \in Seq(Lines) /\ dropped \subseteq Lines

(* The queue the ring stands for. *)
Contents == [i \in 1..m_size |-> m_array[(m_front + i) % m_max_size]]

InHand == IF hand = NoLine THEN <<>> ELSE <<hand>>

Queue == INSTANCE BoundedQueue
         WITH Items <- Lines, Capacity <- m_max_size, queue <- Contents

(* Under every interleaving of full(), push() and pop() the ring behaves   *)
(* as the bounded queue block_queue stands for.                            *)
ImplementsQueue == Queue!Spec

(* What went through the queue is in the files in the order it was pushed, *)
(* with the flusher's line next and then the ring, across the rotations    *)
(* other threads do meanwhile.  A line written directly may overtake.      *)
QueuedInOrder ==
    LET waiting == InHand \o Contents
        gone == Len(pushed) - Len(waiting)
    IN /\ gone >= 0
       /\ waiting = [i \in 1..Len(waiting) |-> pushed[gone + i]]
       /\ \A i \in 1..gone : Contains(written, pushed[i])
       /\ \A i, j \in 1..gone : \A a, b \in 1..Len(written) :
              i < j /\ written[a] = pushed[i] /\ written[b] = pushed[j] => a < b

(* A line whose write_log() has returned is in one place exactly: once in  *)
(* the files, or still queued, or dropped; and only a full queue, after    *)
(* full() had said it was not, drops one.                                  *)
LinesAccounted ==
    LET held == written \o InHand \o Contents
        begun == {l \in Lines : l[2] <= line[l[1]]}
        writing == {Log(t) : t \in {u \in Threads : pc[u] # "idle"}}
    IN /\ IsInjective(held)
       /\ ToSet(held) \cap dropped = {}
       /\ ToSet(held) \cup dropped = begun \ writing

(* As long as no thread that took its stamp before midnight rotates after  *)
(* one that took it later, no file is opened twice.                        *)
FilesFresh ==
    LET f == files
    IN (\A i \in 2..Len(f) : f[i - 1].day <= f[i].day) =>
           \A i, j \in 1..Len(f) :
               f[i].day = f[j].day /\ f[i].part = f[j].part => i = j

(* A line that was pushed gets written: the flusher never sleeps on a      *)
(* queue with lines in it.                                                 *)
QueuedAreWritten ==
    \A l \in Lines : Contains(pushed, l) ~> Contains(written, l)
=============================================================================
