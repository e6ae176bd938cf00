----------------------------- MODULE TimeWheel ------------------------------
(***************************************************************************)
(* src/timer: the time wheel that closes idle connections.  The slots hold *)
(* doubly linked lists of heap-allocated timers; the model keeps the       *)
(* pointers, because add_timer, del_timer and tick each mend them in their *)
(* own way, and a cell that is freed may be the next one allocated.  All   *)
(* of it runs in the event loop's thread; only the clock moves meanwhile.  *)
(***************************************************************************)
EXTENDS Integers

CONSTANTS N,         \* slots
          SI,        \* seconds a slot stands for
          Timeouts,  \* arguments of add_timer
          Cells,     \* the memory timers are allocated from
          NULL,
          MaxTime    \* bound: seconds the clock runs

ASSUME WheelAssumption == /\ N \in Nat \ {0} /\ SI \in Nat \ {0}
                          /\ Timeouts \subseteq Nat
                          /\ NULL \notin Cells
                          /\ MaxTime \in Nat

VARIABLES slots, cur_slot, time_have_run,
          next, prev, rotation, time_slot,  \* the fields of each cell
          live,                             \* the cells allocated now
          now,                              \* time(NULL) - start_time
          tick, cur, tmp,                   \* where tick() is, its variables
          due      \* history: the turn of the wheel each timer is due at

wheel == <<slots, cur_slot, time_have_run>>
fields == <<next, prev, rotation, time_slot>>
walk == <<tick, cur, tmp>>
vars == <<slots, cur_slot, time_have_run, next, prev, rotation, time_slot,
          live, now, tick, cur, tmp, due>>

Slots == 0..(N - 1)
Turn == time_have_run \div SI    \* slots that have been processed so far
Ticks(timeout) == IF timeout < SI THEN 1 ELSE timeout \div SI

Init == /\ slots = [s \in Slots |-> NULL] /\ cur_slot = 0 /\ time_have_run = 0
        /\ next = [x \in Cells |-> NULL] /\ prev = [x \in Cells |-> NULL]
        /\ rotation = [x \in Cells |-> 0] /\ time_slot = [x \in Cells |-> 0]
        /\ live = {} /\ now = 0
        /\ tick = "idle" /\ cur = 0 /\ tmp = NULL
        /\ due = [x \in Cells |-> 0]

Clock == /\ now < MaxTime
         /\ now' = now + 1
         /\ UNCHANGED <<wheel, fields, live, walk, due>>

(* Mutant of SlotOf: the slot is counted from the first one. *)
SlotFromZero(ticks) == ticks % N

SlotOf(ticks) == (cur_slot + (ticks % N)) % N

add_timer(x, timeout) ==
    LET ticks == Ticks(timeout)
        ts == SlotOf(ticks)
    IN /\ tick = "idle" /\ x \notin live
       /\ live' = live \cup {x}
       /\ rotation' = [rotation EXCEPT ![x] = ticks \div N]
       /\ time_slot' = [time_slot EXCEPT ![x] = ts]
       /\ next' = [next EXCEPT ![x] = slots[ts]]
       /\ prev' = [c \in Cells |-> IF c = x THEN NULL
                                   ELSE IF c = slots[ts] THEN x ELSE prev[c]]
       /\ slots' = [slots EXCEPT ![ts] = x]
       /\ due' = [due EXCEPT ![x] = Turn + ticks]
       /\ UNCHANGED <<cur_slot, time_have_run, now, walk>>

(* delete: what a freed cell holds does not matter, because the            *)
(* constructor and add_timer assign every field.                           *)
Delete(x) == /\ live' = live \ {x}
             /\ rotation' = [rotation EXCEPT ![x] = 0]
             /\ time_slot' = [time_slot EXCEPT ![x] = 0]
             /\ due' = [due EXCEPT ![x] = 0]

(* Mutant of Unlink: the new head keeps its pointer to the freed one. *)
UnlinkHeadOnly(x, ts) ==
    /\ slots' = IF slots[ts] = x THEN [slots EXCEPT ![ts] = next[x]] ELSE slots
    /\ next' = IF slots[ts] = x THEN next
               ELSE [next EXCEPT ![prev[x]] = next[x]]
    /\ prev' = IF slots[ts] = x \/ next[x] = NULL THEN prev
               ELSE [prev EXCEPT ![next[x]] = prev[x]]

(* What del_timer and tick both do to take x out of slot ts: a head leaves *)
(* its successor as the head with no predecessor, another timer joins its  *)
(* neighbours.                                                             *)
Unlink(x, ts) ==
    /\ slots' = IF slots[ts] = x THEN [slots EXCEPT ![ts] = next[x]] ELSE slots
    /\ next' = IF slots[ts] = x THEN next
               ELSE [next EXCEPT ![prev[x]] = next[x]]
    /\ prev' = IF next[x] = NULL THEN prev
               ELSE [prev EXCEPT ![next[x]] = IF slots[ts] = x THEN NULL
                                                               ELSE prev[x]]

del_timer(x) == /\ tick = "idle" /\ x \in live
                /\ Unlink(x, time_slot[x])
                /\ Delete(x)
                /\ UNCHANGED <<cur_slot, time_have_run, now, walk>>

-----------------------------------------------------------------------------
(* tick(): one turn of the wheel for each interval that has passed.        *)
TickBegin == /\ tick = "idle"
             /\ tick' = "turn" /\ cur' = now
             /\ UNCHANGED <<wheel, fields, live, now, tmp, due>>

TickTurn == /\ tick = "turn"
            /\ IF time_have_run <= cur
               THEN tick' = "walk" /\ tmp' = slots[cur_slot]
               ELSE tick' = "idle" /\ UNCHANGED tmp
            /\ UNCHANGED <<wheel, fields, live, now, cur, due>>

(* The timer at tmp has rounds to go. *)
Spare == /\ tick = "walk" /\ tmp # NULL
         /\ rotation[tmp] > 0
         /\ rotation' = [rotation EXCEPT ![tmp] = @ - 1]
         /\ tmp' = next[tmp]
         /\ UNCHANGED <<wheel, next, prev, time_slot, live, now, tick, cur, due>>

(* The timer at tmp is due: cb_func, then it is taken out and freed. *)
Fire == /\ tick = "walk" /\ tmp # NULL
        /\ rotation[tmp] = 0
        /\ Unlink(tmp, cur_slot)
        /\ Delete(tmp)
        /\ tmp' = next[tmp]
        /\ UNCHANGED <<cur_slot, time_have_run, now, tick, cur>>

(* Mutant of TurnEnd: a tick turns the wheel at most once. *)
TurnOnce == /\ tick = "walk" /\ tmp = NULL
            /\ cur_slot' = (cur_slot + 1) % N
            /\ time_have_run' = time_have_run + SI
            /\ tick' = "idle"
            /\ UNCHANGED <<slots, fields, live, now, cur, tmp, due>>

(* Mutant of TurnEnd: the slot number does not wrap where the lists do. *)
TurnSkips == /\ tick = "walk" /\ tmp = NULL
             /\ cur_slot' = (cur_slot + 2) % N
             /\ time_have_run' = time_have_run + SI
             /\ tick' = "turn"
             /\ UNCHANGED <<slots, fields, live, now, cur, tmp, due>>

(* Mutant of TurnEnd: the wheel does not wrap at all. *)
TurnRunsOn == /\ tick = "walk" /\ tmp = NULL
              /\ cur_slot' = cur_slot + 1
              /\ time_have_run' = time_have_run + SI
              /\ tick' = "turn"
              /\ UNCHANGED <<slots, fields, live, now, cur, tmp, due>>

TurnEnd == /\ tick = "walk" /\ tmp = NULL
           /\ cur_slot' = (cur_slot + 1) % N
           /\ time_have_run' = time_have_run + SI
           /\ tick' = "turn"
           /\ UNCHANGED <<slots, fields, live, now, cur, tmp, due>>

Tick == TickBegin \/ TickTurn \/ Spare \/ Fire \/ TurnEnd

Next == \/ Clock \/ Tick
        \/ \E x \in Cells, timeout \in Timeouts : add_timer(x, timeout)
        \/ \E x \in Cells : del_timer(x)

Spec == Init /\ [][Next]_vars

-----------------------------------------------------------------------------
TypeOK == /\ slots \in [Slots -> Cells \cup {NULL}] /\ cur_slot \in Slots
          /\ time_have_run \in Nat
          /\ next \in [Cells -> Cells \cup {NULL}]
          /\ prev \in [Cells -> Cells \cup {NULL}]
          /\ rotation \in [Cells -> Nat] /\ time_slot \in [Cells -> Slots]
          /\ live \subseteq Cells /\ now \in 0..MaxTime
          /\ tick \in {"idle", "turn", "walk"} /\ cur \in 0..MaxTime
          /\ tmp \in Cells \cup {NULL} /\ due \in [Cells -> Nat]

(* The cells reachable from the head of a slot: those in every set that    *)
(* holds the head and the successor of each of its members.                *)
InSlot(s) ==
    {x \in Cells : \A S \in SUBSET Cells :
        /\ slots[s] # NULL => slots[s] \in S
        /\ \A y \in S : next[y] # NULL => next[y] \in S
        => x \in S}

(* The lists are sound at every step of add, delete and tick: a slot's     *)
(* list holds live timers only, each timer is in the list of its own slot, *)
(* next and prev mirror each other and the head has no predecessor.  So no *)
(* step follows a pointer to a freed timer, which tick's walk relies on.   *)
ListsSound ==
    /\ \A s \in Slots : InSlot(s) \subseteq live
    /\ \A x \in live :
          /\ x \in InSlot(time_slot[x])
          /\ next[x] # NULL => next[x] \in live /\ prev[next[x]] = x
          /\ (prev[x] = NULL) <=> (slots[time_slot[x]] = x)
    /\ tmp # NULL /\ tick = "walk" => tmp \in live /\ time_slot[tmp] = cur_slot

(* Between ticks, slot and rotation together say exactly how many turns    *)
(* each timer still has to go, none of them overdue.                       *)
TurnsToGo ==
    tick = "idle" =>
        \A x \in live :
            LET ahead == (time_slot[x] - cur_slot) % N
            IN due[x] = Turn + ahead + N * rotation[x]

(* A timer is fired by the turn it is due at, not by one before or after,  *)
(* also when one tick makes up for several intervals.                      *)
FiredWhenDue == [][Fire => due[tmp] = Turn]_vars

(* When tick() returns, the wheel has caught up with the clock it read:    *)
(* no timer is left whose turn began at or before that second.             *)
CaughtUp ==
    [][tick # "idle" /\ tick' = "idle" =>
          \A x \in live : due[x] * SI > cur]_vars
=============================================================================
