-------------------------- MODULE TimeWheelProofs ---------------------------
(***************************************************************************)
(* Theorems about TimeWheel, for every number of slots and timers, every   *)
(* interval and every timeout.                                             *)
(***************************************************************************)
EXTENDS TimeWheel, WellFoundedInduction, TLAPS

-----------------------------------------------------------------------------
(* Arithmetic of slots and turns. *)

(* A set of natural numbers has a least element. *)
LEMMA Least ==
    ASSUME NEW T \in SUBSET Nat, T # {}
    PROVE  \E n \in T : \A m \in T : n <= m
<1>1. PICK n \in T : \A m \in T : <<m, n>> \notin OpToRel(<, Nat)
  BY NatLessThanWellFounded, WFMin
<1>2. \A m \in T : ~(m < n)
  BY <1>1 DEF OpToRel
<1>3. \A m \in T : m \in Nat /\ n \in Nat
  OBVIOUS
<1> QED BY <1>2, <1>3

(* The remainder of what is less than two rounds. *)
LEMMA OneRound ==
    ASSUME NEW n \in Nat \ {0}, NEW i \in 0..(2 * n - 1)
    PROVE  i % n = IF i < n THEN i ELSE i - n
<1>1. CASE i < n
  BY <1>1
<1>2. CASE i >= n
  <2>1. (i - n) \in 0..(n - 1) /\ i = n * 1 + (i - n)
    BY <1>2
  <2>2. \A r \in 0..(n - 1) : (n * 1 + r) % n = r
    OBVIOUS
  <2>3. (n * 1 + (i - n)) % n = i - n
    BY <2>1, <2>2
  <2> QED BY <1>2, <2>1, <2>3
<1> QED BY <1>1, <1>2

(* How far slot b is ahead of slot a. *)
LEMMA SlotsAhead ==
    ASSUME NEW n \in Nat \ {0}, NEW a \in 0..(n - 1), NEW b \in 0..(n - 1)
    PROVE  (b - a) % n = IF b >= a THEN b - a ELSE b - a + n
<1>1. CASE b >= a
  BY <1>1
<1>2. CASE b < a
  <2>1. (b - a + n) \in 0..(n - 1) /\ b - a = n * (-1) + (b - a + n)
    BY <1>2
  <2>2. \A r \in 0..(n - 1) : (n * (-1) + r) % n = r
    OBVIOUS
  <2>3. (n * (-1) + (b - a + n)) % n = b - a + n
    BY <2>1, <2>2
  <2> QED BY <1>2, <2>1, <2>3
<1> QED BY <1>1, <1>2

(* A number of ticks is so many rounds and some slots. *)
LEMMA Rounds ==
    ASSUME NEW n \in Nat \ {0}, NEW a \in Nat
    PROVE  /\ a \div n \in Nat /\ (a % n) \in 0..(n - 1)
           /\ a = n * (a \div n) + (a % n)
OBVIOUS

(* The turns in so many whole intervals. *)
LEMMA Whole ==
    ASSUME NEW n \in Nat \ {0}, NEW k \in Nat
    PROVE  (n * k) \div n = k
<1>1. (n * k + 0) \div n = k
  OBVIOUS
<1> QED BY <1>1

-----------------------------------------------------------------------------
Pointers == Cells \cup {NULL}

(* The lists: neighbours are in the same slot and point to each other, and *)
(* the timer that nothing precedes is the head.                            *)
Linked ==
    /\ \A s \in Slots : slots[s] # NULL => slots[s] \in live /\ time_slot[slots[s]] = s
    /\ \A x \in live : (prev[x] = NULL) <=> (slots[time_slot[x]] = x)
    /\ \A x \in live : next[x] # NULL =>
          /\ next[x] \in live /\ prev[next[x]] = x
          /\ time_slot[next[x]] = time_slot[x]
    /\ \A x \in live : prev[x] # NULL =>
          /\ prev[x] \in live /\ next[prev[x]] = x
          /\ time_slot[prev[x]] = time_slot[x]

(* Each list is in order: rank grows along it, the head is the first, and  *)
(* nothing lies between a timer and the next one.                          *)
Sorted(rank) ==
    /\ rank \in [Cells -> Nat]
    /\ \A x, y \in live : time_slot[x] = time_slot[y] /\ rank[x] = rank[y] => x = y
    /\ \A x \in live : next[x] # NULL => rank[x] < rank[next[x]]
    /\ \A x, y \in live : time_slot[x] = time_slot[y] /\ rank[x] < rank[y] =>
          next[x] # NULL /\ rank[next[x]] <= rank[y]
    /\ \A x \in live : slots[time_slot[x]] # NULL /\ rank[slots[time_slot[x]]] <= rank[x]

(* What add_timer makes of the lists. *)
LEMMA AddLists ==
    ASSUME TypeOK, Linked, NEW rank, Sorted(rank),
           NEW x \in Cells, NEW timeout \in Timeouts, add_timer(x, timeout)
    PROVE  Linked' /\ Sorted([c \in Cells |-> IF c = x THEN 0 ELSE rank[c] + 1])'
<1> USE WheelAssumption
<1> DEFINE ts == SlotOf(Ticks(timeout))
           h == slots[ts]
           r == [c \in Cells |-> IF c = x THEN 0 ELSE rank[c] + 1]
<1>1. ts \in Slots /\ h \in Pointers
  <2>1. cur_slot + (Ticks(timeout) % N) \in Int
    <3>1. Ticks(timeout) \in Nat
      BY DEF Ticks
    <3> QED BY <3>1 DEF TypeOK, Slots
  <2>2. ts \in Slots
    BY <2>1 DEF SlotOf, Slots
  <2> QED BY <2>2 DEF TypeOK, Pointers
<1>2. /\ x \notin live /\ live' = live \cup {x}
      /\ time_slot' = [time_slot EXCEPT ![x] = ts]
      /\ next' = [next EXCEPT ![x] = h]
      /\ prev' = [c \in Cells |-> IF c = x THEN NULL ELSE IF c = h THEN x ELSE prev[c]]
      /\ slots' = [slots EXCEPT ![ts] = x]
  BY DEF add_timer
<1> HIDE DEF ts, h
<1>3. /\ slots'[ts] = x /\ \A s \in Slots : s # ts => slots'[s] = slots[s]
      /\ time_slot'[x] = ts /\ next'[x] = h /\ prev'[x] = NULL
      /\ \A y \in live : /\ y \in Cells /\ y # x /\ y \in live'
                         /\ time_slot'[y] = time_slot[y] /\ time_slot[y] \in Slots
                         /\ next'[y] = next[y]
                         /\ prev'[y] = IF y = h THEN x ELSE prev[y]
      /\ \A y \in live' : y = x \/ y \in live
  BY <1>1, <1>2 DEF TypeOK
<1>4. x # NULL /\ (h # NULL => h \in live /\ time_slot[h] = ts /\ prev[h] = NULL)
  BY <1>1 DEF Linked, h
<1>5. \A y \in live : slots[time_slot[y]] = y /\ y # h => time_slot[y] # ts
  BY DEF h
<1>6. Linked'
  <2>1. ASSUME NEW s \in Slots, slots'[s] # NULL
        PROVE  slots'[s] \in live' /\ time_slot'[slots'[s]] = s
    <3>1. CASE s = ts
      BY <1>2, <1>3, <3>1
    <3>2. CASE s # ts
      BY <1>3, <2>1, <3>2 DEF Linked
    <3> QED BY <3>1, <3>2
  <2>2. \A y \in live' : (prev'[y] = NULL) <=> (slots'[time_slot'[y]] = y)
    <3>1. (prev'[x] = NULL) <=> (slots'[time_slot'[x]] = x)
      BY <1>3
    <3>2. ASSUME NEW y \in live PROVE (prev'[y] = NULL) <=> (slots'[time_slot'[y]] = y)
      <4>1. CASE y = h
        BY <1>3, <1>4, <4>1
      <4>2. CASE y # h
        BY <1>3, <1>4, <1>5, <4>2 DEF Linked
      <4> QED BY <4>1, <4>2
    <3> QED BY <1>3, <3>1, <3>2
  <2>3. \A y \in live' : next'[y] # NULL =>
           /\ next'[y] \in live' /\ prev'[next'[y]] = y
           /\ time_slot'[next'[y]] = time_slot'[y]
    <3>1. ASSUME NEW y \in live, next[y] # NULL PROVE next[y] # h
      <4>1. prev[next[y]] = y /\ y # NULL
        BY <1>3, <3>1 DEF Linked
      <4> QED BY <1>4, <3>1, <4>1
    <3> QED BY <1>3, <1>4, <3>1 DEF Linked
  <2>4. \A y \in live' : prev'[y] # NULL =>
           /\ prev'[y] \in live' /\ next'[prev'[y]] = y
           /\ time_slot'[prev'[y]] = time_slot'[y]
    <3>1. ASSUME NEW y \in live, prev'[y] # NULL
          PROVE  /\ prev'[y] \in live' /\ next'[prev'[y]] = y
                 /\ time_slot'[prev'[y]] = time_slot'[y]
      <4>1. CASE y = h
        BY <1>2, <1>3, <1>4, <4>1
      <4>2. CASE y # h
        BY <1>3, <3>1, <4>2 DEF Linked
      <4> QED BY <4>1, <4>2
    <3> QED BY <1>3, <3>1
  <2> QED BY <2>1, <2>2, <2>3, <2>4 DEF Linked
<1>7. Sorted(r)'
  <2>1. r \in [Cells -> Nat] /\ r[x] = 0 /\ \A y \in live : r[y] = rank[y] + 1 /\ rank[y] \in Nat
    BY <1>3 DEF Sorted
  <2> HIDE DEF r
  <2>2. \A y, z \in live' : time_slot'[y] = time_slot'[z] /\ r[y] = r[z] => y = z
    BY <1>3, <2>1 DEF Sorted
  <2>3. \A y \in live' : next'[y] # NULL => r[y] < r[next'[y]]
    BY <1>3, <1>4, <2>1 DEF Sorted, Linked
  <2>4. \A y, z \in live' : time_slot'[y] = time_slot'[z] /\ r[y] < r[z] =>
           next'[y] # NULL /\ r[next'[y]] <= r[z]
    <3>1. ASSUME NEW z \in live, time_slot[z] = ts
          PROVE  h # NULL /\ r[h] <= r[z]
      BY <1>4, <2>1, <3>1 DEF Sorted, h
    <3>2. ASSUME NEW y \in live, NEW z \in live, time_slot[y] = time_slot[z], r[y] < r[z]
          PROVE  next[y] # NULL /\ r[next[y]] <= r[z]
      <4>1. rank[y] < rank[z]
        BY <2>1, <3>2
      <4>2. next[y] # NULL /\ rank[next[y]] <= rank[z] /\ next[y] \in live
        BY <3>2, <4>1 DEF Sorted, Linked
      <4> QED BY <2>1, <4>2
    <3> QED BY <1>3, <2>1, <3>1, <3>2
  <2>5. \A y \in live' : slots'[time_slot'[y]] # NULL /\ r[slots'[time_slot'[y]]] <= r[y]
    <3>1. ASSUME NEW y \in live, time_slot[y] # ts
          PROVE  slots[time_slot[y]] # NULL /\ r[slots[time_slot[y]]] <= r[y]
      <4>1. /\ slots[time_slot[y]] # NULL /\ slots[time_slot[y]] \in live
            /\ rank[slots[time_slot[y]]] <= rank[y]
        BY <1>3 DEF Sorted, Linked
      <4> QED BY <2>1, <4>1
    <3> QED BY <1>3, <1>4, <2>1, <3>1
  <2>6. r' = r
    BY DEF r
  <2> QED BY <2>1, <2>2, <2>3, <2>4, <2>5 DEF Sorted
<1> QED BY <1>6, <1>7

(* Taking a timer out of its slot and freeing it keeps the lists sound and *)
(* in the same order.                                                      *)
LEMMA UnlinkLists ==
    ASSUME TypeOK, Linked, NEW rank, Sorted(rank),
           NEW x \in live, Unlink(x, time_slot[x]), Delete(x)
    PROVE  Linked' /\ Sorted(rank)'
<1> USE WheelAssumption
<1> DEFINE s == time_slot[x]
           p == prev[x]
           n == next[x]
<1>1. x \in Cells /\ x # NULL /\ s \in Slots /\ p \in Pointers /\ n \in Pointers
  BY DEF TypeOK, Pointers
<1>2. /\ (p = NULL) <=> (slots[s] = x)
      /\ n # NULL => n \in live /\ prev[n] = x /\ time_slot[n] = s /\ rank[x] < rank[n]
      /\ p # NULL => p \in live /\ next[p] = x /\ time_slot[p] = s /\ rank[p] < rank[x]
  <2>1. /\ (p = NULL) <=> (slots[s] = x)
        /\ n # NULL => n \in live /\ prev[n] = x /\ time_slot[n] = s
        /\ p # NULL => p \in live /\ next[p] = x /\ time_slot[p] = s
    BY DEF Linked
  <2>2. \A y \in live : next[y] # NULL => rank[y] < rank[next[y]]
    BY DEF Sorted
  <2>3. n # NULL => rank[x] < rank[n]
    BY <2>2
  <2>4. p # NULL => rank[p] < rank[x]
    BY <1>1, <2>1, <2>2
  <2> HIDE DEF s, p, n
  <2> QED BY <2>1, <2>3, <2>4
<1>3. \A y \in live : rank[y] \in Nat
  BY DEF Sorted, TypeOK
<1>4. n # x /\ p # x
  <2>1. ~ (rank[x] < rank[x])
    BY <1>3
  <2> HIDE DEF s, p, n
  <2> QED BY <1>1, <1>2, <2>1
<1>5. live' = live \ {x} /\ \A y \in live' : y \in live /\ y \in Cells /\ y # x /\ y # NULL
  BY <1>1 DEF Delete, TypeOK
<1>6. \A t \in Slots : slots'[t] = IF t = s /\ p = NULL THEN n ELSE slots[t]
  BY <1>2 DEF Unlink, TypeOK
<1>7. \A y \in live' : time_slot'[y] = time_slot[y] /\ time_slot[y] \in Slots
  BY <1>5 DEF Delete, TypeOK
<1>8. \A y \in live' : next'[y] = IF y = p THEN n ELSE next[y]
  BY <1>2, <1>5 DEF Unlink, TypeOK
<1>9. \A y \in live' : prev'[y] = IF y = n THEN p ELSE prev[y]
  BY <1>2, <1>5 DEF Unlink, TypeOK
<1> HIDE DEF s, p, n
<1>10. (\A y \in live : prev[y] = x => y = n) /\ (\A y \in live : next[y] = x => y = p)
  <2>1. ASSUME NEW y \in live PROVE prev[y] = x => y = n
    <3>1. prev[y] # NULL => next[prev[y]] = y
      BY DEF Linked
    <3>2. y # NULL
      BY <1>1 DEF TypeOK
    <3> QED BY <1>1, <1>2, <3>1, <3>2 DEF n
  <2>2. ASSUME NEW y \in live PROVE next[y] = x => y = p
    <3>1. next[y] # NULL => prev[next[y]] = y
      BY DEF Linked
    <3>2. y # NULL
      BY <1>1 DEF TypeOK
    <3> QED BY <1>1, <1>2, <3>1, <3>2 DEF p
  <2> QED BY <2>1, <2>2
<1>11. \A y \in live : (slots[s] = y /\ p = NULL) => y = x
  BY <1>2
<1>12. Linked'
  <2>1. ASSUME NEW t \in Slots, slots'[t] # NULL
        PROVE  slots'[t] \in live' /\ time_slot'[slots'[t]] = t
    <3>1. CASE t = s /\ p = NULL
      BY <1>2, <1>4, <1>5, <1>6, <1>7, <1>8, <1>9, <2>1, <3>1
    <3>2. CASE ~ (t = s /\ p = NULL)
      <4>1. slots'[t] = slots[t] /\ slots[t] \in live /\ time_slot[slots[t]] = t
        BY <1>5, <1>6, <1>7, <1>8, <1>9, <2>1, <3>2 DEF Linked
      <4>2. slots[t] # x
        BY <1>2, <3>2, <4>1 DEF s
      <4> QED BY <1>5, <1>6, <1>7, <1>8, <1>9, <4>1, <4>2
    <3> QED BY <3>1, <3>2
  <2>2. ASSUME NEW y \in live' PROVE (prev'[y] = NULL) <=> (slots'[time_slot'[y]] = y)
    <3>1. (prev[y] = NULL) <=> (slots[time_slot[y]] = y)
      BY <1>5, <1>6, <1>7, <1>8, <1>9 DEF Linked
    <3>2. CASE y = n
      BY <1>1, <1>2, <1>5, <1>6, <1>7, <1>8, <1>9, <3>1, <3>2
    <3>3. CASE y # n
      BY <1>2, <1>5, <1>6, <1>7, <1>8, <1>9, <3>1, <3>3
    <3> QED BY <3>2, <3>3
  <2>3. ASSUME NEW y \in live', next'[y] # NULL
        PROVE  /\ next'[y] \in live' /\ prev'[next'[y]] = y
               /\ time_slot'[next'[y]] = time_slot'[y]
    <3>1. CASE y = p
      BY <1>2, <1>4, <1>5, <1>6, <1>7, <1>8, <1>9, <2>3, <3>1
    <3>2. CASE y # p
      <4>1. /\ next'[y] = next[y] /\ next[y] \in live /\ prev[next[y]] = y
            /\ time_slot[next[y]] = time_slot[y]
        BY <1>5, <1>6, <1>7, <1>8, <1>9, <2>3, <3>2 DEF Linked
      <4>2. next[y] # x /\ next[y] # n
        <5>1. y \in live /\ y # x
          BY <1>5
        <5>2. next[y] # x
          BY <1>10, <5>1, <3>2
        <5>3. next[y] # n
          BY <1>2, <2>3, <4>1, <5>1
        <5> QED BY <5>2, <5>3
      <4> QED BY <1>5, <1>6, <1>7, <1>8, <1>9, <4>1, <4>2
    <3> QED BY <3>1, <3>2
  <2>4. ASSUME NEW y \in live', prev'[y] # NULL
        PROVE  /\ prev'[y] \in live' /\ next'[prev'[y]] = y
               /\ time_slot'[prev'[y]] = time_slot'[y]
    <3>1. CASE y = n
      BY <1>2, <1>4, <1>5, <1>6, <1>7, <1>8, <1>9, <2>4, <3>1
    <3>2. CASE y # n
      <4>1. /\ prev'[y] = prev[y] /\ prev[y] \in live /\ next[prev[y]] = y
            /\ time_slot[prev[y]] = time_slot[y]
        BY <1>5, <1>6, <1>7, <1>8, <1>9, <2>4, <3>2 DEF Linked
      <4>2. prev[y] # x /\ prev[y] # p
        <5>1. y \in live /\ y # x
          BY <1>5
        <5>2. prev[y] # x
          BY <1>10, <5>1, <3>2
        <5>3. prev[y] # p
          BY <1>2, <2>4, <4>1, <5>1, <3>2, <1>8, <1>9
        <5> QED BY <5>2, <5>3
      <4> QED BY <1>5, <1>6, <1>7, <1>8, <1>9, <4>1, <4>2
    <3> QED BY <3>1, <3>2
  <2> QED BY <2>1, <2>2, <2>3, <2>4 DEF Linked
<1>13. Sorted(rank)'
  <2>1. /\ rank \in [Cells -> Nat]
        /\ \A y, z \in live' : time_slot'[y] = time_slot'[z] /\ rank[y] = rank[z] => y = z
    BY <1>5, <1>6, <1>7, <1>8, <1>9 DEF Sorted
  <2>2. ASSUME NEW y \in live', next'[y] # NULL PROVE rank[y] < rank[next'[y]]
    <3>1. CASE y = p
      BY <1>2, <1>3, <1>5, <1>6, <1>7, <1>8, <1>9, <2>2, <3>1
    <3>2. CASE y # p
      BY <1>5, <1>6, <1>7, <1>8, <1>9, <2>2, <3>2 DEF Sorted
    <3> QED BY <3>1, <3>2
  <2>3. ASSUME NEW z \in live', time_slot[z] = s, rank[x] <= rank[z]
        PROVE  n # NULL /\ rank[n] <= rank[z]
    <3>1. rank[x] # rank[z]
      BY <1>5, <1>6, <1>7, <1>8, <1>9, <2>3 DEF Sorted, s
    <3>2. rank[x] < rank[z]
      BY <1>3, <1>5, <1>6, <1>7, <1>8, <1>9, <2>3, <3>1
    <3> QED BY <1>5, <1>6, <1>7, <1>8, <1>9, <2>3, <3>2 DEF Sorted, s, n
  <2>4. ASSUME NEW y \in live', NEW z \in live', time_slot'[y] = time_slot'[z], rank[y] < rank[z]
        PROVE  next'[y] # NULL /\ rank[next'[y]] <= rank[z]
    <3>1. next[y] # NULL /\ rank[next[y]] <= rank[z]
      BY <1>5, <1>6, <1>7, <1>8, <1>9, <2>4 DEF Sorted
    <3>2. CASE y = p
      BY <1>2, <1>5, <1>6, <1>7, <1>8, <1>9, <2>3, <2>4, <3>1, <3>2
    <3>3. CASE y # p
      BY <1>5, <1>6, <1>7, <1>8, <1>9, <3>1, <3>3
    <3> QED BY <3>2, <3>3
  <2>5. ASSUME NEW y \in live'
        PROVE  slots'[time_slot'[y]] # NULL /\ rank[slots'[time_slot'[y]]] <= rank[y]
    <3>1. slots[time_slot[y]] # NULL /\ rank[slots[time_slot[y]]] <= rank[y]
      BY <1>5, <1>6, <1>7, <1>8, <1>9 DEF Sorted
    <3>2. CASE time_slot[y] = s /\ p = NULL
      BY <1>2, <1>5, <1>6, <1>7, <1>8, <1>9, <2>3, <3>1, <3>2
    <3>3. CASE ~ (time_slot[y] = s /\ p = NULL)
      BY <1>5, <1>6, <1>7, <1>8, <1>9, <3>1, <3>3
    <3> QED BY <3>2, <3>3
  <2> QED BY <2>1, <2>2, <2>4, <2>5 DEF Sorted
<1> QED BY <1>12, <1>13

-----------------------------------------------------------------------------
(* What is left when a timer is taken out and freed is of its type. *)
LEMMA UnlinkType ==
    ASSUME TypeOK, NEW x \in Cells, NEW ts \in Slots, Unlink(x, ts), Delete(x)
    PROVE  /\ slots' \in [Slots -> Cells \cup {NULL}]
           /\ next' \in [Cells -> Cells \cup {NULL}]
           /\ prev' \in [Cells -> Cells \cup {NULL}]
           /\ rotation' \in [Cells -> Nat] /\ time_slot' \in [Cells -> Slots]
           /\ live' \subseteq Cells /\ due' \in [Cells -> Nat]
<1> USE WheelAssumption
<1>1. slots' \in [Slots -> Cells \cup {NULL}]
  BY DEF TypeOK, Unlink
<1>2. next' \in [Cells -> Cells \cup {NULL}]
  BY DEF TypeOK, Unlink
<1>3. prev' \in [Cells -> Cells \cup {NULL}]
  BY DEF TypeOK, Unlink
<1>4. /\ rotation' \in [Cells -> Nat] /\ time_slot' \in [Cells -> Slots]
      /\ live' \subseteq Cells /\ due' \in [Cells -> Nat]
  BY DEF TypeOK, Delete, Slots
<1> QED BY <1>1, <1>2, <1>3, <1>4

(* The turn is a number of its own. *)
LEMMA TurnType ==
    ASSUME TypeOK
    PROVE  Turn \in Nat
BY WheelAssumption DEF TypeOK, Turn

(* What add_timer reckons with: the whole rounds and the slots of a        *)
(* timeout, and the slot those lead to.                                    *)
LEMMA SlotOfTimeout ==
    ASSUME TypeOK, NEW timeout \in Timeouts
    PROVE  /\ Ticks(timeout) \in Nat /\ Ticks(timeout) \div N \in Nat
           /\ SlotOf(Ticks(timeout)) \in Slots
           /\ Ticks(timeout) =
                 ((SlotOf(Ticks(timeout)) - cur_slot) % N) + N * (Ticks(timeout) \div N)
<1> USE WheelAssumption
<1> DEFINE ticks == Ticks(timeout)
           m == ticks % N
           s == (cur_slot + m) % N
<1>1. ticks \in Nat
  BY DEF Ticks
<1> HIDE DEF ticks
<1>2. ticks \div N \in Nat /\ m \in 0..(N - 1) /\ ticks = N * (ticks \div N) + m
  BY <1>1, Rounds
<1>3. cur_slot \in 0..(N - 1)
  BY DEF TypeOK, Slots
<1> HIDE DEF m
<1>4. cur_slot + m \in 0..(2 * N - 1)
  BY <1>2, <1>3
<1>5. s = IF cur_slot + m < N THEN cur_slot + m ELSE cur_slot + m - N
  <2> DEFINE i == cur_slot + m
  <2>1. i \in 0..(2 * N - 1)
    BY <1>4
  <2> HIDE DEF i
  <2>2. i % N = IF i < N THEN i ELSE i - N
    BY <2>1, OneRound
  <2>3. s = i % N
    BY DEF i
  <2> HIDE DEF s
  <2> QED BY <1>2, <1>3, <2>2, <2>3 DEF i
<1> HIDE DEF s
<1>6. s \in 0..(N - 1)
  BY <1>2, <1>3, <1>4, <1>5
<1>7. (s - cur_slot) % N = IF s >= cur_slot THEN s - cur_slot ELSE s - cur_slot + N
  BY <1>3, <1>6, SlotsAhead
<1>8. (s - cur_slot) % N = m
  BY <1>2, <1>3, <1>5, <1>6, <1>7
<1>9. N * (ticks \div N) \in Nat
  BY <1>2
<1>10. ticks = ((s - cur_slot) % N) + N * (ticks \div N)
  BY <1>2, <1>8, <1>9
<1>11. SlotOf(ticks) = s
  BY DEF SlotOf, s, m
<1> QED BY <1>1, <1>2, <1>6, <1>10, <1>11 DEF Slots, ticks

(* The next slot, and how far the slots are ahead of it. *)
LEMMA NextSlot ==
    ASSUME NEW n \in Nat \ {0}, NEW c \in 0..(n - 1)
    PROVE  /\ (c + 1) % n \in 0..(n - 1)
           /\ (c - ((c + 1) % n)) % n = n - 1
           /\ \A s \in 0..(n - 1) : s # c =>
                 (s - ((c + 1) % n)) % n = ((s - c) % n) - 1
<1> DEFINE d == (c + 1) % n
<1>1. d = IF c + 1 < n THEN c + 1 ELSE c + 1 - n
  <2> DEFINE i == c + 1
  <2>1. i \in 0..(2 * n - 1)
    OBVIOUS
  <2> HIDE DEF i
  <2>2. i % n = IF i < n THEN i ELSE i - n
    BY <2>1, OneRound
  <2> QED BY <2>2 DEF i
<1> HIDE DEF d
<1>2. d \in 0..(n - 1)
  BY <1>1
<1>3. (c - d) % n = n - 1
  <2>1. (c - d) % n = IF c >= d THEN c - d ELSE c - d + n
    BY <1>2, SlotsAhead
  <2> QED BY <1>1, <1>2, <2>1
<1>4. ASSUME NEW s \in 0..(n - 1), s # c
      PROVE  (s - d) % n = ((s - c) % n) - 1
  <2>1. (s - d) % n = IF s >= d THEN s - d ELSE s - d + n
    BY <1>2, SlotsAhead
  <2>2. (s - c) % n = IF s >= c THEN s - c ELSE s - c + n
    BY SlotsAhead
  <2> QED BY <1>1, <1>2, <1>4, <2>1, <2>2
<1> QED BY <1>2, <1>3, <1>4 DEF d

(* TypeOK: what each step leaves is of its type. *)
LEMMA TypeStep ==
    ASSUME TypeOK, Next
    PROVE  TypeOK'
<1> USE WheelAssumption
<1>1. CASE Clock
  BY <1>1 DEF TypeOK, Clock, wheel, fields, walk
<1>2. CASE TickBegin
  BY <1>2 DEF TypeOK, TickBegin, wheel, fields
<1>3. CASE TickTurn
  BY <1>3 DEF TypeOK, TickTurn, wheel, fields
<1>4. CASE Spare
  <2>1. rotation' \in [Cells -> Nat]
    BY <1>4 DEF TypeOK, Spare
  <2>2. tmp' \in Cells \cup {NULL}
    BY <1>4 DEF TypeOK, Spare
  <2> QED BY <1>4, <2>1, <2>2 DEF TypeOK, Spare, wheel
<1>5. CASE Fire
  <2>1. tmp \in Cells /\ cur_slot \in Slots /\ tmp' \in Cells \cup {NULL}
    BY <1>5 DEF TypeOK, Fire
  <2>2. Unlink(tmp, cur_slot) /\ Delete(tmp)
    BY <1>5 DEF Fire
  <2> QED BY <1>5, <2>1, <2>2, UnlinkType DEF TypeOK, Fire
<1>6. CASE TurnEnd
  <2>1. (cur_slot + 1) % N \in Slots
    BY NextSlot DEF TypeOK, Slots
  <2> QED BY <1>6, <2>1 DEF TypeOK, TurnEnd, fields
<1>7. ASSUME NEW x \in Cells, NEW timeout \in Timeouts, add_timer(x, timeout)
      PROVE  TypeOK'
  <2> DEFINE ts == SlotOf(Ticks(timeout))
  <2>1. /\ ts \in Slots /\ Ticks(timeout) \in Nat /\ Ticks(timeout) \div N \in Nat
    BY SlotOfTimeout
  <2>2. Turn + Ticks(timeout) \in Nat
    BY <2>1, TurnType
  <2>3. due' \in [Cells -> Nat] /\ rotation' \in [Cells -> Nat] /\ live' \subseteq Cells
    BY <1>7, <2>1, <2>2 DEF add_timer, TypeOK
  <2>4. /\ slots' = [slots EXCEPT ![ts] = x] /\ time_slot' = [time_slot EXCEPT ![x] = ts]
        /\ next' = [next EXCEPT ![x] = slots[ts]]
        /\ prev' = [c \in Cells |-> IF c = x THEN NULL ELSE IF c = slots[ts] THEN x ELSE prev[c]]
    BY <1>7 DEF add_timer
  <2> HIDE DEF ts
  <2>5. /\ slots' \in [Slots -> Cells \cup {NULL}] /\ time_slot' \in [Cells -> Slots]
        /\ next' \in [Cells -> Cells \cup {NULL}]
        /\ prev' \in [Cells -> Cells \cup {NULL}]
    BY <2>1, <2>4 DEF TypeOK
  <2> QED BY <1>7, <2>3, <2>5 DEF TypeOK, add_timer, walk
<1>8. ASSUME NEW x \in Cells, del_timer(x) PROVE TypeOK'
  <2>1. time_slot[x] \in Slots /\ Unlink(x, time_slot[x]) /\ Delete(x)
    BY <1>8 DEF TypeOK, del_timer
  <2> QED BY <1>8, <2>1, UnlinkType DEF TypeOK, del_timer, walk
<1> QED BY <1>1, <1>2, <1>3, <1>4, <1>5, <1>6, <1>7, <1>8 DEF Next, Tick

(* Every pointer, slot and count of the wheel stays of its type; the       *)
(* current slot never leaves the wheel.                                    *)
THEOREM TypeCorrect == Spec => []TypeOK
<1>1. Init => TypeOK
  BY WheelAssumption DEF Init, TypeOK, Slots
<1>2. TypeOK /\ UNCHANGED vars => TypeOK'
  BY DEF TypeOK, vars
<1> QED BY <1>1, <1>2, TypeStep, PTL DEF Spec

-----------------------------------------------------------------------------
(* The walk has reached a timer of the slot it is in. *)
Walking == tick = "walk" /\ tmp # NULL => tmp \in live /\ time_slot[tmp] = cur_slot

(* The timers of the current slot that the walk has passed already. *)
Passed(rank, x) ==
    tick = "walk" /\ time_slot[x] = cur_slot /\ (tmp = NULL \/ rank[x] < rank[tmp])

(* Slot and rotation give the turn a timer is due at, where one that was   *)
(* passed in this turn has had its rotation taken down for it.             *)
Turns(rank) ==
    \A x \in live :
        due[x] = Turn + ((time_slot[x] - cur_slot) % N)
                      + N * (IF Passed(rank, x) THEN rotation[x] + 1 ELSE rotation[x])

(* The inductive invariant. *)
Inv == /\ TypeOK /\ SI * Turn = time_have_run
       /\ Walking
       /\ \E rank : Linked /\ Sorted(rank) /\ Turns(rank)

(* Where no timer was passed, rank says nothing. *)
LEMMA AddTurns ==
    ASSUME TypeOK, NEW rank, Turns(rank), NEW r,
           NEW x \in Cells, NEW timeout \in Timeouts, add_timer(x, timeout)
    PROVE  Turns(r)'
<1> USE WheelAssumption
<1> DEFINE ticks == Ticks(timeout)
           ts == SlotOf(ticks)
<1>1. /\ ticks \in Nat /\ ticks \div N \in Nat /\ ts \in Slots
      /\ ticks = ((ts - cur_slot) % N) + N * (ticks \div N)
  BY SlotOfTimeout
<1>2. /\ live' = live \cup {x} /\ tick = "idle" /\ tick' = "idle"
      /\ rotation' = [rotation EXCEPT ![x] = ticks \div N]
      /\ time_slot' = [time_slot EXCEPT ![x] = ts]
      /\ due' = [due EXCEPT ![x] = Turn + ticks]
      /\ cur_slot' = cur_slot /\ time_have_run' = time_have_run /\ x \notin live
  BY DEF add_timer, walk
<1> HIDE DEF ts, ticks
<1>3. Turn' = Turn /\ Turn \in Nat
  BY <1>2, TurnType DEF Turn
<1>4. /\ rotation'[x] = ticks \div N /\ time_slot'[x] = ts /\ due'[x] = Turn + ticks
      /\ \A y \in live : y # x /\ rotation'[y] = rotation[y] /\ time_slot'[y] = time_slot[y]
                               /\ due'[y] = due[y]
  BY <1>1, <1>2 DEF TypeOK
<1>5. ASSUME NEW y \in live'
      PROVE  due'[y] = Turn' + ((time_slot'[y] - cur_slot') % N) + N * rotation'[y]
  <2>1. CASE y = x
    <3>1. (ts - cur_slot) % N \in Nat /\ N * (ticks \div N) \in Nat
      <4>1. ts \in 0..(N - 1) /\ cur_slot \in 0..(N - 1)
        BY <1>1 DEF TypeOK, Slots
      <4> QED BY <1>1, <4>1
    <3>2. Turn + ticks = Turn + ((ts - cur_slot) % N) + N * (ticks \div N)
      BY <1>1, <1>3, <3>1
    <3> QED BY <1>2, <1>3, <1>4, <2>1, <3>2
  <2>2. CASE y # x
    <3>1. y \in live /\ ~ Passed(rank, y)
      BY <1>2, <2>2 DEF Passed
    <3>2. due[y] = Turn + ((time_slot[y] - cur_slot) % N) + N * rotation[y]
      BY <3>1 DEF Turns
    <3> QED BY <1>2, <1>3, <1>4, <3>1, <3>2
  <2> QED BY <2>1, <2>2
<1>6. \A y \in live' : ~ Passed(r, y)'
  BY <1>2 DEF Passed
<1> QED BY <1>5, <1>6 DEF Turns

(* A timer that is taken out between ticks leaves the others theirs. *)
LEMMA DeleteTurns ==
    ASSUME TypeOK, NEW rank, Turns(rank), NEW x \in Cells, del_timer(x)
    PROVE  Turns(rank)'
<1>1. /\ live' = live \ {x} /\ tick = "idle" /\ tick' = "idle"
      /\ cur_slot' = cur_slot /\ Turn' = Turn
  BY DEF del_timer, Delete, walk, Turn
<1>2. \A y \in live' : /\ y \in live /\ rotation'[y] = rotation[y]
                       /\ time_slot'[y] = time_slot[y] /\ due'[y] = due[y]
  BY <1>1 DEF del_timer, Delete, TypeOK
<1>3. \A y \in live : ~ Passed(rank, y)
  BY <1>1 DEF Passed
<1>4. \A y \in live' : ~ Passed(rank, y)'
  BY <1>1 DEF Passed
<1>5. \A y \in live : due[y] = Turn + ((time_slot[y] - cur_slot) % N) + N * rotation[y]
  BY <1>3 DEF Turns
<1>6. \A y \in live' : due'[y] = Turn' + ((time_slot'[y] - cur_slot') % N) + N * rotation'[y]
  BY <1>1, <1>2, <1>5
<1> QED BY <1>4, <1>6 DEF Turns

(* When a turn begins, the walk has passed nothing yet. *)
LEMMA TickTurns ==
    ASSUME TypeOK, NEW rank, Linked, Sorted(rank), Turns(rank), TickTurn
    PROVE  Turns(rank)'
<1>1. /\ live' = live /\ rotation' = rotation /\ time_slot' = time_slot /\ due' = due
      /\ cur_slot' = cur_slot /\ Turn' = Turn /\ tick = "turn"
      /\ tick' = "walk" => tmp' = slots[cur_slot]
  BY DEF TickTurn, wheel, fields, Turn
<1>2. \A y \in live : ~ Passed(rank, y)
  BY <1>1 DEF Passed
<1>3. ASSUME NEW y \in live PROVE ~ Passed(rank, y)'
  <2>1. /\ slots[time_slot[y]] # NULL /\ rank[slots[time_slot[y]]] <= rank[y]
        /\ rank[y] \in Nat /\ rank[slots[time_slot[y]]] \in Nat
    <3>1. slots[time_slot[y]] # NULL /\ rank[slots[time_slot[y]]] <= rank[y]
      BY DEF Sorted
    <3>2. time_slot[y] \in Slots /\ y \in Cells
      BY DEF TypeOK
    <3>3. slots[time_slot[y]] \in Cells
      BY <3>1, <3>2 DEF TypeOK
    <3> QED BY <3>1, <3>2, <3>3 DEF Sorted
  <2>2. ~ (rank[y] < rank[slots[time_slot[y]]])
    BY <2>1
  <2> QED BY <1>1, <2>1, <2>2 DEF Passed
<1>4. \A y \in live : due[y] = Turn + ((time_slot[y] - cur_slot) % N) + N * rotation[y]
  BY <1>2 DEF Turns
<1> QED BY <1>1, <1>3, <1>4 DEF Turns

(* Going on from tmp passes tmp and nothing else. *)
LEMMA PassedNext ==
    ASSUME TypeOK, NEW rank, Linked, Sorted(rank),
           tmp # NULL, tmp \in live, time_slot[tmp] = cur_slot
    PROVE  /\ next[tmp] # NULL => rank[tmp] < rank[next[tmp]]
           /\ \A y \in live : time_slot[y] = cur_slot /\ y # tmp =>
                 (rank[y] < rank[tmp]) <=> (next[tmp] = NULL \/ rank[y] < rank[next[tmp]])
<1>1. next[tmp] # NULL => next[tmp] \in live /\ rank[tmp] < rank[next[tmp]]
  BY DEF Linked, Sorted
<1>2. \A y \in live : rank[y] \in Nat
  BY DEF Sorted, TypeOK
<1>3. ASSUME NEW y \in live, time_slot[y] = cur_slot, y # tmp
      PROVE  (rank[y] < rank[tmp]) <=> (next[tmp] = NULL \/ rank[y] < rank[next[tmp]])
  <2>1. CASE rank[y] < rank[tmp]
    BY <1>1, <1>2, <2>1
  <2>2. CASE ~ (rank[y] < rank[tmp])
    <3>1. rank[y] # rank[tmp]
      BY <1>3 DEF Sorted
    <3>2. rank[tmp] < rank[y]
      BY <1>2, <2>2, <3>1
    <3>3. next[tmp] # NULL /\ rank[next[tmp]] <= rank[y]
      BY <1>3, <3>2 DEF Sorted
    <3> QED BY <1>1, <1>2, <2>2, <3>3
  <2> QED BY <2>1, <2>2
<1> QED BY <1>1, <1>3

(* A timer with rounds to go has one less and was passed. *)
LEMMA SpareTurns ==
    ASSUME TypeOK, NEW rank, Linked, Sorted(rank), Turns(rank), Walking, Spare
    PROVE  Turns(rank)'
<1> USE WheelAssumption
<1>1. /\ tick = "walk" /\ tick' = "walk" /\ tmp # NULL /\ tmp' = next[tmp]
      /\ live' = live /\ time_slot' = time_slot /\ due' = due
      /\ cur_slot' = cur_slot /\ Turn' = Turn
      /\ tmp \in live /\ time_slot[tmp] = cur_slot
  BY DEF Spare, wheel, Walking, Turn
<1>2. /\ rotation'[tmp] = rotation[tmp] - 1 /\ rotation[tmp] \in Nat
      /\ \A y \in live : y # tmp => rotation'[y] = rotation[y]
  BY <1>1 DEF Spare, TypeOK
<1>3. /\ next[tmp] # NULL => rank[tmp] < rank[next[tmp]]
      /\ \A y \in live : time_slot[y] = cur_slot /\ y # tmp =>
            (rank[y] < rank[tmp]) <=> (next[tmp] = NULL \/ rank[y] < rank[next[tmp]])
  BY <1>1, PassedNext
<1>4. \A y \in live : y = tmp => Passed(rank, y)'
  BY <1>1, <1>3 DEF Passed
<1>5. \A y \in live : y # tmp => (Passed(rank, y) <=> Passed(rank, y)')
  BY <1>1, <1>3 DEF Passed
<1>6. \A y \in live : y = tmp => ~ Passed(rank, y)
  <2>1. rank[tmp] \in Nat
    BY <1>1 DEF Sorted, TypeOK
  <2> QED BY <1>1, <2>1 DEF Passed
<1>7. ASSUME NEW y \in live'
      PROVE  due'[y] = Turn' + ((time_slot'[y] - cur_slot') % N)
                         + N * (IF Passed(rank, y)' THEN rotation'[y] + 1 ELSE rotation'[y])
  <2>1. due[y] = Turn + ((time_slot[y] - cur_slot) % N)
                   + N * (IF Passed(rank, y) THEN rotation[y] + 1 ELSE rotation[y])
    BY <1>1, <1>7 DEF Turns
  <2>2. CASE y = tmp
    <3>1. rotation'[y] + 1 = rotation[y]
      BY <1>2, <2>2
    <3>2. (IF Passed(rank, y)' THEN rotation'[y] + 1 ELSE rotation'[y])
            = (IF Passed(rank, y) THEN rotation[y] + 1 ELSE rotation[y])
      BY <1>1, <1>4, <1>6, <1>7, <2>2, <3>1
    <3> QED BY <1>1, <2>1, <3>2
  <2>3. CASE y # tmp
    <3>1. (IF Passed(rank, y)' THEN rotation'[y] + 1 ELSE rotation'[y])
            = (IF Passed(rank, y) THEN rotation[y] + 1 ELSE rotation[y])
      BY <1>1, <1>2, <1>5, <1>7, <2>3
    <3> QED BY <1>1, <2>1, <3>1
  <2> QED BY <2>2, <2>3
<1> QED BY <1>7 DEF Turns

(* The others keep theirs when one is fired. *)
LEMMA FireTurns ==
    ASSUME TypeOK, NEW rank, Linked, Sorted(rank), Turns(rank), Walking, Fire
    PROVE  Turns(rank)'
<1>1. /\ tick = "walk" /\ tick' = "walk" /\ tmp # NULL /\ tmp' = next[tmp]
      /\ live' = live \ {tmp}
      /\ cur_slot' = cur_slot /\ Turn' = Turn
      /\ tmp \in live /\ time_slot[tmp] = cur_slot
  BY DEF Fire, Delete, Walking, Turn
<1>2. \A y \in live' : /\ y \in live /\ y # tmp
                       /\ rotation'[y] = rotation[y]
                       /\ time_slot'[y] = time_slot[y] /\ due'[y] = due[y]
  BY <1>1 DEF Fire, Delete, TypeOK
<1>3. \A y \in live : time_slot[y] = cur_slot /\ y # tmp =>
            (rank[y] < rank[tmp]) <=> (next[tmp] = NULL \/ rank[y] < rank[next[tmp]])
  BY <1>1, PassedNext
<1>4. \A y \in live' : Passed(rank, y) <=> Passed(rank, y)'
  BY <1>1, <1>2, <1>3 DEF Passed
<1>5. ASSUME NEW y \in live'
      PROVE  due'[y] = Turn' + ((time_slot'[y] - cur_slot') % N)
                         + N * (IF Passed(rank, y)' THEN rotation'[y] + 1 ELSE rotation'[y])
  <2>1. due[y] = Turn + ((time_slot[y] - cur_slot) % N)
                   + N * (IF Passed(rank, y) THEN rotation[y] + 1 ELSE rotation[y])
    BY <1>2, <1>5 DEF Turns
  <2>2. (IF Passed(rank, y)' THEN rotation'[y] + 1 ELSE rotation'[y])
          = (IF Passed(rank, y) THEN rotation[y] + 1 ELSE rotation[y])
    BY <1>2, <1>4, <1>5
  <2> QED BY <1>1, <1>2, <1>5, <2>1, <2>2
<1> QED BY <1>5 DEF Turns

(* One interval more is one turn more. *)
LEMMA TurnMore ==
    ASSUME TypeOK, SI * Turn = time_have_run, time_have_run' = time_have_run + SI
    PROVE  Turn' = Turn + 1 /\ (SI * Turn = time_have_run)'
<1> USE WheelAssumption
<1>1. Turn \in Nat
  BY TurnType
<1>2. time_have_run' = SI * (Turn + 1)
  BY <1>1
<1>3. (SI * (Turn + 1)) \div SI = Turn + 1
  BY <1>1, Whole
<1>4. Turn' = time_have_run' \div SI
  BY DEF Turn
<1> QED BY <1>2, <1>3, <1>4

(* The wheel turns: who was passed is a whole round ahead, the others are  *)
(* one slot nearer.                                                        *)
LEMMA TurnEndTurns ==
    ASSUME TypeOK, NEW rank, Turns(rank), SI * Turn = time_have_run, TurnEnd
    PROVE  Turns(rank)'
<1> USE WheelAssumption
<1>1. /\ tick = "walk" /\ tmp = NULL /\ tick' = "turn"
      /\ live' = live /\ rotation' = rotation /\ time_slot' = time_slot /\ due' = due
      /\ cur_slot' = (cur_slot + 1) % N /\ time_have_run' = time_have_run + SI
  BY DEF TurnEnd, fields
<1>2. Turn' = Turn + 1 /\ Turn \in Nat
  BY <1>1, TurnMore, TurnType
<1>3. /\ cur_slot \in 0..(N - 1)
      /\ \A y \in live : time_slot[y] \in 0..(N - 1) /\ rotation[y] \in Nat
  BY DEF TypeOK, Slots
<1>4. \A y \in live : ~ Passed(rank, y)'
  BY <1>1 DEF Passed
<1>5. ASSUME NEW y \in live
      PROVE  due'[y] = Turn' + ((time_slot'[y] - cur_slot') % N) + N * rotation'[y]
  <2>1. due[y] = Turn + ((time_slot[y] - cur_slot) % N)
                   + N * (IF Passed(rank, y) THEN rotation[y] + 1 ELSE rotation[y])
    BY DEF Turns
  <2>2. CASE time_slot[y] = cur_slot
    <3>1. Passed(rank, y)
      BY <1>1, <2>2 DEF Passed
    <3>2. (time_slot[y] - cur_slot) % N = 0
      BY <1>3, <2>2
    <3>3. due[y] = Turn + N * (rotation[y] + 1)
      <4>1. N * (rotation[y] + 1) \in Nat
        BY <1>3
      <4> QED BY <1>2, <2>1, <3>1, <3>2, <4>1
    <3>4. (time_slot'[y] - cur_slot') % N = N - 1
      BY <1>1, <1>3, <2>2, NextSlot
    <3>5. N * (rotation[y] + 1) = N * rotation[y] + N /\ N * rotation[y] \in Nat
      BY <1>3
    <3>6. due[y] = (Turn + 1) + (N - 1) + N * rotation[y]
      BY <1>2, <3>3, <3>5
    <3> QED BY <1>1, <1>2, <3>4, <3>6
  <2>3. CASE time_slot[y] # cur_slot
    <3>1. ~ Passed(rank, y)
      BY <2>3 DEF Passed
    <3>2. (time_slot'[y] - cur_slot') % N = ((time_slot[y] - cur_slot) % N) - 1
      BY <1>1, <1>3, <2>3, NextSlot
    <3>3. (time_slot[y] - cur_slot) % N \in Int /\ N * rotation[y] \in Nat
      BY <1>3
    <3>4. due[y] = (Turn + 1) + (((time_slot[y] - cur_slot) % N) - 1) + N * rotation[y]
      BY <1>2, <2>1, <3>1, <3>3
    <3> QED BY <1>1, <1>2, <3>2, <3>4
  <2> QED BY <2>2, <2>3
<1> QED BY <1>1, <1>4, <1>5 DEF Turns

-----------------------------------------------------------------------------
(* What no step on the lists touches, they keep. *)
LEMMA SameLists ==
    ASSUME NEW rank, Linked, Sorted(rank),
           UNCHANGED <<slots, next, prev, time_slot, live>>
    PROVE  Linked' /\ Sorted(rank)'
<1>1. Linked'
  BY DEF Linked
<1>2. Sorted(rank)'
  BY DEF Sorted
<1> QED BY <1>1, <1>2

(* Inv holds after every step. *)
LEMMA InvStep ==
    ASSUME Inv, Next
    PROVE  Inv'
<1> USE WheelAssumption
<1>1. TypeOK /\ SI * Turn = time_have_run /\ Walking
  BY DEF Inv
<1>2. TypeOK'
  BY <1>1, TypeStep
<1>3. PICK rank : Linked /\ Sorted(rank) /\ Turns(rank)
  BY DEF Inv
<1>4. ASSUME time_have_run' = time_have_run PROVE (SI * Turn = time_have_run)'
  BY <1>1, <1>4 DEF Turn
<1>5. CASE Clock
  <2>1. Linked' /\ Sorted(rank)'
    BY <1>3, <1>5, SameLists DEF Clock, wheel, fields
  <2>2. Turns(rank)'
    BY <1>3, <1>5 DEF Turns, Passed, Turn, Clock, wheel, fields, walk
  <2>3. Walking' /\ time_have_run' = time_have_run
    BY <1>1, <1>5 DEF Walking, Clock, wheel, fields, walk
  <2> QED BY <1>2, <1>4, <2>1, <2>2, <2>3 DEF Inv
<1>6. CASE TickBegin
  <2>1. Linked' /\ Sorted(rank)'
    BY <1>3, <1>6, SameLists DEF TickBegin, wheel, fields
  <2>2. Turns(rank)'
    BY <1>3, <1>6 DEF Turns, Passed, Turn, TickBegin, wheel, fields
  <2>3. Walking' /\ time_have_run' = time_have_run
    BY <1>6 DEF Walking, TickBegin, wheel
  <2> QED BY <1>2, <1>4, <2>1, <2>2, <2>3 DEF Inv
<1>7. CASE TickTurn
  <2>1. Linked' /\ Sorted(rank)'
    BY <1>3, <1>7, SameLists DEF TickTurn, wheel, fields
  <2>2. Turns(rank)'
    BY <1>1, <1>3, <1>7, TickTurns
  <2>3. Walking' /\ time_have_run' = time_have_run
    <3>1. cur_slot \in Slots
      BY <1>1 DEF TypeOK
    <3> QED BY <1>3, <1>7, <3>1 DEF Walking, Linked, TickTurn, wheel, fields
  <2> QED BY <1>2, <1>4, <2>1, <2>2, <2>3 DEF Inv
<1>8. CASE Spare
  <2>1. Linked' /\ Sorted(rank)'
    BY <1>3, <1>8, SameLists DEF Spare, wheel
  <2>2. Turns(rank)'
    BY <1>1, <1>3, <1>8, SpareTurns
  <2>3. Walking' /\ time_have_run' = time_have_run
    BY <1>1, <1>3, <1>8 DEF Walking, Linked, Spare, wheel
  <2> QED BY <1>2, <1>4, <2>1, <2>2, <2>3 DEF Inv
<1>9. CASE Fire
  <2>1. tmp \in live /\ time_slot[tmp] = cur_slot /\ Unlink(tmp, time_slot[tmp]) /\ Delete(tmp)
    BY <1>1, <1>9 DEF Fire, Walking
  <2>2. Linked' /\ Sorted(rank)'
    BY <1>1, <1>3, <2>1, UnlinkLists
  <2>3. Turns(rank)'
    BY <1>1, <1>3, <1>9, FireTurns
  <2>4. Walking'
    <3>1. tmp' = next[tmp] /\ cur_slot' = cur_slot
      BY <1>9 DEF Fire
    <3>2. CASE next[tmp] = NULL
      BY <3>1, <3>2 DEF Walking
    <3>3. CASE next[tmp] # NULL
      <4>1. next[tmp] \in live /\ time_slot[next[tmp]] = cur_slot
        BY <1>3, <2>1, <3>3 DEF Linked
      <4>2. next[tmp] # tmp
        <5>1. rank[tmp] < rank[next[tmp]] /\ rank[tmp] \in Nat
          BY <1>1, <1>3, <2>1, <3>3 DEF Sorted, TypeOK
        <5> QED BY <5>1
      <4>3. next[tmp] \in live' /\ time_slot'[next[tmp]] = cur_slot
        BY <1>1, <2>1, <4>1, <4>2 DEF Delete, TypeOK
      <4> QED BY <3>1, <4>3 DEF Walking
    <3> QED BY <3>2, <3>3
  <2>5. time_have_run' = time_have_run
    BY <1>9 DEF Fire
  <2> QED BY <1>2, <1>4, <2>2, <2>3, <2>4, <2>5 DEF Inv
<1>10. CASE TurnEnd
  <2>1. Linked' /\ Sorted(rank)'
    BY <1>3, <1>10, SameLists DEF TurnEnd, fields
  <2>2. Turns(rank)'
    BY <1>1, <1>3, <1>10, TurnEndTurns
  <2>3. Walking' /\ (SI * Turn = time_have_run)'
    <3>1. time_have_run' = time_have_run + SI /\ tick' = "turn"
      BY <1>10 DEF TurnEnd
    <3>2. (SI * Turn = time_have_run)'
      BY <1>1, <3>1, TurnMore
    <3> QED BY <3>1, <3>2 DEF Walking
  <2> QED BY <1>2, <2>1, <2>2, <2>3 DEF Inv
<1>11. ASSUME NEW x \in Cells, NEW timeout \in Timeouts, add_timer(x, timeout)
       PROVE  Inv'
  <2> DEFINE r == [c \in Cells |-> IF c = x THEN 0 ELSE rank[c] + 1]
  <2>1. Linked' /\ Sorted(r)'
    BY <1>1, <1>3, <1>11, AddLists
  <2>2. Turns(r)'
    BY <1>1, <1>3, <1>11, AddTurns
  <2>3. Walking' /\ time_have_run' = time_have_run
    BY <1>11 DEF Walking, add_timer, walk
  <2> HIDE DEF r
  <2>4. \E q : Linked' /\ Sorted(q)' /\ Turns(q)'
    BY <2>1, <2>2
  <2> QED BY <1>2, <1>4, <2>3, <2>4 DEF Inv
<1>12. ASSUME NEW x \in Cells, del_timer(x)
       PROVE  Inv'
  <2>1. x \in live /\ Unlink(x, time_slot[x]) /\ Delete(x)
    BY <1>12 DEF del_timer
  <2>2. Linked' /\ Sorted(rank)'
    BY <1>1, <1>3, <2>1, UnlinkLists
  <2>3. Turns(rank)'
    BY <1>1, <1>3, <1>12, DeleteTurns
  <2>4. Walking' /\ time_have_run' = time_have_run
    BY <1>12 DEF Walking, del_timer, walk
  <2> QED BY <1>2, <1>4, <2>2, <2>3, <2>4 DEF Inv
<1> QED BY <1>5, <1>6, <1>7, <1>8, <1>9, <1>10, <1>11, <1>12 DEF Next, Tick

(* The empty wheel. *)
LEMMA InvInit ==
    ASSUME Init
    PROVE  Inv
<1> USE WheelAssumption
<1>1. TypeOK
  BY DEF Init, TypeOK, Slots
<1>2. SI * Turn = time_have_run
  BY DEF Init, Turn
<1>3. Walking /\ Linked
  BY DEF Init, Walking, Linked
<1>4. Sorted([c \in Cells |-> 0]) /\ Turns([c \in Cells |-> 0])
  BY DEF Init, Sorted, Turns
<1> QED BY <1>1, <1>2, <1>3, <1>4 DEF Inv

(* Inv is inductive. *)
THEOREM Invariant == Spec => []Inv
<1>1. Inv /\ UNCHANGED vars => Inv'
  <2> SUFFICES ASSUME Inv, UNCHANGED vars PROVE Inv'
    OBVIOUS
  <2>1. PICK rank : Linked /\ Sorted(rank) /\ Turns(rank)
    BY DEF Inv
  <2>2. Linked' /\ Sorted(rank)'
    BY <2>1, SameLists DEF vars
  <2>3. Turns(rank)'
    BY <2>1 DEF Turns, Passed, Turn, vars
  <2>4. TypeOK' /\ (SI * Turn = time_have_run)' /\ Walking'
    BY DEF Inv, TypeOK, Turn, Walking, vars
  <2> QED BY <2>2, <2>3, <2>4 DEF Inv
<1> QED BY <1>1, InvInit, InvStep, PTL DEF Spec

-----------------------------------------------------------------------------
(* TurnsToGo: between two ticks slot and rotation say how many turns each  *)
(* timer still has to go, and none is overdue.                             *)
THEOREM TurnsCorrect == Spec => []TurnsToGo
<1>1. Inv => TurnsToGo
  <2> SUFFICES ASSUME Inv, tick = "idle", NEW x \in live
               PROVE  due[x] = Turn + ((time_slot[x] - cur_slot) % N) + N * rotation[x]
    BY DEF TurnsToGo
  <2>1. PICK rank : Turns(rank)
    BY DEF Inv
  <2>2. ~ Passed(rank, x)
    BY DEF Passed
  <2> QED BY <2>1, <2>2 DEF Turns
<1> QED BY <1>1, Invariant, PTL

(* FiredWhenDue: a timer is fired in the turn it is due at. *)
THEOREM FiredCorrect == Spec => FiredWhenDue
<1>1. ASSUME Inv, Fire PROVE due[tmp] = Turn
  <2> USE WheelAssumption
  <2>1. PICK rank : Sorted(rank) /\ Turns(rank)
    BY <1>1 DEF Inv
  <2>2. tmp # NULL /\ rotation[tmp] = 0 /\ tmp \in live /\ time_slot[tmp] = cur_slot
    BY <1>1 DEF Inv, Walking, Fire
  <2>3. rank[tmp] \in Nat /\ cur_slot \in 0..(N - 1)
    BY <1>1, <2>1, <2>2 DEF Inv, TypeOK, Sorted, Slots
  <2>4. ~ Passed(rank, tmp)
    BY <2>2, <2>3 DEF Passed
  <2>5. due[tmp] = Turn + ((time_slot[tmp] - cur_slot) % N) + N * rotation[tmp]
    BY <2>1, <2>2, <2>4 DEF Turns
  <2>6. (time_slot[tmp] - cur_slot) % N = 0 /\ N * rotation[tmp] = 0
    BY <2>2, <2>3
  <2>7. Turn \in Nat
    BY <1>1, TurnType DEF Inv
  <2> QED BY <2>5, <2>6, <2>7
<1>2. Inv /\ [Next]_vars => [Fire => due[tmp] = Turn]_vars
  BY <1>1
<1> QED BY <1>2, Invariant, PTL DEF Spec, FiredWhenDue

(* CaughtUp: no timer is left whose turn began by the second tick() read.  *)
THEOREM CaughtUpCorrect == Spec => CaughtUp
<1> DEFINE Done == tick # "idle" /\ tick' = "idle" => \A x \in live : due[x] * SI > cur
<1>1. ASSUME Inv, Next, tick # "idle", tick' = "idle", NEW x \in live
      PROVE  due[x] * SI > cur
  <2> USE WheelAssumption
  <2>1. TickTurn
    BY <1>1 DEF Next, Tick, Clock, TickBegin, Spare, Fire, TurnEnd, add_timer, del_timer, walk
  <2>2. tick = "turn" /\ ~ (time_have_run <= cur)
    BY <1>1, <2>1 DEF TickTurn
  <2>3. /\ time_have_run \in Nat /\ cur \in Nat /\ SI * Turn = time_have_run /\ Turn \in Nat
        /\ rotation[x] \in Nat /\ time_slot[x] \in 0..(N - 1) /\ cur_slot \in 0..(N - 1)
    BY <1>1, TurnType DEF Inv, TypeOK, Slots
  <2>4. PICK rank : Turns(rank)
    BY <1>1 DEF Inv
  <2>5. due[x] = Turn + ((time_slot[x] - cur_slot) % N) + N * rotation[x]
    BY <1>1, <2>2, <2>4 DEF Turns, Passed
  <2>6. ((time_slot[x] - cur_slot) % N) \in Nat /\ N * rotation[x] \in Nat
    BY <2>3
  <2> DEFINE more == ((time_slot[x] - cur_slot) % N) + N * rotation[x]
  <2>7. more \in Nat /\ due[x] = Turn + more
    BY <2>3, <2>5, <2>6
  <2> HIDE DEF more
  <2>8. due[x] * SI = SI * Turn + SI * more /\ SI * more \in Nat
    BY <2>3, <2>7
  <2> QED BY <2>2, <2>3, <2>8
<1>2. Inv /\ [Next]_vars => [Done]_vars
  BY <1>1
<1> QED BY <1>2, Invariant, PTL DEF Spec, CaughtUp

(* ListsSound: each list holds the live timers of its slot and no others,  *)
(* and next and prev mirror each other, whenever anything follows them.    *)
THEOREM ListsCorrect == Spec => []ListsSound
<1>1. Inv => ListsSound
  <2> SUFFICES ASSUME Inv PROVE ListsSound
    OBVIOUS
  <2> USE WheelAssumption
  <2>1. TypeOK /\ Walking
    BY DEF Inv
  <2>2. PICK rank : Linked /\ Sorted(rank)
    BY DEF Inv
  <2>3. ASSUME NEW s \in Slots PROVE InSlot(s) \subseteq live
    <3>1. live \in SUBSET Cells
      BY <2>1 DEF TypeOK
    <3>2. /\ slots[s] # NULL => slots[s] \in live
          /\ \A y \in live : next[y] # NULL => next[y] \in live
      BY <2>2 DEF Linked
    <3> QED BY <3>1, <3>2 DEF InSlot
  <2>4. ASSUME NEW s \in Slots, NEW S \in SUBSET Cells,
               slots[s] # NULL => slots[s] \in S,
               \A y \in S : next[y] # NULL => next[y] \in S
        PROVE  \A x \in live : time_slot[x] = s => x \in S
    <3> DEFINE Missed == {x \in live : time_slot[x] = s /\ x \notin S}
               T == {rank[x] : x \in Missed}
    <3>1. SUFFICES ASSUME Missed # {} PROVE FALSE
      OBVIOUS
    <3>2. T \in SUBSET Nat /\ T # {}
      BY <2>1, <2>2, <3>1 DEF Sorted, TypeOK
    <3>3. PICK x \in Missed : \A y \in Missed : rank[x] <= rank[y]
      <4> HIDE DEF Missed
      <4>1. PICK n \in T : \A m \in T : n <= m
        <5> HIDE DEF T
        <5> QED BY <3>2, Least
      <4> QED BY <4>1
    <3>4. CASE prev[x] = NULL
      <4>1. slots[s] = x /\ x # NULL
        BY <2>1, <2>2, <3>3, <3>4 DEF Linked, TypeOK
      <4> QED BY <2>4, <3>3, <4>1
    <3>5. CASE prev[x] # NULL
      <4>1. prev[x] \in live /\ next[prev[x]] = x /\ time_slot[prev[x]] = s /\ x # NULL
        BY <2>1, <2>2, <3>3, <3>5 DEF Linked, TypeOK
      <4>2. rank[prev[x]] < rank[x]
        BY <2>2, <4>1 DEF Sorted
      <4>3. rank[prev[x]] \in Nat /\ rank[x] \in Nat
        BY <2>1, <2>2, <3>3, <4>1 DEF Sorted, TypeOK
      <4>4. prev[x] \in S
        BY <3>3, <4>1, <4>2, <4>3
      <4> QED BY <2>4, <3>3, <4>1, <4>4
    <3> QED BY <3>4, <3>5
  <2>5. ASSUME NEW x \in live PROVE x \in InSlot(time_slot[x])
    <3>1. x \in Cells /\ time_slot[x] \in Slots
      BY <2>1 DEF TypeOK
    <3> QED BY <2>4, <3>1 DEF InSlot
  <2>6. \A x \in live : /\ next[x] # NULL => next[x] \in live /\ prev[next[x]] = x
                        /\ (prev[x] = NULL) <=> (slots[time_slot[x]] = x)
    BY <2>2 DEF Linked
  <2> QED BY <2>1, <2>3, <2>5, <2>6 DEF ListsSound, Walking
<1> QED BY <1>1, Invariant, PTL
=============================================================================
