------------------------- MODULE ConnectionIOProofs -------------------------
(***************************************************************************)
(* Theorems about ConnectionIO, for every number of workers, requests and  *)
(* pushes, every length of a packet and every send buffer.                 *)
(***************************************************************************)
EXTENDS ConnectionIO, FiniteSetTheorems, SequenceTheorems, WellFoundedInduction,
        TLAPS

-----------------------------------------------------------------------------
(* Concatenation, the last of the running concatenations that FlattenSeq   *)
(* defines.                                                                *)

(* A set of natural numbers has a least element. *)
LEMMA Least ==
    ASSUME NEW T \in SUBSET Nat, T # {}
    PROVE  \E n \in T : \A m \in T : n <= m
<1>1. PICK n \in T : \A m \in T : <<m, n>> \notin OpToRel(<, Nat)
  BY NatLessThanWellFounded, WFMin
<1>2. \A m \in T : ~(m < n)
  BY <1>1 DEF OpToRel
<1>3. \A m \in T : m \in Nat /\ n \in Nat
  OBVIOUS
<1> QED BY <1>2, <1>3

(* Induction, for a property that is stated as a set: the number it could  *)
(* first fail at does not exist.                                           *)
LEMMA Induction ==
    ASSUME NEW S, 0 \in S, \A n \in Nat : n \in S => n + 1 \in S
    PROVE  \A n \in Nat : n \in S
<1> SUFFICES ASSUME NEW k \in Nat, k \notin S PROVE FALSE
  OBVIOUS
<1>1. PICK n \in Nat \ S : \A m \in Nat \ S : n <= m
  BY Least
<1>2. n # 0 /\ n - 1 \in Nat /\ n - 1 \in S
  BY <1>1
<1>3. (n - 1) + 1 = n
  OBVIOUS
<1> QED BY <1>2, <1>3

(* Concatenation is associative. *)
LEMMA Associative ==
    ASSUME NEW S
    PROVE  \A a, b, c \in Seq(S) : a \o (b \o c) = (a \o b) \o c
OBVIOUS

(* h[i] is the concatenation of the first i sequences of s. *)
Running(h, s) == h[0] = <<>> /\ \A i \in 1..Len(s) : h[i] = h[i - 1] \o s[i]

(* The next of the running concatenations. *)
LEMMA RunningNext ==
    ASSUME NEW S, NEW s \in Seq(Seq(S)), NEW h, Running(h, s),
           NEW i \in Nat, i + 1 \in 1..Len(s)
    PROVE  h[i + 1] = h[i] \o s[i + 1] /\ s[i + 1] \in Seq(S)
<1>1. h[i + 1] = h[(i + 1) - 1] \o s[i + 1]
  BY DEF Running
<1>2. (i + 1) - 1 = i /\ s[i + 1] \in Seq(S)
  OBVIOUS
<1> QED BY <1>1, <1>2

(* Running concatenations of sequences over S are sequences over S. *)
LEMMA RunningType ==
    ASSUME NEW S, NEW s \in Seq(Seq(S)), NEW h, Running(h, s)
    PROVE  \A i \in 0..Len(s) : h[i] \in Seq(S)
<1> DEFINE Typed == {i \in Nat : i \in 0..Len(s) => h[i] \in Seq(S)}
<1>1. 0 \in Typed
  <2>1. h[0] = <<>> /\ <<>> \in Seq(S)
    BY DEF Running
  <2> QED BY <2>1
<1>2. \A i \in Nat : i \in Typed => i + 1 \in Typed
  <2> SUFFICES ASSUME NEW i \in Nat, i \in Typed, i + 1 \in 0..Len(s)
               PROVE  h[i + 1] \in Seq(S)
    OBVIOUS
  <2>1. i + 1 \in 1..Len(s) /\ h[i] \in Seq(S)
    BY LenProperties
  <2> HIDE DEF Typed
  <2>2. h[i + 1] = h[i] \o s[i + 1] /\ s[i + 1] \in Seq(S)
    BY <2>1, RunningNext
  <2> QED BY <2>1, <2>2
<1>3. \A i \in Nat : i \in Typed
  <2> HIDE DEF Typed
  <2> QED BY <1>1, <1>2, Induction
<1> QED BY <1>3

(* There is one way to concatenate. *)
LEMMA RunningUnique ==
    ASSUME NEW S, NEW s \in Seq(Seq(S)), NEW g, Running(g, s), NEW h, Running(h, s)
    PROVE  \A i \in 0..Len(s) : g[i] = h[i]
<1> DEFINE Same == {i \in Nat : i \in 0..Len(s) => g[i] = h[i]}
<1>1. 0 \in Same
  BY DEF Running
<1>2. \A i \in Nat : i \in Same => i + 1 \in Same
  <2> SUFFICES ASSUME NEW i \in Nat, i \in Same, i + 1 \in 0..Len(s)
               PROVE  g[i + 1] = h[i + 1]
    OBVIOUS
  <2>1. i + 1 \in 1..Len(s) /\ g[i] = h[i]
    BY LenProperties
  <2> HIDE DEF Same
  <2>2. h[i + 1] = h[i] \o s[i + 1]
    BY <2>1, RunningNext, ZenonT(40)
  <2>3. g[i + 1] = g[i] \o s[i + 1]
    BY <2>1, RunningNext, ZenonT(40)
  <2> QED BY <2>1, <2>2, <2>3
<1>3. \A i \in Nat : i \in Same
  <2> HIDE DEF Same
  <2> QED BY <1>1, <1>2, Induction
<1> QED BY <1>3

(* There is a function that lists the running concatenations. *)
LEMMA RunningExists ==
    ASSUME NEW S, NEW s \in Seq(Seq(S))
    PROVE  \E h : Running(h, s)
<1> DEFINE Upto(n, h) == h[0] = <<>> /\ \A i \in 1..n : h[i] = h[i - 1] \o s[i]
           There == {n \in Nat : \E h : Upto(n, h)}
<1>1. 0 \in There
  <2>1. Upto(0, [i \in {0} |-> <<>>])
    OBVIOUS
  <2> QED BY <2>1
<1>2. ASSUME NEW n \in Nat, NEW h, Upto(n, h)
      PROVE  \E g : Upto(n + 1, g)
  <2> DEFINE x == h[n] \o s[n + 1]
             g == [i \in 0..(n + 1) |-> IF i = n + 1 THEN x ELSE h[i]]
  <2> HIDE DEF x
  <2>1. \A i \in 0..n : g[i] = h[i]
    OBVIOUS
  <2>2. g[n + 1] = x
    OBVIOUS
  <2>3. Upto(n + 1, g)
    <3> HIDE DEF g
    <3>1. g[0] = <<>>
      BY <1>2, <2>1
    <3>2. ASSUME NEW i \in 1..(n + 1) PROVE g[i] = g[i - 1] \o s[i]
      <4>1. CASE i \in 1..n
        <5>1. g[i - 1] = h[i - 1] /\ g[i] = h[i]
          BY <2>1, <4>1
        <5>2. h[i] = h[i - 1] \o s[i]
          BY <1>2, <4>1
        <5> QED BY <5>1, <5>2
      <4>2. CASE i = n + 1
        <5>1. i - 1 = n /\ n \in 0..n
          BY <4>2
        <5>2. g[i - 1] = h[n]
          BY <2>1, <5>1
        <5> QED BY <2>2, <4>2, <5>2 DEF x
      <4>3. i \in 1..n \/ i = n + 1
        OBVIOUS
      <4> QED BY <4>1, <4>2, <4>3
    <3> QED BY <3>1, <3>2
  <2> QED BY <2>3
<1>3. \A n \in Nat : n \in There
  <2>1. \A n \in Nat : n \in There => n + 1 \in There
    <3> HIDE DEF Upto
    <3> QED BY <1>2
  <2> HIDE DEF There
  <2> QED BY <1>1, <2>1, Induction
<1>4. \E h : Upto(Len(s), h)
  <2>1. Len(s) \in Nat
    BY LenProperties
  <2> HIDE DEF Upto
  <2> QED BY <1>3, <2>1
<1> QED BY <1>4 DEF Running

(* FlattenSeq is the last of the running concatenations. *)
LEMMA FlattenIs ==
    ASSUME NEW S, NEW s \in Seq(Seq(S)), NEW h, Running(h, s)
    PROVE  FlattenSeq(s) = h[Len(s)]
<1>1. CASE Len(s) = 0
  BY <1>1 DEF FlattenSeq, Running
<1>2. CASE Len(s) # 0
  <2> DEFINE Flattens(f) ==
               f = [i \in 1..Len(s) |-> IF i = 1 THEN s[i] ELSE f[i - 1] \o s[i]]
             c == CHOOSE f : Flattens(f)
  <2>1. FlattenSeq(s) = c[Len(s)]
    BY <1>2 DEF FlattenSeq
  <2>2. Flattens([i \in 1..Len(s) |-> h[i]])
    <3> DEFINE f == [i \in 1..Len(s) |-> h[i]]
    <3>1. ASSUME NEW i \in 1..Len(s)
          PROVE  f[i] = IF i = 1 THEN s[i] ELSE f[i - 1] \o s[i]
      <4>1. h[i] = h[i - 1] \o s[i] /\ s[i] \in Seq(S) /\ h[0] = <<>>
        <5> HIDE DEF f, Flattens
        <5> QED BY ElementOfSeq DEF Running
      <4>2. CASE i = 1
        <5>1. h[i - 1] = <<>>
          BY <4>1, <4>2
        <5>2. <<>> \o s[i] = s[i]
          BY <4>1
        <5> QED BY <4>1, <4>2, <5>1, <5>2
      <4>3. CASE i # 1
        <5>1. i - 1 \in 1..Len(s)
          BY <4>3
        <5> QED BY <4>1, <4>3, <5>1
      <4> QED BY <4>2, <4>3
    <3> QED BY <3>1
  <2>3. Flattens(c)
    BY <2>2
  <2>4. \A i \in 1..Len(s) : c[i] = IF i = 1 THEN s[i] ELSE c[i - 1] \o s[i]
    <3> HIDE DEF c
    <3> QED BY <2>3
  <2> HIDE DEF c
  <2> DEFINE k == [i \in 0..Len(s) |-> IF i = 0 THEN <<>> ELSE c[i]]
  <2>5. Running(k, s)
    <3>1. k[0] = <<>>
      OBVIOUS
    <3>2. ASSUME NEW i \in 1..Len(s) PROVE k[i] = k[i - 1] \o s[i]
      <4>1. k[i] = c[i] /\ s[i] \in Seq(S)
        OBVIOUS
      <4>2. CASE i = 1
        <5>1. k[i - 1] = <<>> /\ <<>> \o s[i] = s[i]
          BY <3>1, <4>1, <4>2
        <5> QED BY <2>4, <4>1, <4>2, <5>1
      <4>3. CASE i # 1
        <5>1. i - 1 \in 1..Len(s) /\ k[i - 1] = c[i - 1]
          BY <4>3
        <5> HIDE DEF k
        <5> QED BY <2>4, <4>1, <4>3, <5>1
      <4> QED BY <4>2, <4>3
    <3> QED BY <3>1, <3>2 DEF Running
  <2>6. k[Len(s)] = h[Len(s)]
    <3> HIDE DEF k
    <3>1. Len(s) \in 0..Len(s)
      OBVIOUS
    <3> QED BY <2>5, <3>1, RunningUnique
  <2>7. k[Len(s)] = c[Len(s)]
    BY <1>2
  <2> HIDE DEF k
  <2> QED BY <2>1, <2>6, <2>7
<1> QED BY <1>1, <1>2

(* What FlattenSeq makes of sequences over S is one. *)
LEMMA FlattenType ==
    ASSUME NEW S, NEW s \in Seq(Seq(S))
    PROVE  FlattenSeq(s) \in Seq(S)
<1>1. PICK h : Running(h, s)
  BY RunningExists
<1>2. Len(s) \in 0..Len(s)
  OBVIOUS
<1> QED BY <1>1, <1>2, FlattenIs, RunningType

(* A sequence appended to others is appended to their concatenation. *)
LEMMA FlattenAppend ==
    ASSUME NEW S, NEW s \in Seq(Seq(S)), NEW x \in Seq(S)
    PROVE  FlattenSeq(Append(s, x)) = FlattenSeq(s) \o x
<1> DEFINE t == Append(s, x)
<1>1. /\ t \in Seq(Seq(S)) /\ Len(t) = Len(s) + 1 /\ t[Len(s) + 1] = x
      /\ \A i \in 1..Len(s) : t[i] = s[i]
  BY AppendProperties
<1> HIDE DEF t
<1>2. PICK h : Running(h, t)
  BY <1>1, RunningExists
<1>3. Running(h, s)
  <2>1. \A i \in 1..Len(s) : i \in 1..Len(t)
    BY <1>1
  <2> QED BY <1>1, <1>2, <2>1 DEF Running
<1>4. h[Len(s) + 1] = h[Len(s)] \o x
  <2>1. Len(s) \in Nat /\ Len(s) + 1 \in 1..Len(t)
    BY <1>1, LenProperties
  <2>2. h[Len(s) + 1] = h[Len(s)] \o t[Len(s) + 1]
    BY <1>1, <1>2, <2>1, RunningNext, ZenonT(40)
  <2> QED BY <1>1, <2>2
<1>5. FlattenSeq(t) = h[Len(s) + 1] /\ FlattenSeq(s) = h[Len(s)]
  BY <1>1, <1>2, <1>3, FlattenIs
<1> QED BY <1>4, <1>5 DEF t

(* The first sequence is a prefix of the concatenation. *)
LEMMA FlattenHead ==
    ASSUME NEW S, NEW s \in Seq(Seq(S)), s # <<>>
    PROVE  FlattenSeq(s) = Head(s) \o FlattenSeq(Tail(s))
<1> DEFINE t == Tail(s)
           x == Head(s)
<1>1. /\ t \in Seq(Seq(S)) /\ Len(s) \in Nat /\ Len(t) = Len(s) - 1
      /\ x \in Seq(S) /\ s[1] = x /\ \A i \in 1..Len(t) : t[i] = s[i + 1]
  BY HeadTailProperties
<1> HIDE DEF t, x
<1>2. PICK h : Running(h, t)
  BY <1>1, RunningExists
<1> DEFINE g == [i \in 0..Len(s) |-> IF i = 0 THEN <<>> ELSE x \o h[i - 1]]
<1>3. Running(g, s)
  <2>1. g[0] = <<>>
    BY <1>1
  <2>2. ASSUME NEW i \in 1..Len(s) PROVE g[i] = g[i - 1] \o s[i]
    <3>1. g[i] = x \o h[i - 1]
      BY <1>1, SMTT(30)
    <3>2. CASE i = 1
      <4>1. h[i - 1] = <<>> /\ g[i - 1] = <<>> /\ s[i] = x
        BY <1>1, <1>2, <2>1, <3>2 DEF Running
      <4>2. x \o <<>> = x /\ <<>> \o x = x
        BY <1>1
      <4> QED BY <3>1, <4>1, <4>2
    <3>3. CASE i # 1
      <4>1. PICK j \in Nat : i = j + 2
        <5>1. i - 2 \in Nat /\ i = (i - 2) + 2
          BY <1>1, <3>3
        <5> QED BY <5>1
      <4>2. /\ i - 1 = j + 1 /\ j + 1 \in 1..Len(t) /\ j + 1 \in 1..Len(s)
            /\ (j + 1) + 1 = i /\ j \in 0..Len(t) /\ (j + 1) - 1 = j
        BY <1>1, <4>1
      <4>3. h[j + 1] = h[j] \o s[i] /\ s[i] \in Seq(S) /\ h[j] \in Seq(S)
        <5> HIDE DEF g
        <5>1. t[j + 1] = s[i]
          BY <1>1, <4>2
        <5>2. h[j + 1] = h[j] \o t[j + 1] /\ t[j + 1] \in Seq(S)
          BY <1>1, <1>2, <4>2, RunningNext
        <5>3. h[j] \in Seq(S)
          BY <1>1, <1>2, <4>2, RunningType
        <5> QED BY <5>1, <5>2, <5>3
      <4>4. g[i - 1] = x \o h[j]
        BY <4>2, SMTT(30)
      <4>5. x \o (h[j] \o s[i]) = (x \o h[j]) \o s[i]
        <5> HIDE DEF g
        <5>1. x \in Seq(S) /\ h[j] \in Seq(S) /\ s[i] \in Seq(S)
          BY <1>1, <4>3
        <5>2. \A a, b, c \in Seq(S) : a \o (b \o c) = (a \o b) \o c
          BY SMTT(30)
        <5> QED BY <5>1, <5>2, Zenon
      <4> HIDE DEF g
      <4> QED BY <3>1, <4>2, <4>3, <4>4, <4>5
    <3> QED BY <3>2, <3>3
  <2> HIDE DEF g
  <2> QED BY <2>1, <2>2 DEF Running
<1>4. g[Len(s)] = x \o h[Len(t)]
  <2>1. Len(s) # 0 /\ Len(s) \in 0..Len(s)
    BY <1>1, EmptySeq
  <2> QED BY <1>1, <2>1
<1>5. FlattenSeq(s) = g[Len(s)]
  <2> HIDE DEF g
  <2> QED BY <1>3, FlattenIs
<1>6. FlattenSeq(t) = h[Len(t)]
  BY <1>1, <1>2, FlattenIs
<1> HIDE DEF g
<1> QED BY <1>4, <1>5, <1>6 DEF t, x

-----------------------------------------------------------------------------
Reading == {"first", "loop", "answer", "notify", "wipe", "rearm"}
Writing == {"test", "arm", "leave"}

(* A worker executes a mode-0 task exactly while it is in process(0), and  *)
(* a mode-1 task exactly while it is in process_write().                   *)
TasksSound ==
    /\ pending \in Seq(Modes)
    /\ running \in [Workers -> Modes \cup {NoTask}]
    /\ wpc \in [Workers -> {"start"} \cup Reading \cup Writing]
    /\ \A w \in Workers : /\ wpc[w] \in Reading <=> running[w] = 0
                          /\ wpc[w] \in Writing <=> running[w] = 1
    /\ main \in {"wait", "recv", "advance", "submit", "write", "rearm"}

(* append() changes the queue at its end or not at all. *)
LEMMA AppendTypes ==
    ASSUME TasksSound, NEW mode \in Modes, append(mode)
    PROVE  /\ pending' \in Seq(Modes) /\ running' = running
           /\ \A i \in DOMAIN pending : i \in DOMAIN pending' /\ pending'[i] = pending[i]
BY DEF TasksSound, append, Pool!Submit, poolState, Modes

(* It holds throughout. *)
LEMMA TasksInvariant == Spec => []TasksSound
<1> USE IOAssumption DEF Modes, Reading, Writing
<1>1. Init => TasksSound
  BY DEF Init, TasksSound
<1>2. TasksSound /\ [Next]_vars => TasksSound'
  <2> SUFFICES ASSUME TasksSound, [Next]_vars PROVE TasksSound'
    OBVIOUS
  <2>1. CASE UNCHANGED <<poolState, wpc, main>>
    BY <2>1 DEF TasksSound, poolState
  <2>2. CASE Send \/ Drain \/ UNCHANGED vars
    BY <2>1, <2>2 DEF Send, Drain, loop, worker, vars, poolState
  <2>3. CASE Push
    <3>1. append(1) /\ UNCHANGED <<wpc, main>>
      BY <2>3 DEF Push, loop, worker
    <3> QED BY <3>1, AppendTypes DEF TasksSound
  <2>4. CASE Loop
    <3>1. /\ UNCHANGED wpc
          /\ append(0) \/ UNCHANGED poolState
          /\ main' \in {"wait", "recv", "advance", "submit", "write", "rearm"}
      BY <2>4 DEF Loop, EventIn, EventOut, Recv, Advance, SubmitRead, WriteSome,
                  WriteDone, WriteRearm, worker, TasksSound
    <3> QED BY <3>1, AppendTypes DEF TasksSound, poolState
  <2>5. ASSUME NEW w \in Workers, Begin(w) PROVE TasksSound'
    <3>1. /\ pending # <<>> /\ pending' = Tail(pending)
          /\ running' = [running EXCEPT ![w] = Head(pending)]
          /\ wpc' = [wpc EXCEPT ![w] = IF Head(pending) = 0 THEN "first" ELSE "test"]
          /\ UNCHANGED main
      BY <2>5 DEF Begin, Pool!Start, loop
    <3>2. Head(pending) \in Modes /\ Tail(pending) \in Seq(Modes)
      BY <3>1 DEF TasksSound
    <3> QED BY <3>1, <3>2 DEF TasksSound
  <2>6. ASSUME NEW w \in Workers, Process(w) PROVE TasksSound'
    <3>1. UNCHANGED main
      BY <2>6 DEF Process, ParseNext, ParseEnd, Reply, Notify, init_read, ReadRearm,
                  EnterWrite, ArmWrite, LeaveWrite, loop
    <3>2. CASE ParseNext(w) \/ ParseEnd(w) \/ Reply(w) \/ init_read(w) \/ ArmWrite(w)
      <4>1. UNCHANGED poolState
        BY <3>2 DEF ParseNext, ParseEnd, Reply, init_read, ArmWrite
      <4>2. \E p \in Reading \cup Writing : /\ wpc' = [wpc EXCEPT ![w] = p]
                                            /\ wpc[w] \in Reading <=> p \in Reading
                                            /\ wpc[w] \in Writing <=> p \in Writing
        BY <3>2, SMTT(30) DEF ParseNext, ParseEnd, Reply, init_read, ArmWrite
      <4> QED BY <3>1, <4>1, <4>2 DEF TasksSound, poolState
    <3>3. CASE Notify(w)
      <4>1. append(1) /\ wpc[w] = "notify" /\ wpc' = [wpc EXCEPT ![w] = "loop"]
        BY <3>3 DEF Notify
      <4> QED BY <3>1, <4>1, AppendTypes DEF TasksSound
    <3>4. CASE ReadRearm(w) \/ LeaveWrite(w)
      <4>1. /\ pending' = pending /\ running' = [running EXCEPT ![w] = NoTask]
            /\ wpc' = [wpc EXCEPT ![w] = "start"]
        BY <3>4 DEF ReadRearm, LeaveWrite, Pool!End
      <4> QED BY <3>1, <4>1 DEF TasksSound
    <3>5. CASE EnterWrite(w)
      <4>1. CASE m_is_process_write
        <5>1. /\ pending' = (IF Len(pending) < Capacity THEN Append(pending, 1)
                                                       ELSE pending)
              /\ running' = [running EXCEPT ![w] = NoTask]
              /\ wpc' = [wpc EXCEPT ![w] = "start"]
          BY <3>5, <4>1 DEF EnterWrite
        <5>2. pending' \in Seq(Modes)
          BY <5>1 DEF TasksSound
        <5> QED BY <3>1, <5>1, <5>2 DEF TasksSound
      <4>2. CASE ~m_is_process_write
        <5>1. /\ UNCHANGED poolState /\ wpc[w] = "test"
              /\ wpc' = [wpc EXCEPT ![w] = "arm"]
          BY <3>5, <4>2 DEF EnterWrite
        <5> QED BY <3>1, <5>1 DEF TasksSound, poolState
      <4> QED BY <4>1, <4>2
    <3> QED BY <2>6, <3>2, <3>3, <3>4, <3>5 DEF Process
  <2> QED BY <2>2, <2>3, <2>4, <2>5, <2>6 DEF Next
<1> QED BY <1>1, <1>2, PTL DEF Spec

-----------------------------------------------------------------------------
(* The queue would take one more task. *)
Room == Len(pending) < Capacity

(* As long as the pool has room for one more task, the one-shot            *)
(* registration is never dropped: there is always something under way that *)
(* ends with a modfd.  A refused task breaks it (append's result is not    *)
(* looked at), and nothing else does.                                      *)
THEOREM NeverDeafWithRoom == Spec /\ []Room => []NeverDeaf
<1> USE IOAssumption DEF Modes
<1>1. Init => NeverDeaf
  BY DEF Init, NeverDeaf
<1>2. TasksSound /\ TasksSound' /\ Room /\ NeverDeaf /\ [Next]_vars => NeverDeaf'
  <2> SUFFICES ASSUME TasksSound, TasksSound', Room, NeverDeaf, [Next]_vars
               PROVE  NeverDeaf'
    OBVIOUS
  \* What keeps the registration: the three disjuncts, one by one.
  <2>a. ASSUME armed' = armed \/ armed' # "none", UNCHANGED main,
               \A i \in DOMAIN pending : i \in DOMAIN pending' /\ pending'[i] = pending[i],
               \A w \in Workers : running[w] = 0 => running'[w] = 0
        PROVE  NeverDeaf'
    BY <2>a DEF NeverDeaf
  <2>1. CASE Send \/ Drain \/ UNCHANGED vars
    BY <2>1, <2>a DEF Send, Drain, loop, vars, poolState
  <2>2. CASE Push
    <3>1. append(1) /\ UNCHANGED <<armed, main>>
      BY <2>2 DEF Push, kernel, loop
    <3> QED BY <2>a, <3>1, AppendTypes
  <2>3. CASE EventIn \/ EventOut \/ Recv \/ Advance \/ WriteDone
    BY <2>3 DEF EventIn, EventOut, Recv, Advance, WriteDone, NeverDeaf
  <2>4. CASE SubmitRead
    <3>1. pending' = Append(pending, 0)
      BY <2>4 DEF SubmitRead, append, Pool!Submit, Room
    <3>2. Len(pending) + 1 \in DOMAIN pending' /\ pending'[Len(pending) + 1] = 0
      BY <3>1 DEF TasksSound
    <3> QED BY <3>2 DEF NeverDeaf
  <2>5. CASE WriteSome \/ WriteRearm
    <3>1. (main' = main /\ main = "write") \/ armed' # "none"
      BY <2>5 DEF WriteSome, WriteRearm, modfd
    <3> QED BY <3>1 DEF NeverDeaf
  <2>6. ASSUME NEW w \in Workers, Begin(w) PROVE NeverDeaf'
    <3>1. /\ pending # <<>> /\ pending' = Tail(pending)
          /\ running' = [running EXCEPT ![w] = Head(pending)]
          /\ running[w] = NoTask /\ UNCHANGED <<armed, main>>
      BY <2>6 DEF Begin, Pool!Start, kernel, loop
    <3>2. ASSUME NEW i \in DOMAIN pending, pending[i] = 0
          PROVE  running'[w] = 0 \/ \E j \in DOMAIN pending' : pending'[j] = 0
      <4>1. CASE i = 1
        BY <3>1, <3>2, <4>1 DEF TasksSound
      <4>2. CASE i # 1
        <5>1. i - 1 \in DOMAIN pending' /\ pending'[i - 1] = pending[i]
          BY <3>1, <4>2 DEF TasksSound
        <5> QED BY <3>2, <5>1
      <4> QED BY <4>1, <4>2
    <3>3. \A v \in Workers : running[v] = 0 => running'[v] = 0
      BY <3>1 DEF TasksSound
    <3> QED BY <3>1, <3>2, <3>3 DEF NeverDeaf
  <2>7. ASSUME NEW w \in Workers, Process(w) PROVE NeverDeaf'
    <3>1. CASE ParseNext(w) \/ ParseEnd(w) \/ Reply(w) \/ init_read(w)
      BY <2>a, <3>1 DEF ParseNext, ParseEnd, Reply, init_read, kernel, loop, poolState
    <3>2. CASE Notify(w)
      <4>1. append(1) /\ UNCHANGED <<armed, main>>
        BY <3>2 DEF Notify, kernel, loop
      <4> QED BY <2>a, <4>1, AppendTypes
    <3>3. CASE ReadRearm(w)
      BY <3>3 DEF ReadRearm, modfd, NeverDeaf
    <3>4. CASE ArmWrite(w)
      BY <2>a, <3>4 DEF ArmWrite, modfd, loop, poolState
    <3>5. CASE LeaveWrite(w)
      <4>1. /\ pending' = pending /\ running' = [running EXCEPT ![w] = NoTask]
            /\ wpc[w] = "leave" /\ UNCHANGED <<armed, main>>
        BY <3>5 DEF LeaveWrite, Pool!End, kernel, loop
      <4>2. running[w] = 1
        BY <4>1 DEF TasksSound, Writing
      <4>3. \A v \in Workers : running[v] = 0 => running'[v] = 0
        BY <4>1, <4>2 DEF TasksSound
      <4> QED BY <2>a, <4>1, <4>3
    <3>6. CASE EnterWrite(w)
      <4>1. running[w] = 1
        BY <3>6 DEF EnterWrite, TasksSound, Writing
      <4>2. pending' = pending \/ pending' = Append(pending, 1)
        BY <3>6 DEF EnterWrite, poolState
      <4>3. \A v \in Workers : running[v] = 0 => running'[v] = 0
        BY <3>6, <4>1 DEF EnterWrite, poolState, TasksSound
      <4>4. \A i \in DOMAIN pending : i \in DOMAIN pending' /\ pending'[i] = pending[i]
        BY <4>2 DEF TasksSound
      <4>5. UNCHANGED <<armed, main>>
        BY <3>6 DEF EnterWrite, kernel, loop
      <4> QED BY <2>a, <4>3, <4>4, <4>5
    <3> QED BY <2>7, <3>1, <3>2, <3>3, <3>4, <3>5, <3>6 DEF Process
  <2> QED BY <2>1, <2>2, <2>3, <2>4, <2>5, <2>6, <2>7 DEF Next, Loop
<1> QED BY <1>1, <1>2, TasksInvariant, PTL DEF Spec

-----------------------------------------------------------------------------
(* The flag names the one worker inside: nobody while it is down. *)
Inside == {w \in Workers : wpc[w] \in {"arm", "leave"}}
FlagSound == IF m_is_process_write THEN \E w \in Workers : Inside = {w}
                                   ELSE Inside = {}

(* However many mode-1 tasks of a connection are executed at once: at most *)
(* one worker is between the two sections of process_write().              *)
THEOREM WriterCorrect == Spec => []OneProcessWriter
<1>1. Init => FlagSound
  BY DEF Init, FlagSound, Inside
<1>2. TasksSound /\ FlagSound /\ [Next]_vars => FlagSound'
  <2> SUFFICES ASSUME TasksSound, FlagSound, [Next]_vars PROVE FlagSound'
    OBVIOUS
  <2>a. ASSUME UNCHANGED m_is_process_write, Inside' = Inside PROVE FlagSound'
    BY <2>a DEF FlagSound
  <2>1. ASSUME UNCHANGED <<m_is_process_write, wpc>> PROVE FlagSound'
    BY <2>1, <2>a DEF Inside
  <2>2. ASSUME NEW w \in Workers, NEW p, UNCHANGED m_is_process_write,
               wpc' = [wpc EXCEPT ![w] = p],
               p \in {"arm", "leave"} <=> wpc[w] \in {"arm", "leave"}
        PROVE  FlagSound'
    <3>1. Inside' = Inside
      BY <2>2 DEF Inside, TasksSound
    <3> QED BY <2>a, <2>2, <3>1
  <2>3. ASSUME NEW w \in Workers, EnterWrite(w) PROVE FlagSound'
    <3>1. CASE m_is_process_write
      BY <2>2, <2>3, <3>1 DEF EnterWrite
    <3>2. CASE ~m_is_process_write
      <4>1. m_is_process_write' = TRUE /\ wpc' = [wpc EXCEPT ![w] = "arm"]
        BY <2>3, <3>2 DEF EnterWrite
      <4>2. Inside' = {w}
        BY <3>2, <4>1 DEF FlagSound, Inside, TasksSound
      <4> QED BY <4>1, <4>2 DEF FlagSound
    <3> QED BY <3>1, <3>2
  <2>4. ASSUME NEW w \in Workers, LeaveWrite(w) PROVE FlagSound'
    <3>1. /\ wpc[w] = "leave" /\ wpc' = [wpc EXCEPT ![w] = "start"]
          /\ m_is_process_write' = FALSE
      BY <2>4 DEF LeaveWrite
    <3>2. Inside = {w}
      BY <3>1 DEF FlagSound, Inside
    <3>3. Inside' = {}
      BY <3>1, <3>2 DEF Inside, TasksSound
    <3> QED BY <3>1, <3>3 DEF FlagSound
  <2>5. ASSUME NEW w \in Workers,
               \/ Begin(w) \/ ParseNext(w) \/ ParseEnd(w) \/ Reply(w) \/ Notify(w)
               \/ init_read(w) \/ ReadRearm(w) \/ ArmWrite(w)
        PROVE  FlagSound'
    <3>1. UNCHANGED m_is_process_write
      BY <2>5 DEF Begin, ParseNext, ParseEnd, Reply, Notify, init_read, ReadRearm,
                  ArmWrite
    <3>2. CASE Begin(w)
      <4>1. wpc[w] = "start"
        <5>1. running[w] = NoTask
          BY <3>2 DEF Begin, Pool!Start
        <5> QED BY <5>1, IOAssumption DEF TasksSound, Reading, Writing, Modes
      <4> QED BY <2>2, <3>1, <3>2, <4>1 DEF Begin
    <3>3. CASE ~Begin(w)
      <4>1. \E p \in Reading \cup Writing \cup {"start"} :
               /\ wpc' = [wpc EXCEPT ![w] = p]
               /\ p \in {"arm", "leave"} <=> wpc[w] \in {"arm", "leave"}
        BY <2>5, <3>3 DEF ParseNext, ParseEnd, Reply, Notify, init_read, ReadRearm,
                          ArmWrite, Reading, Writing
      <4> QED BY <2>2, <3>1, <4>1
    <3> QED BY <3>2, <3>3
  <2>6. CASE Send \/ Drain \/ Push \/ Loop \/ UNCHANGED vars
    BY <2>1, <2>6 DEF Send, Drain, Push, Loop, EventIn, EventOut, Recv, Advance,
                      SubmitRead, WriteSome, WriteDone, WriteRearm, worker, vars
  <2> QED BY <2>3, <2>4, <2>5, <2>6 DEF Next, Process
<1>3. FlagSound => OneProcessWriter
  <2> SUFFICES ASSUME FlagSound PROVE OneProcessWriter
    OBVIOUS
  <2>1. Cardinality(Inside) = IF m_is_process_write THEN 1 ELSE 0
    BY FS_Singleton, FS_EmptySet DEF FlagSound
  <2> QED BY <2>1 DEF OneProcessWriter, Inside
<1> QED BY <1>1, <1>2, <1>3, TasksInvariant, PTL DEF Spec

-----------------------------------------------------------------------------
(* The answers m_datas may hold. *)
Answers == [of : Items, left : 1..PacketLen]

(* The read side: the buffer's contents and indices.  What is in the       *)
(* buffer, was received and is not counted yet, and waits in the kernel    *)
(* was all sent.                                                           *)
Reads ==
    /\ sent \in 0..MaxRequests /\ inbox \in Seq(1..MaxRequests)
    /\ m_read_buf \in Seq(0..MaxRequests)
    /\ m_start_line \in 0..m_checked_idx /\ m_checked_idx \in 0..MaxRequests
    /\ m_read_idx \in Nat /\ m_read_idx + Len(inbox) <= sent
    /\ main = "advance" =>
          /\ got.base \in Nat /\ got.n \in Nat
          /\ m_read_idx + got.n + Len(inbox) <= sent
          /\ got.base + got.n + Len(inbox) <= sent
    /\ request \in [Workers -> 0..MaxRequests] /\ handled \subseteq 1..MaxRequests

(* The write side: what the answers, their history and the registration    *)
(* are made of, and that append() keeps to the queue's limit.              *)
Writes ==
    /\ pushed \in 0..MaxPushes /\ unread \in 0..SendRoom
    /\ armed \in {"in", "out", "none"} /\ m_is_process_write \in BOOLEAN
    /\ m_datas \in Seq(Answers) /\ queued \in Seq(Items) /\ wire \in Seq(Items)
    /\ Len(pending) <= Capacity

(* It holds throughout: recv may be overtaken by an init_read, but what it *)
(* adds to m_read_idx was received after what is counted already.          *)
LEMMA ReadsInvariant == Spec => []Reads
<1> USE IOAssumption
<1>1. Init => Reads
  BY DEF Init, Reads, Blank
<1>2. Reads /\ [Next]_vars => Reads'
  <2> SUFFICES ASSUME Reads, [Next]_vars PROVE Reads'
    OBVIOUS
  <2>1. CASE UNCHANGED <<sent, inbox, buffer, loop, request, handled>>
    BY <2>1 DEF Reads, buffer, loop
  <2>2. CASE Send
    <3>1. /\ sent < MaxRequests /\ sent' = sent + 1 /\ inbox' = Append(inbox, sent')
          /\ UNCHANGED <<buffer, loop, request, handled>>
      BY <2>2 DEF Send, worker
    <3>2. sent' \in 1..MaxRequests
      BY <3>1 DEF Reads
    <3>3. inbox' \in Seq(1..MaxRequests) /\ Len(inbox') = Len(inbox) + 1
      BY <3>1, <3>2 DEF Reads
    <3> QED BY <3>1, <3>2, <3>3, SMTT(30) DEF Reads, buffer, loop
  <2>3. CASE Recv
    <3>1. /\ got' = [base |-> m_read_idx, n |-> Len(inbox)] /\ inbox' = <<>>
          /\ m_read_buf' = Put(m_read_buf, m_read_idx, inbox) /\ main' = "advance"
          /\ UNCHANGED <<sent, m_start_line, m_checked_idx, m_read_idx, request, handled>>
      BY <2>3 DEF Recv, clients, worker
    <3>2. m_read_buf' \in Seq(0..MaxRequests)
      <4> DEFINE n == m_read_idx + Len(inbox)
                 x(i) == IF i > m_read_idx THEN inbox[i - m_read_idx]
                         ELSE IF i <= Len(m_read_buf) THEN m_read_buf[i] ELSE Blank
      <4>1. n \in Nat /\ \A i \in 1..n : x(i) \in 0..MaxRequests
        BY DEF Reads, Blank
      <4>2. m_read_buf' = [i \in 1..n |-> x(i)]
        BY <3>1 DEF Put
      <4> HIDE DEF n, x
      <4> QED BY <4>1, <4>2
    <3> QED BY <3>1, <3>2 DEF Reads
  <2>4. CASE Advance
    <3>1. /\ m_read_idx' \in {m_read_idx + got.n, got.base + got.n}
          /\ main = "advance" /\ main' = "submit"
          /\ UNCHANGED <<sent, inbox, m_read_buf, m_start_line, m_checked_idx, request,
                         handled>>
      BY <2>4 DEF Advance, clients, kernel, worker
    <3> QED BY <3>1, SMTT(30) DEF Reads
  <2>5. CASE EventIn \/ EventOut \/ SubmitRead \/ WriteSome \/ WriteDone \/ WriteRearm
    <3>1. /\ main' # "advance" /\ UNCHANGED <<sent, inbox, buffer, request, handled>>
      BY <2>5 DEF EventIn, EventOut, SubmitRead, WriteSome, WriteDone, WriteRearm, clients,
                  kernel, worker
    <3> QED BY <3>1 DEF Reads, buffer
  <2>6. ASSUME NEW w \in Workers, ParseNext(w) PROVE Reads'
    <3> DEFINE Avail == {i \in (m_checked_idx + 1)..m_read_idx :
                           i <= Len(m_read_buf) /\ IsRequest(m_read_buf[i])}
               next == CHOOSE i \in Avail : \A j \in Avail : i <= j
    <3>1. /\ UNCHANGED <<sent, inbox, loop>> /\ m_checked_idx < m_read_idx
      BY <2>6 DEF ParseNext, kernel, clients
    <3>2. CASE Avail = {}
      <4>1. /\ m_read_buf' = [i \in 1..(m_read_idx - m_start_line) |-> Blank]
            /\ m_read_idx' = m_read_idx - m_start_line
            /\ m_checked_idx' = m_read_idx' /\ m_start_line' = 0
            /\ UNCHANGED <<request, handled>>
        BY <2>6, <3>2 DEF ParseNext
      <4>2. m_read_idx' \in Nat /\ m_read_idx' <= m_read_idx
        BY <3>1, <4>1 DEF Reads
      <4>3. m_read_buf' \in Seq(0..MaxRequests)
        BY <4>1, <4>2 DEF Blank, Reads
      <4>4. m_read_idx' + Len(inbox) <= sent /\ m_read_idx' \in 0..MaxRequests
        BY <4>2 DEF Reads
      <4> HIDE DEF Avail, next
      <4> QED BY <3>1, <4>1, <4>2, <4>3, <4>4, SMTT(30) DEF Reads, loop
    <3>3. CASE Avail # {}
      <4>1. /\ m_checked_idx' = next /\ m_start_line' = next
            /\ UNCHANGED <<m_read_buf, m_read_idx>>
            /\ \/ /\ request' = [request EXCEPT ![w] = m_read_buf[next]]
                  /\ handled' = handled \cup {m_read_buf[next]}
               \/ UNCHANGED <<request, handled>>
        BY <2>6, <3>3 DEF ParseNext
      <4>2. next \in Avail
        <5>1. Avail \in SUBSET Nat
          BY DEF Reads
        <5>2. \E i \in Avail : \A j \in Avail : i <= j
          <6> HIDE DEF Avail
          <6> QED BY <3>3, <5>1, Least
        <5> HIDE DEF Avail
        <5> QED BY <5>2
      <4>3. next \in 0..MaxRequests /\ m_read_buf[next] \in 1..MaxRequests
        <5>1. /\ next \in (m_checked_idx + 1)..m_read_idx
              /\ next <= Len(m_read_buf) /\ m_read_buf[next] # 0
          BY <4>2 DEF IsRequest, Blank
        <5> HIDE DEF next
        <5> QED BY <5>1 DEF Reads
      <4>4. /\ request' \in [Workers -> 0..MaxRequests] /\ handled' \subseteq 1..MaxRequests
        <5> DEFINE r == m_read_buf[next]
        <5>1. r \in 1..MaxRequests /\ r \in 0..MaxRequests
          BY <4>3
        <5>2. \/ request' = [request EXCEPT ![w] = r] /\ handled' = handled \cup {r}
              \/ UNCHANGED <<request, handled>>
          BY <4>1
        <5>3. request \in [Workers -> 0..MaxRequests] /\ handled \subseteq 1..MaxRequests
          BY DEF Reads
        <5> HIDE DEF r
        <5> QED BY <5>1, <5>2, <5>3
      <4> HIDE DEF next, Avail
      <4> QED BY <3>1, <4>1, <4>3, <4>4 DEF Reads, loop
    <3> QED BY <3>2, <3>3
  <2>7. ASSUME NEW w \in Workers, init_read(w) PROVE Reads'
    <3>1. /\ m_read_buf' = <<>> /\ m_start_line' = 0 /\ m_checked_idx' = 0
          /\ m_read_idx' = 0 /\ UNCHANGED <<sent, inbox, loop, request, handled>>
      BY <2>7 DEF init_read, kernel, clients
    <3> QED BY <3>1 DEF Reads, loop
  <2>8. ASSUME NEW w \in Workers, Notify(w) PROVE Reads'
    <3>1. /\ request' = [request EXCEPT ![w] = Blank]
          /\ UNCHANGED <<sent, inbox, buffer, loop, handled>>
      BY <2>8 DEF Notify, kernel, clients
    <3>2. request' \in [Workers -> 0..MaxRequests]
      BY <3>1 DEF Reads, Blank
    <3> QED BY <3>1, <3>2 DEF Reads, buffer, loop
  <2>9. ASSUME NEW w \in Workers,
               \/ Begin(w) \/ ParseEnd(w) \/ Reply(w) \/ ReadRearm(w)
               \/ EnterWrite(w) \/ ArmWrite(w) \/ LeaveWrite(w)
        PROVE  Reads'
    BY <2>1, <2>9 DEF Begin, ParseEnd, Reply, ReadRearm, EnterWrite, ArmWrite, LeaveWrite,
                      kernel, clients
  <2>10. CASE Drain \/ Push \/ UNCHANGED vars
    BY <2>1, <2>10 DEF Drain, Push, vars, clients, kernel, worker, buffer, loop
  <2> QED BY <2>2, <2>3, <2>4, <2>5, <2>6, <2>7, <2>8, <2>9, <2>10 DEF Next, Loop, Process
<1> QED BY <1>1, <1>2, PTL DEF Spec

(* write() updates one field of the answer it sends from. *)
LEMMA SendsPart ==
    ASSUME NEW a \in Answers, NEW k
    PROVE  [a EXCEPT !.left = @ - k] = [of |-> a.of, left |-> a.left - k]
<1> DEFINE n == a.left - k
<1>1. [a EXCEPT !.left = n] = [of |-> a.of, left |-> n]
  <2> HIDE DEF n
  <2> QED BY DEF Answers
<1> QED BY <1>1

(* It holds throughout. *)
LEMMA WritesInvariant == Spec => []Writes
<1> USE IOAssumption DEF Items
<1>1. Init => Writes
  <2> SUFFICES ASSUME Init PROVE Writes
    OBVIOUS
  <2>1. /\ m_datas = <<>> /\ queued = <<>> /\ wire = <<>> /\ pending = <<>>
        /\ pushed = 0 /\ unread = 0 /\ armed = "in" /\ m_is_process_write = FALSE
    BY DEF Init
  <2>2. \A S : <<>> \in Seq(S)
    OBVIOUS
  <2>3. Len(<<>>) = 0
    OBVIOUS
  <2>4. Len(pending) <= Capacity /\ pushed \in 0..MaxPushes /\ unread \in 0..SendRoom
    BY <2>1, <2>3
  <2> QED BY <2>1, <2>2, <2>4 DEF Writes
<1>2. Reads /\ TasksSound /\ Writes /\ [Next]_vars => Writes'
  <2> SUFFICES ASSUME Reads, TasksSound, Writes, [Next]_vars PROVE Writes'
    OBVIOUS
  \* append() keeps to the queue's limit.
  <2>a. ASSUME NEW mode, append(mode) PROVE Len(pending') <= Capacity
    <3>1. pending' = pending \/ (Len(pending) < Capacity /\ pending' = Append(pending, mode))
      BY <2>a DEF append, Pool!Submit, poolState
    <3> QED BY <3>1 DEF Writes, TasksSound
  <2>b. ASSUME UNCHANGED <<pushed, unread, armed, m_is_process_write, answers>>,
               Len(pending') <= Capacity
        PROVE  Writes'
    BY <2>b DEF Writes, answers
  <2>c. ASSUME NEW x \in Items, append_back_data(x)
        PROVE  /\ m_datas' \in Seq(Answers) /\ queued' \in Seq(Items) /\ wire' = wire
    BY <2>c DEF append_back_data, Answer, Answers, Writes
  <2>1. CASE UNCHANGED <<pending, pushed, unread, armed, m_is_process_write, answers>>
    BY <2>1, <2>b DEF Writes
  <2>2. CASE Send \/ Recv \/ Advance \/ WriteDone \/ UNCHANGED vars
    BY <2>1, <2>2 DEF Send, Recv, Advance, WriteDone, vars, poolState, clients, kernel,
                      answers
  <2>3. CASE Drain \/ EventIn \/ EventOut \/ WriteRearm
    <3>1. /\ unread' \in 0..SendRoom /\ armed' \in {"in", "out", "none"}
          /\ UNCHANGED <<pending, pushed, m_is_process_write, answers>>
      BY <2>3 DEF Drain, EventIn, EventOut, WriteRearm, modfd, Writes, poolState, clients
    <3> QED BY <3>1 DEF Writes, answers
  <2>4. CASE Push
    <3>1. /\ pushed < MaxPushes /\ pushed' = pushed + 1 /\ append_back_data(-pushed')
          /\ append(1) /\ UNCHANGED <<unread, armed, m_is_process_write>>
      BY <2>4 DEF Push, kernel
    <3>2. pushed' \in 0..MaxPushes /\ -pushed' \in Items
      BY <3>1 DEF Writes
    <3> QED BY <2>a, <2>c, <3>1, <3>2 DEF Writes
  <2>5. CASE SubmitRead
    BY <2>5, <2>a, <2>b DEF SubmitRead, kernel, clients
  <2>6. CASE WriteSome
    <3>1. /\ m_datas # <<>> /\ UNCHANGED <<pending, pushed, m_is_process_write>>
      BY <2>6 DEF WriteSome, poolState, clients
    <3>2. CASE unread = SendRoom
      <4>1. armed' = "out" /\ UNCHANGED <<unread, answers>>
        BY <2>6, <3>2 DEF WriteSome, modfd
      <4> QED BY <3>1, <4>1 DEF Writes, answers
    <3>3. CASE unread # SendRoom
      <4> DEFINE pack == Head(m_datas)
      <4>1. PICK k \in 1..(SendRoom - unread) :
               /\ k <= pack.left /\ unread' = unread + k
               /\ wire' = wire \o [i \in 1..k |-> pack.of]
               /\ m_datas' = (IF k = pack.left THEN Tail(m_datas)
                              ELSE [m_datas EXCEPT ![1].left = @ - k])
               /\ UNCHANGED <<armed, queued>>
        BY <2>6, <3>3 DEF WriteSome
      <4>2. /\ m_datas[1] = pack /\ pack \in Answers /\ pack.of \in Items
            /\ pack.left \in 1..PacketLen /\ 1 \in DOMAIN m_datas
        <5>1. pack = m_datas[1] /\ pack \in Answers /\ 1 \in DOMAIN m_datas
          BY <3>1 DEF Writes
        <5> HIDE DEF pack
        <5> QED BY <5>1 DEF Answers
      <4>3. unread' \in 0..SendRoom
        BY <4>1, SMTT(30) DEF Writes
      <4>4. wire' \in Seq(Items)
        <5>1. [i \in 1..k |-> pack.of] \in Seq(Items)
          BY <4>2
        <5> HIDE DEF pack
        <5> QED BY <4>1, <5>1 DEF Writes
      <4>5. m_datas' \in Seq(Answers)
        <5>1. CASE k = pack.left
          <6>1. m_datas' = Tail(m_datas)
            BY <4>1, <5>1
          <6> QED BY <3>1, <6>1 DEF Writes
        <5>2. CASE k # pack.left
          <6> DEFINE rest == [of |-> pack.of, left |-> pack.left - k]
          <6>1. m_datas' = [m_datas EXCEPT ![1] = rest]
            <7>1. m_datas' = [m_datas EXCEPT ![1].left = @ - k]
              BY <4>1, <5>2
            <7>2. m_datas[1] \in Answers
              BY <4>2
            <7>3. [m_datas[1] EXCEPT !.left = @ - k] = rest
              <8> HIDE DEF pack
              <8> QED BY <4>2, <7>2, SendsPart
            <7> QED BY <7>1, <7>3
          <6>2. rest \in Answers
            <7>1. pack.left - k \in 1..PacketLen
              BY <4>1, <4>2, <5>2
            <7> QED BY <4>2, <7>1 DEF Answers
          <6> HIDE DEF rest
          <6> QED BY <6>1, <6>2, <4>2 DEF Writes
        <5> QED BY <5>1, <5>2
      <4> QED BY <3>1, <4>1, <4>3, <4>4, <4>5 DEF Writes
    <3> QED BY <3>2, <3>3
  <2>7. ASSUME NEW w \in Workers, Begin(w) PROVE Writes'
    <3>1. /\ pending # <<>> /\ pending' = Tail(pending)
          /\ UNCHANGED <<pushed, unread, armed, m_is_process_write, answers>>
      BY <2>7 DEF Begin, Pool!Start, kernel, clients
    <3>2. Len(pending') = Len(pending) - 1
      BY <3>1 DEF TasksSound
    <3>3. Len(pending') <= Capacity
      BY <3>2 DEF Writes, TasksSound
    <3> QED BY <2>b, <3>1, <3>3
  <2>8. ASSUME NEW w \in Workers, Process(w) PROVE Writes'
    <3>1. CASE ParseNext(w) \/ ParseEnd(w) \/ init_read(w)
      BY <2>1, <3>1 DEF ParseNext, ParseEnd, init_read, poolState, kernel, clients
    <3>2. CASE Reply(w)
      <4>1. /\ append_back_data(request[w])
            /\ UNCHANGED <<pending, pushed, unread, armed, m_is_process_write>>
        BY <3>2 DEF Reply, poolState, kernel, clients
      <4>2. request[w] \in Items
        BY DEF Reads
      <4> QED BY <2>c, <4>1, <4>2 DEF Writes
    <3>3. CASE Notify(w)
      BY <2>a, <2>b, <3>3 DEF Notify, kernel, clients
    <3>4. CASE ReadRearm(w) \/ ArmWrite(w) \/ LeaveWrite(w)
      <4>1. /\ armed' \in {"in", "out", "none"} /\ m_is_process_write' \in BOOLEAN
            /\ UNCHANGED <<pending, pushed, unread, answers>>
        BY <3>4 DEF ReadRearm, ArmWrite, LeaveWrite, modfd, Pool!End, poolState, kernel,
                    clients, Writes
      <4> QED BY <4>1 DEF Writes, answers
    <3>5. CASE EnterWrite(w)
      <4>1. /\ m_is_process_write' \in BOOLEAN
            /\ pending' = pending
               \/ (Len(pending) < Capacity /\ pending' = Append(pending, 1))
            /\ UNCHANGED <<pushed, unread, armed, answers>>
        BY <3>5 DEF EnterWrite, poolState, kernel, clients, Writes
      <4>2. Len(pending') <= Capacity
        BY <4>1 DEF Writes, TasksSound
      <4> QED BY <4>1, <4>2 DEF Writes, answers
    <3> QED BY <2>8, <3>1, <3>2, <3>3, <3>4, <3>5 DEF Process
  <2> QED BY <2>2, <2>3, <2>4, <2>5, <2>6, <2>7, <2>8 DEF Next, Loop
<1> QED BY <1>1, <1>2, ReadsInvariant, TasksInvariant, PTL DEF Spec

(* TypeOK of the model, for every value of the constants. *)
THEOREM TypeCorrect == Spec => []TypeOK
<1>1. ASSUME Reads, Writes, TasksSound PROVE TypeOK
  <2> USE IOAssumption
  <2>1. /\ pending \in Seq(Modes) /\ Len(pending) <= Capacity
        /\ running \in [Workers -> Modes \cup {NoTask}]
        /\ main \in {"wait", "recv", "advance", "submit", "write", "rearm"}
        /\ armed \in {"in", "out", "none"} /\ m_is_process_write \in BOOLEAN
        /\ pushed \in 0..MaxPushes /\ unread \in 0..SendRoom
        /\ queued \in Seq(Items) /\ wire \in Seq(Items)
    BY <1>1 DEF Writes, TasksSound
  <2>2. /\ inbox \in Seq(1..MaxRequests) /\ sent \in 0..MaxRequests
        /\ m_read_buf \in Seq(0..MaxRequests)
        /\ request \in [Workers -> 0..MaxRequests] /\ handled \subseteq 1..MaxRequests
    BY <1>1 DEF Reads
  <2>3. /\ {m_start_line, m_checked_idx, m_read_idx} \subseteq 0..MaxRequests
        /\ m_start_line <= m_checked_idx
    <3>1. Len(inbox) \in Nat
      BY <2>2
    <3> QED BY <1>1, <3>1 DEF Reads
  <2>4. wpc \in [Workers -> {"start", "first", "loop", "answer", "notify", "wipe",
                             "rearm", "test", "arm", "leave"}]
    <3>1. {"start"} \cup Reading \cup Writing
            = {"start", "first", "loop", "answer", "notify", "wipe",
               "rearm", "test", "arm", "leave"}
      BY DEF Reading, Writing
    <3>2. wpc \in [Workers -> {"start"} \cup Reading \cup Writing]
      BY <1>1 DEF TasksSound
    <3> QED BY <3>1, <3>2, Zenon
  <2>5. \A i \in DOMAIN m_datas : m_datas[i] \in [of : Items, left : 1..PacketLen]
    <3>1. \A i \in DOMAIN m_datas : m_datas[i] \in Answers
      BY <1>1 DEF Writes
    <3> QED BY <3>1, Zenon DEF Answers
  <2> QED BY <2>1, <2>2, <2>3, <2>4, <2>5, Zenon DEF TypeOK
<1> QED BY <1>1, ReadsInvariant, WritesInvariant, TasksInvariant, PTL

-----------------------------------------------------------------------------
(* n units of the packet x, and the units m_datas still has to send. *)
Copies(x, n) == [i \in 1..n |-> x]

Unsent(d) == [i \in DOMAIN d |-> Copies(d[i].of, d[i].left)]

Promised(q) == [i \in DOMAIN q |-> Copies(q[i], PacketLen)]

(* A packet is a sequence of its units. *)
LEMMA CopiesType ==
    ASSUME NEW x \in Items, NEW n \in Nat
    PROVE  Copies(x, n) \in Seq(Items)
BY DEF Copies

(* A packet sent in two parts is sent whole. *)
LEMMA CopiesSplit ==
    ASSUME NEW x \in Items, NEW k \in Nat, NEW n \in Nat
    PROVE  Copies(x, k) \o Copies(x, n) = Copies(x, k + n)
BY DEF Copies

(* The units of the list of answers, by answer. *)
LEMMA UnsentType ==
    ASSUME NEW d \in Seq(Answers)
    PROVE  Unsent(d) \in Seq(Seq(Items)) /\ Len(Unsent(d)) = Len(d)
<1> USE IOAssumption
<1>1. \A i \in 1..Len(d) : Copies(d[i].of, d[i].left) \in Seq(Items)
  <2> SUFFICES ASSUME NEW i \in 1..Len(d) PROVE Copies(d[i].of, d[i].left) \in Seq(Items)
    OBVIOUS
  <2>1. d[i] \in Answers
    OBVIOUS
  <2>2. d[i].of \in Items /\ d[i].left \in Nat
    BY <2>1 DEF Answers
  <2> QED BY <2>2, CopiesType
<1>2. DOMAIN d = 1..Len(d) /\ Len(d) \in Nat
  OBVIOUS
<1> DEFINE S == Seq(Items)
           x(i) == Copies(d[i].of, d[i].left)
<1>3. Unsent(d) = [i \in 1..Len(d) |-> x(i)]
  BY <1>2 DEF Unsent
<1>4. \A i \in 1..Len(d) : x(i) \in S
  BY <1>1
<1> HIDE DEF S, x
<1>5. Unsent(d) \in Seq(S) /\ Len(Unsent(d)) = Len(d)
  BY <1>2, <1>3, <1>4
<1> QED BY <1>5 DEF S

(* An answer appended to the list adds its units at the end. *)
LEMMA UnsentAppend ==
    ASSUME NEW d \in Seq(Answers), NEW a \in Answers
    PROVE  FlattenSeq(Unsent(Append(d, a)))
             = FlattenSeq(Unsent(d)) \o Copies(a.of, a.left)
<1> USE IOAssumption
<1> DEFINE x == Copies(a.of, a.left)
           e == Append(d, a)
<1>1. x \in Seq(Items)
  BY CopiesType DEF Answers
<1>2. /\ e \in Seq(Answers) /\ DOMAIN e = 1..(Len(d) + 1) /\ Len(d) \in Nat
      /\ DOMAIN d = 1..Len(d)
      /\ e[Len(d) + 1] = a /\ \A i \in 1..Len(d) : e[i] = d[i]
  OBVIOUS
<1> HIDE DEF e
<1>3. Unsent(e) = Append(Unsent(d), x)
  <2>1. /\ Unsent(d) \in Seq(Seq(Items)) /\ Len(Unsent(d)) = Len(d)
        /\ \A i \in 1..Len(d) : Unsent(d)[i] = Copies(d[i].of, d[i].left)
    BY <1>2, UnsentType DEF Unsent
  <2>2. /\ Len(Unsent(e)) = Len(d) + 1 /\ Unsent(e) \in Seq(Seq(Items))
        /\ \A i \in 1..(Len(d) + 1) : Unsent(e)[i] = Copies(e[i].of, e[i].left)
    <3>1. Len(e) = Len(d) + 1
      BY <1>2
    <3> QED BY <1>2, <3>1, UnsentType DEF Unsent
  <2>3. Unsent(e)[Len(d) + 1] = x
    BY <1>2, <2>2
  <2>4. \A i \in 1..Len(d) : Unsent(e)[i] = Unsent(d)[i]
    <3> SUFFICES ASSUME NEW i \in 1..Len(d) PROVE Unsent(e)[i] = Unsent(d)[i]
      OBVIOUS
    <3>1. e[i] = d[i] /\ i \in 1..(Len(d) + 1)
      BY <1>2
    <3>2. Unsent(e)[i] = Copies(e[i].of, e[i].left)
      BY <2>2, <3>1
    <3>3. Unsent(d)[i] = Copies(d[i].of, d[i].left)
      BY <2>1
    <3> QED BY <3>1, <3>2, <3>3, Zenon
  <2> DEFINE S == Seq(Items)
             y == Unsent(e)
             z == Unsent(d)
  <2>5. /\ y \in Seq(S) /\ z \in Seq(S) /\ x \in S /\ Len(y) = Len(z) + 1
        /\ y[Len(z) + 1] = x /\ \A i \in 1..Len(z) : y[i] = z[i]
    BY <1>1, <2>1, <2>2, <2>3, <2>4
  <2> HIDE DEF S, x, y, z
  <2>6. y = Append(z, x)
    BY <2>5
  <2> QED BY <2>6 DEF y, z
<1>4. FlattenSeq(Append(Unsent(d), x)) = FlattenSeq(Unsent(d)) \o x
  <2>1. Unsent(d) \in Seq(Seq(Items))
    BY UnsentType
  <2> HIDE DEF x
  <2> QED BY <1>1, <2>1, FlattenAppend
<1> QED BY <1>3, <1>4 DEF e

(* The same of the history of appended answers. *)
LEMMA PromisedAppend ==
    ASSUME NEW q \in Seq(Items), NEW a \in Items
    PROVE  /\ FlattenSeq(Promised(q)) \in Seq(Items)
           /\ FlattenSeq(Promised(Append(q, a)))
                = FlattenSeq(Promised(q)) \o Copies(a, PacketLen)
<1> USE IOAssumption
<1> DEFINE S == Seq(Items)
           e == Append(q, a)
           x == Copies(a, PacketLen)
           y == Promised(e)
           z == Promised(q)
<1>1. /\ e \in Seq(Items) /\ DOMAIN e = 1..(Len(q) + 1) /\ Len(q) \in Nat
      /\ DOMAIN q = 1..Len(q)
      /\ e[Len(q) + 1] = a /\ \A i \in 1..Len(q) : e[i] = q[i]
  OBVIOUS
<1>2. /\ x \in S /\ \A i \in 1..Len(q) : Copies(q[i], PacketLen) \in S
      /\ \A i \in 1..(Len(q) + 1) : Copies(e[i], PacketLen) \in S
  <2>1. /\ a \in Items /\ \A i \in 1..Len(q) : q[i] \in Items
        /\ \A i \in 1..(Len(q) + 1) : e[i] \in Items
    BY <1>1
  <2> HIDE DEF e
  <2> QED BY <2>1, CopiesType
<1> HIDE DEF S, e
<1>3. /\ z \in Seq(S) /\ Len(z) = Len(q)
      /\ \A i \in 1..Len(q) : z[i] = Copies(q[i], PacketLen)
  BY <1>1, <1>2 DEF Promised
<1>4. /\ y \in Seq(S) /\ Len(y) = Len(q) + 1
      /\ \A i \in 1..(Len(q) + 1) : y[i] = Copies(e[i], PacketLen)
  BY <1>1, <1>2 DEF Promised
<1>5. y[Len(z) + 1] = x /\ \A i \in 1..Len(z) : y[i] = z[i]
  BY <1>1, <1>3, <1>4
<1>6. y = Append(z, x)
  <2> HIDE DEF x, y, z
  <2> QED BY <1>2, <1>3, <1>4, <1>5
<1>7. FlattenSeq(z) \in Seq(Items) /\ FlattenSeq(Append(z, x)) = FlattenSeq(z) \o x
  <2> HIDE DEF x, z
  <2> QED BY <1>2, <1>3, FlattenType, FlattenAppend DEF S
<1> QED BY <1>6, <1>7 DEF e

(* The units of the first answer come first. *)
LEMMA UnsentHead ==
    ASSUME NEW d \in Seq(Answers), d # <<>>
    PROVE  FlattenSeq(Unsent(d))
             = Copies(d[1].of, d[1].left) \o FlattenSeq(Unsent(Tail(d)))
<1> DEFINE S == Seq(Items)
           t == Tail(d)
           y == Unsent(d)
           z == Unsent(t)
           x == Copies(d[1].of, d[1].left)
<1>1. /\ t \in Seq(Answers) /\ Len(d) \in Nat \ {0} /\ Len(t) = Len(d) - 1
      /\ DOMAIN d = 1..Len(d) /\ DOMAIN t = 1..Len(t) /\ \A i \in 1..Len(t) : t[i] = d[i + 1]
  OBVIOUS
<1> HIDE DEF t
<1>2. /\ y \in Seq(S) /\ Len(y) = Len(d) /\ z \in Seq(S) /\ Len(z) = Len(d) - 1
  BY <1>1, UnsentType
<1>3. y[1] = x /\ \A i \in 1..Len(z) : z[i] = y[i + 1]
  <2>1. \A i \in 1..Len(d) : y[i] = Copies(d[i].of, d[i].left)
    BY <1>1 DEF Unsent
  <2>2. \A i \in 1..Len(t) : z[i] = Copies(t[i].of, t[i].left)
    BY <1>1 DEF Unsent
  <2>3. \A i \in 1..Len(t) : i + 1 \in 1..Len(d)
    BY <1>1
  <2>4. y[1] = x
    <3>1. 1 \in 1..Len(d)
      BY <1>1
    <3> HIDE DEF y
    <3> QED BY <2>1, <3>1
  <2>5. ASSUME NEW i \in 1..Len(z) PROVE z[i] = y[i + 1]
    <3>1. i \in 1..Len(t)
      BY <1>1, <1>2
    <3>2. z[i] = Copies(t[i].of, t[i].left) /\ t[i] = d[i + 1] /\ i + 1 \in 1..Len(d)
      BY <1>1, <2>2, <2>3, <3>1
    <3>3. y[i + 1] = Copies(d[i + 1].of, d[i + 1].left)
      BY <2>1, <3>2
    <3> QED BY <3>2, <3>3, Zenon
  <2> QED BY <2>4, <2>5
<1> HIDE DEF S, x, y, z
<1>4. y # <<>> /\ Head(y) = x /\ Tail(y) = z
  BY <1>1, <1>2, <1>3, SMTT(30)
<1>5. FlattenSeq(y) = Head(y) \o FlattenSeq(Tail(y))
  BY <1>2, <1>4, FlattenHead DEF S
<1> QED BY <1>4, <1>5 DEF x, y, z, t

-----------------------------------------------------------------------------
(* WireInOrder with the local definitions named. *)
WireKept == wire \o FlattenSeq(Unsent(m_datas)) = FlattenSeq(Promised(queued))

(* append_back_data adds the same units to both sides. *)
LEMMA AppendKeeps ==
    ASSUME Writes, WireKept, NEW x \in Items, append_back_data(x)
    PROVE  WireKept'
<1> USE IOAssumption
<1> DEFINE a == Answer(x)
           w == wire
           u == FlattenSeq(Unsent(m_datas))
           p == FlattenSeq(Promised(queued))
           c == Copies(x, PacketLen)
<1>1. /\ m_datas' = Append(m_datas, a) /\ queued' = Append(queued, x) /\ wire' = w
      /\ m_datas \in Seq(Answers) /\ queued \in Seq(Items) /\ w \in Seq(Items)
  BY DEF append_back_data, Writes
<1>2. a \in Answers /\ a.of = x /\ a.left = PacketLen
  BY DEF Answer, Answers
<1>3. FlattenSeq(Unsent(m_datas')) = u \o c
  <2> HIDE DEF a
  <2> QED BY <1>1, <1>2, UnsentAppend
<1>4. FlattenSeq(Promised(queued')) = p \o c
  BY <1>1, PromisedAppend
<1>5. u \in Seq(Items) /\ c \in Seq(Items) /\ w \o u = p
  <2>1. Unsent(m_datas) \in Seq(Seq(Items))
    BY <1>1, UnsentType
  <2> QED BY <1>1, <2>1, FlattenType, CopiesType DEF WireKept
<1>6. w \o (u \o c) = (w \o u) \o c
  <2> HIDE DEF w, u, p, c
  <2>1. w \in Seq(Items) /\ u \in Seq(Items) /\ c \in Seq(Items)
    BY <1>1, <1>5
  <2> QED BY <2>1, SMT
<1>7. wire' \o FlattenSeq(Unsent(m_datas')) = FlattenSeq(Promised(queued'))
  <2> HIDE DEF a, w, u, p, c
  <2> QED BY <1>1, <1>3, <1>4, <1>5, <1>6
<1> QED BY <1>7 DEF WireKept

(* write() moves units from the head of the list to the wire. *)
LEMMA SendKeeps ==
    ASSUME Writes, WireKept, WriteSome
    PROVE  WireKept'
<1> USE IOAssumption
<1>1. /\ m_datas # <<>> /\ m_datas \in Seq(Answers) /\ queued \in Seq(Items)
      /\ wire \in Seq(Items) /\ unread \in 0..SendRoom
  BY DEF WriteSome, Writes
<1>2. CASE unread = SendRoom
  BY <1>2 DEF WriteSome, answers, WireKept
<1>3. CASE unread # SendRoom
  <2> DEFINE pack == Head(m_datas)
  <2>1. PICK k \in 1..(SendRoom - unread) :
           /\ k <= pack.left /\ wire' = wire \o [i \in 1..k |-> pack.of]
           /\ m_datas' = (IF k = pack.left THEN Tail(m_datas)
                          ELSE [m_datas EXCEPT ![1].left = @ - k])
           /\ UNCHANGED queued
    BY <1>3 DEF WriteSome
  <2>2. /\ m_datas[1] = pack /\ pack.of \in Items /\ pack.left \in 1..PacketLen
        /\ 1 \in DOMAIN m_datas /\ k \in Nat
    <3>1. pack = m_datas[1] /\ pack \in Answers /\ 1 \in DOMAIN m_datas
      BY <1>1
    <3>2. k \in Nat
      BY <1>1
    <3> HIDE DEF pack
    <3> QED BY <3>1, <3>2 DEF Answers
  <2> DEFINE t == FlattenSeq(Unsent(Tail(m_datas)))
             x == pack.of
             n == pack.left - k
             c == Copies(x, k)
             r == Copies(x, n)
             w == wire
             p == FlattenSeq(Promised(queued))
  <2>3. n \in Nat /\ k + n = pack.left
    BY <2>1, <2>2
  <2>4. w \o ((c \o r) \o t) = p
    <3>1. FlattenSeq(Unsent(m_datas)) = Copies(x, pack.left) \o t
      BY <1>1, <2>2, UnsentHead
    <3>2. c \o r = Copies(x, pack.left)
      <4>1. c \o r = Copies(x, k + n)
        <5> HIDE DEF pack, n
        <5> QED BY <2>2, <2>3, CopiesSplit, Zenon
      <4> HIDE DEF pack
      <4> QED BY <2>3, <4>1, Zenon
    <3> HIDE DEF pack, t, c, r, w, p
    <3> QED BY <3>1, <3>2 DEF WireKept, w, p
  <2>5. /\ t \in Seq(Items) /\ c \in Seq(Items) /\ r \in Seq(Items) /\ w \in Seq(Items)
    <3>1. Tail(m_datas) \in Seq(Answers)
      BY <1>1
    <3>2. Unsent(Tail(m_datas)) \in Seq(Seq(Items))
      BY <3>1, UnsentType
    <3>3. t \in Seq(Items)
      BY <3>2, FlattenType
    <3> HIDE DEF pack
    <3> QED BY <1>1, <2>2, <2>3, <3>3, CopiesType
  <2>6. FlattenSeq(Unsent(m_datas')) = r \o t
    <3>1. CASE k = pack.left
      <4>1. m_datas' = Tail(m_datas)
        BY <2>1, <3>1
      <4>2. n = 0 /\ r = <<>>
        <5> HIDE DEF pack
        <5> QED BY <2>2, <3>1 DEF Copies
      <4>3. <<>> \o t = t
        <5> HIDE DEF t
        <5> QED BY <2>5
      <4> HIDE DEF n
      <4> QED BY <4>1, <4>2, <4>3
    <3>2. CASE k # pack.left
      <4> DEFINE rest == [of |-> pack.of, left |-> n]
                 d == m_datas'
      <4>1. d = [m_datas EXCEPT ![1] = rest]
        <5>1. d = [m_datas EXCEPT ![1].left = @ - k]
          BY <2>1, <3>2
        <5>2. m_datas[1] \in Answers
          BY <1>1, <2>2
        <5>3. [m_datas[1] EXCEPT !.left = @ - k] = rest
          <6> HIDE DEF pack
          <6> QED BY <2>2, <5>2, SendsPart
        <5> QED BY <5>1, <5>3
      <4>2. rest \in Answers /\ rest.of = x /\ rest.left = n
        <5>1. n \in 1..PacketLen
          <6> HIDE DEF pack
          <6> QED BY <2>1, <2>2, <2>3, <3>2
        <5>2. pack \in Answers
          BY <1>1
        <5> HIDE DEF pack, n
        <5> QED BY <5>1, <5>2 DEF Answers
      <4> HIDE DEF rest, pack
      <4>3. /\ d \in Seq(Answers) /\ d # <<>> /\ d[1] = rest /\ Tail(d) = Tail(m_datas)
        BY <1>1, <2>2, <4>1, <4>2
      <4>4. FlattenSeq(Unsent(d)) = Copies(rest.of, rest.left) \o t
        <5> HIDE DEF d
        <5> QED BY <4>3, UnsentHead
      <4> QED BY <4>2, <4>4
    <3> QED BY <3>1, <3>2
  <2>7. (w \o c) \o (r \o t) = w \o ((c \o r) \o t)
    <3> HIDE DEF t, c, r, w
    <3>1. (w \o c) \o (r \o t) = w \o (c \o (r \o t))
      <4> DEFINE rt == r \o t
      <4>1. w \in Seq(Items) /\ c \in Seq(Items) /\ rt \in Seq(Items)
        BY <2>5
      <4> HIDE DEF rt
      <4>2. (w \o c) \o rt = w \o (c \o rt)
        BY <4>1, SMT
      <4> QED BY <4>2 DEF rt
    <3>2. c \o (r \o t) = (c \o r) \o t
      BY <2>5, SMTT(30)
    <3> QED BY <3>1, <3>2
  <2>8. wire' = w \o c /\ queued' = queued
    BY <2>1 DEF Copies
  <2>9. wire' \o FlattenSeq(Unsent(m_datas')) = FlattenSeq(Promised(queued'))
    <3> HIDE DEF pack, t, x, n, c, r, w
    <3> QED BY <2>4, <2>6, <2>7, <2>8
  <2> QED BY <2>9 DEF WireKept
<1> QED BY <1>2, <1>3

(* WireInOrder: what is on the wire and what m_datas has left to send are  *)
(* the packets appended, whole and in the order they were appended.        *)
THEOREM WireCorrect == Spec => []WireInOrder
<1> USE IOAssumption
<1>1. Init => WireKept
  <2> SUFFICES ASSUME Init PROVE WireKept
    OBVIOUS
  <2>1. wire = <<>> /\ m_datas = <<>> /\ queued = <<>>
    BY DEF Init
  <2>2. Unsent(<<>>) = <<>> /\ Promised(<<>>) = <<>>
    BY DEF Unsent, Promised
  <2>3. FlattenSeq(<<>>) = <<>>
    BY DEF FlattenSeq
  <2>4. <<>> \o <<>> = <<>>
    OBVIOUS
  <2> QED BY <2>1, <2>2, <2>3, <2>4 DEF WireKept
<1>2. Reads /\ Writes /\ WireKept /\ [Next]_vars => WireKept'
  <2> SUFFICES ASSUME Reads, Writes, WireKept, [Next]_vars PROVE WireKept'
    OBVIOUS
  <2>1. CASE UNCHANGED answers
    BY <2>1 DEF answers, WireKept
  <2>2. CASE Push
    <3>1. append_back_data(-pushed') /\ pushed < MaxPushes /\ pushed' = pushed + 1
      BY <2>2 DEF Push
    <3>2. -pushed' \in Items
      BY <3>1 DEF Writes, Items
    <3> QED BY <3>1, <3>2, AppendKeeps
  <2>3. ASSUME NEW w \in Workers, Reply(w) PROVE WireKept'
    <3>1. append_back_data(request[w]) /\ request[w] \in Items
      BY <2>3 DEF Reply, Reads, Items
    <3> QED BY <3>1, AppendKeeps
  <2>4. CASE WriteSome
    BY <2>4, SendKeeps
  <2>5. CASE Send \/ Drain \/ EventIn \/ EventOut \/ Recv \/ Advance \/ SubmitRead
             \/ WriteDone \/ WriteRearm \/ UNCHANGED vars
    BY <2>1, <2>5 DEF Send, Drain, EventIn, EventOut, Recv, Advance, SubmitRead,
                      WriteDone, WriteRearm, vars, answers
  <2>6. ASSUME NEW w \in Workers,
               \/ Begin(w) \/ ParseNext(w) \/ ParseEnd(w) \/ Notify(w) \/ init_read(w)
               \/ ReadRearm(w) \/ EnterWrite(w) \/ ArmWrite(w) \/ LeaveWrite(w)
        PROVE  WireKept'
    BY <2>1, <2>6 DEF Begin, ParseNext, ParseEnd, Notify, init_read, ReadRearm,
                      EnterWrite, ArmWrite, LeaveWrite
  <2> QED BY <2>2, <2>3, <2>4, <2>5, <2>6 DEF Next, Loop, Process
<1>3. WireKept => WireInOrder
  BY DEF WireKept, WireInOrder, Unsent, Promised, Copies
<1> QED BY <1>1, <1>2, <1>3, ReadsInvariant, WritesInvariant, PTL DEF Spec
=============================================================================
