--------------------------- MODULE LogQueueProofs ---------------------------
(***************************************************************************)
(* Theorems about LogQueue, for every number of threads, lines and days,   *)
(* every size of the ring and every length of a file.                      *)
(***************************************************************************)
EXTENDS LogQueue, TLAPS

-----------------------------------------------------------------------------
(* Indices of the ring.  The next index may be computed before or after    *)
(* the remainder is taken.                                                 *)
LEMMA NextIndex ==
    ASSUME NEW n \in Nat \ {0}, NEW a \in Int
    PROVE  a % n \in 0..(n - 1) /\ ((a % n) + 1) % n = (a + 1) % n
<1> DEFINE q == a \div n
           r == a % n
<1>1. a = n * q + r /\ r \in 0..(n - 1) /\ q \in Int
  OBVIOUS
<1>2. a + 1 = n * q + (r + 1)
  BY <1>1
<1> HIDE DEF q, r
<1>3. CASE r + 1 < n
  <2>1. r + 1 \in 0..(n - 1)
    BY <1>1, <1>3
  <2>2. \A x \in 0..(n - 1) : (n * q + x) % n = x /\ x % n = x
    BY <1>1
  <2> QED BY <1>1, <1>2, <2>1, <2>2 DEF r
<1>4. CASE r + 1 = n
  <2>1. a + 1 = n * (q + 1) + 0
    BY <1>1, <1>2, <1>4
  <2>2. (n * (q + 1) + 0) % n = 0
    <3>1. q + 1 \in Int
      BY <1>1
    <3>2. \A p \in Int : (n * p + 0) % n = 0
      OBVIOUS
    <3> HIDE DEF q
    <3> QED BY <3>1, <3>2
  <2>3. (r + 1) % n = 0
    BY <1>4
  <2> QED BY <2>1, <2>2, <2>3, <1>1 DEF r
<1> QED BY <1>1, <1>3, <1>4 DEF r

(* The same of any distance. *)
LEMMA Shift ==
    ASSUME NEW n \in Nat \ {0}, NEW a \in Int, NEW i \in Int
    PROVE  ((a % n) + i) % n = (a + i) % n
<1> DEFINE q == a \div n
           x == (a % n) + i
           p == x \div n
           s == x % n
<1>1. a = n * q + (a % n) /\ q \in Int /\ x \in Int
  OBVIOUS
<1>2. a + i = n * q + x
  BY <1>1
<1> HIDE DEF q, x
<1>3. x = n * p + s /\ p \in Int /\ s \in 0..(n - 1)
  BY <1>1
<1> HIDE DEF p, s
<1>4. a + i = n * (q + p) + s
  <2>1. n * (q + p) = n * q + n * p
    BY <1>1, <1>3
  <2> QED BY <1>1, <1>2, <1>3, <2>1
<1>5. (n * (q + p) + s) % n = s
  <2>1. \A y \in Int : (n * y + s) % n = s
    BY <1>3
  <2> QED BY <1>1, <1>3, <2>1
<1> QED BY <1>4, <1>5 DEF s, x

(* Two indices less than a turn apart are different cells. *)
LEMMA OtherIndex ==
    ASSUME NEW n \in Nat \ {0}, NEW a \in Int, NEW b \in Int, a < b, b - a < n
    PROVE  a % n # b % n
<1> DEFINE q == a \div n
           p == b \div n
           r == a % n
           s == b % n
<1>1. a = n * q + r /\ b = n * p + s /\ q \in Int /\ p \in Int /\ r \in Int /\ s \in Int
  OBVIOUS
<1> HIDE DEF q, p, r, s
<1>2. SUFFICES ASSUME r = s PROVE FALSE
  BY DEF r, s
<1>3. b - a = n * (p - q)
  <2>1. n * (p - q) = n * p - n * q
    BY <1>1
  <2> QED BY <1>1, <1>2, <2>1
<1>4. CASE p - q <= 0
  <2>1. \A x \in Int : x <= 0 => n * x <= 0
    OBVIOUS
  <2> QED BY <1>1, <1>3, <1>4, <2>1
<1>5. CASE p - q >= 1
  <2>1. \A x \in Int : x >= 1 => n * x >= n
    OBVIOUS
  <2> QED BY <1>1, <1>3, <1>5, <2>1
<1> QED BY <1>1, <1>4, <1>5

(* The number of a file grows with the count, and at every multiple of the *)
(* file's length it is a new one.                                          *)
LEMMA NextPart ==
    ASSUME NEW n \in Nat \ {0}, NEW m \in Nat
    PROVE  /\ m \div n \in Nat /\ (m + 1) \div n \in Nat
           /\ m \div n <= (m + 1) \div n
           /\ (m + 1) % n = 0 => m \div n < (m + 1) \div n
<1> DEFINE q == m \div n
           p == (m + 1) \div n
           r == m % n
           s == (m + 1) % n
<1>1. /\ m = n * q + r /\ m + 1 = n * p + s /\ q \in Int /\ p \in Int
      /\ r \in 0..(n - 1) /\ s \in 0..(n - 1)
  OBVIOUS
<1> HIDE DEF q, p, r, s
<1>2. n * (p - q) = r + 1 - s
  <2>1. n * (p - q) = n * p - n * q
    BY <1>1
  <2> QED BY <1>1, <2>1
<1>3. q \in Nat /\ p \in Nat
  <2>1. \A x \in Int : x <= -1 => n * x <= -n
    OBVIOUS
  <2> QED BY <1>1, <2>1
<1>4. q <= p
  <2>1. \A x \in Int : x <= -1 => n * x <= -n
    OBVIOUS
  <2> QED BY <1>1, <1>2, <2>1
<1>5. ASSUME s = 0 PROVE q < p
  <2>1. n * (p - q) >= 1
    BY <1>1, <1>2, <1>5
  <2>2. n * 0 = 0
    OBVIOUS
  <2> QED BY <1>1, <1>4, <2>1, <2>2
<1> QED BY <1>3, <1>4, <1>5 DEF q, p, s

-----------------------------------------------------------------------------
(* The ring: m_back is m_size cells after m_front (both are -1 at first,   *)
(* which stands for the last cell), and the cells between them hold lines. *)
Cell(i) == (m_front + i) % m_max_size

RingSound ==
    /\ m_array \in [Cells -> Lines \cup {NoLine}]
    /\ m_size \in 0..m_max_size
    /\ m_front \in -1..(m_max_size - 1) /\ m_back \in -1..(m_max_size - 1)
    /\ m_back % m_max_size = Cell(m_size)
    /\ \A i \in 1..m_size : m_array[Cell(i)] \in Lines

(* The threads and the flusher: who is not idle has a line, and the        *)
(* flusher has one exactly while it writes.                                *)
WritersSound ==
    /\ pc \in [Threads -> {"idle", "count", "test", "direct", "push"}]
    /\ line \in [Threads -> 0..MaxLines] /\ stamp \in [Threads -> Days]
    /\ flusher \in {"pop", "wait", "write"}
    /\ hand \in Lines \cup {NoLine}
    /\ flusher = "write" <=> hand # NoLine
    /\ \A t \in Threads : pc[t] # "idle" => line[t] >= 1
    /\ day \in Days /\ pushed \in Seq(Lines) /\ dropped \subseteq Lines

(* The files: the last one is of the day m_today. *)
FilesSound ==
    /\ m_count \in Nat /\ m_today \in Days
    /\ files \in Seq([day : Days, part : Nat]) /\ written \in Seq(Lines)
    /\ files # <<>> /\ files[Len(files)].day = m_today

(* No cell is a line before it is written. *)
LEMMA NoLineIsNone == NoLine \notin Lines
BY LogAssumption DEF Lines

(* push() appends to the queue the ring stands for. *)
LEMMA PushContents ==
    ASSUME RingSound, NEW t \in Threads, Push(t), Log(t) \in Lines
    PROVE  RingSound' /\ Contents' = Append(Contents, Log(t)) /\ m_size < m_max_size
<1> USE LogAssumption
<1> DEFINE n == m_max_size
           back == (m_back + 1) % n
<1>1. /\ m_size < n /\ m_back' = back /\ m_array' = [m_array EXCEPT ![back] = Log(t)]
      /\ m_size' = m_size + 1 /\ m_front' = m_front
  BY DEF Push
<1>2. /\ n \in Nat \ {0} /\ m_front \in Int /\ m_back \in Int /\ m_size \in 0..n
      /\ m_front \in -1..(n - 1) /\ m_back % n = Cell(m_size)
      /\ m_array \in [Cells -> Lines \cup {NoLine}]
      /\ \A i \in 1..m_size : m_array[Cell(i)] \in Lines
  BY DEF RingSound
<1>3. back = Cell(m_size + 1) /\ back \in Cells
  <2>1. back = (((m_front + m_size) % n) + 1) % n
    <3>1. ((m_back % n) + 1) % n = (m_back + 1) % n
      BY <1>2, NextIndex
    <3> QED BY <1>2, <3>1 DEF Cell
  <2>2. (((m_front + m_size) % n) + 1) % n = (m_front + m_size + 1) % n
    <3>1. m_front + m_size \in Int
      BY <1>2
    <3> QED BY <1>2, <3>1, NextIndex
  <2>3. m_front + m_size + 1 = m_front + (m_size + 1)
    BY <1>2
  <2>4. back \in 0..(n - 1)
    BY <1>2
  <2> QED BY <2>1, <2>2, <2>3, <2>4 DEF Cell, Cells
<1> HIDE DEF back
<1>4. \A i \in 1..m_size : Cell(i) \in Cells /\ Cell(i) # back
  <2> SUFFICES ASSUME NEW i \in 1..m_size PROVE Cell(i) \in Cells /\ Cell(i) # back
    OBVIOUS
  <2>1. /\ m_front + i \in Int /\ m_front + (m_size + 1) \in Int
        /\ m_front + i < m_front + (m_size + 1)
        /\ (m_front + (m_size + 1)) - (m_front + i) < n
    BY <1>1, <1>2
  <2>2. (m_front + i) % n # (m_front + (m_size + 1)) % n
    BY <1>2, <2>1, OtherIndex
  <2>3. (m_front + i) % n \in 0..(n - 1)
    BY <1>2, <2>1
  <2> QED BY <1>3, <2>2, <2>3 DEF Cell, Cells
<1>5. \A i \in 1..m_size : (Cell(i))' = Cell(i)
  BY <1>1 DEF Cell
<1>6. \A i \in 1..m_size : m_array'[Cell(i)] = m_array[Cell(i)]
  BY <1>1, <1>2, <1>4
<1>7. m_array'[back] = Log(t) /\ m_array' \in [Cells -> Lines \cup {NoLine}]
  BY <1>1, <1>2, <1>3
<1>8. RingSound'
  <2>1. back % n = back /\ back \in 0..(n - 1)
    BY <1>2, <1>3, SMTT(30) DEF Cells
  <2>2. (Cell(m_size))' = back
    BY <1>1, <1>3 DEF Cell
  <2>3. \A i \in 1..m_size' : (m_front' + i) % n = IF i = m_size + 1 THEN back ELSE Cell(i)
    BY <1>1, <1>2, <1>3 DEF Cell
  <2>4. \A i \in 1..m_size' : m_array'[(m_front' + i) % n] \in Lines
    <3> SUFFICES ASSUME NEW i \in 1..m_size' PROVE m_array'[(m_front' + i) % n] \in Lines
      OBVIOUS
    <3>1. CASE i = m_size + 1
      BY <2>3, <1>7, <3>1
    <3>2. CASE i # m_size + 1
      <4>1. i \in 1..m_size
        BY <1>1, <1>2, <3>2
      <4> QED BY <1>2, <1>6, <2>3, <3>2, <4>1
    <3> QED BY <3>1, <3>2
  <2> QED BY <1>1, <1>2, <1>7, <2>1, <2>2, <2>4 DEF RingSound, Cell
<1>9. Contents' = Append(Contents, Log(t))
  <2> DEFINE c == Contents
             d == Contents'
             x == Log(t)
  <2>1. c = [i \in 1..m_size |-> m_array[Cell(i)]]
    BY DEF Contents, Cell
  <2>2. d = [i \in 1..(m_size + 1) |-> m_array'[Cell(i)]]
    BY <1>1 DEF Contents, Cell
  <2>3. c \in Seq(Lines) /\ Len(c) = m_size
    <3> HIDE DEF c
    <3> QED BY <1>2, <2>1
  <2>4. \A i \in 1..m_size : d[i] = c[i]
    <3> HIDE DEF c, d
    <3> QED BY <1>2, <1>6, <2>1, <2>2
  <2>5. d[m_size + 1] = x /\ DOMAIN d = 1..(m_size + 1)
    <3> HIDE DEF c, d
    <3> QED BY <1>2, <1>3, <1>7, <2>2
  <2>6. d \in Seq(Lines) /\ Len(d) = m_size + 1
    <3>1. \A i \in 1..(m_size + 1) : m_array'[Cell(i)] \in Lines
      BY <1>2, <1>3, <1>6, <1>7
    <3> HIDE DEF c, d
    <3> QED BY <1>2, <2>2, <3>1
  <2> HIDE DEF c, d, x
  <2>7. d = Append(c, x)
    <3>1. x \in Lines
      BY DEF x
    <3> QED BY <1>2, <2>3, <2>4, <2>5, <2>6, <3>1
  <2> QED BY <2>7 DEF c, d, x
<1> QED BY <1>1, <1>8, <1>9

(* pop() takes the head of the queue the ring stands for. *)
LEMMA PopContents ==
    ASSUME RingSound, Pop
    PROVE  /\ RingSound' /\ Contents # <<>> /\ Contents' = Tail(Contents)
           /\ hand' = Head(Contents) /\ hand' \in Lines
<1> USE LogAssumption
<1> DEFINE n == m_max_size
           front == (m_front + 1) % n
           c == Contents
           d == Contents'
<1>1. /\ m_size > 0 /\ m_front' = front /\ hand' = m_array[front] /\ m_size' = m_size - 1
      /\ m_array' = m_array /\ m_back' = m_back
  BY DEF Pop
<1>2. /\ n \in Nat \ {0} /\ m_front \in Int /\ m_back \in Int /\ m_size \in 0..n
      /\ m_front \in -1..(n - 1) /\ m_back % n = Cell(m_size)
      /\ m_array \in [Cells -> Lines \cup {NoLine}]
      /\ \A i \in 1..m_size : m_array[Cell(i)] \in Lines
  BY DEF RingSound
<1>3. front = Cell(1) /\ front \in 0..(n - 1)
  BY <1>2 DEF Cell
<1>4. \A i \in Nat : (front + i) % n = Cell(i + 1)
  <2> SUFFICES ASSUME NEW i \in Nat PROVE (front + i) % n = Cell(i + 1)
    OBVIOUS
  <2>1. m_front + 1 \in Int /\ i \in Int /\ (m_front + 1) + i = m_front + (i + 1)
    BY <1>2
  <2>2. (((m_front + 1) % n) + i) % n = ((m_front + 1) + i) % n
    BY <1>2, <2>1, Shift
  <2> QED BY <2>1, <2>2 DEF Cell
<1> HIDE DEF front
<1>5. \A i \in 1..m_size' : (Cell(i))' = Cell(i + 1) /\ i + 1 \in 1..m_size
  BY <1>1, <1>2, <1>4 DEF Cell
<1>6. RingSound'
  <2>1. (Cell(m_size))' = Cell(m_size)
    BY <1>1, <1>2, <1>4 DEF Cell
  <2>2. \A i \in 1..m_size' : (m_array[Cell(i)])' \in Lines
    BY <1>1, <1>2, <1>5
  <2> QED BY <1>1, <1>2, <1>3, <2>1, <2>2 DEF RingSound
<1>7. c = [i \in 1..m_size |-> m_array[Cell(i)]]
  BY DEF Contents, Cell
<1>8. d = [i \in 1..m_size' |-> (m_array[Cell(i)])']
  BY DEF Contents, Cell
<1> HIDE DEF c, d
<1>9. c \in Seq(Lines) /\ Len(c) = m_size /\ c # <<>>
  BY <1>1, <1>2, <1>7
<1>10. d = [i \in 1..(m_size - 1) |-> c[i + 1]]
  <2>1. \A i \in 1..(m_size - 1) : (m_array[Cell(i)])' = c[i + 1]
    BY <1>1, <1>2, <1>5, <1>7
  <2> QED BY <1>1, <1>8, <2>1
<1>11. d = Tail(c)
  <2> DEFINE e == Tail(c)
  <2>1. /\ e \in Seq(Lines) /\ Len(e) = m_size - 1
        /\ \A i \in 1..(m_size - 1) : e[i] = c[i + 1]
    BY <1>2, <1>9
  <2>2. \A i \in 1..(m_size - 1) : c[i + 1] \in Lines
    BY <1>2, <1>9
  <2>3. /\ d \in Seq(Lines) /\ Len(d) = m_size - 1
        /\ \A i \in 1..(m_size - 1) : d[i] = c[i + 1]
    BY <1>1, <1>2, <1>10, <2>2
  <2> HIDE DEF e
  <2>4. d = e
    BY <2>1, <2>3
  <2> QED BY <2>4 DEF e
<1>12. hand' = Head(c) /\ hand' \in Lines
  <2>1. hand' = c[1] /\ c[1] \in Lines
    BY <1>1, <1>2, <1>3, <1>7, <1>9
  <2> QED BY <1>9, <2>1
<1> QED BY <1>6, <1>9, <1>11, <1>12 DEF c, d

Sound == RingSound /\ WritersSound /\ FilesSound

(* A thread inside write_log() has a line. *)
LEMMA LogIsLine ==
    ASSUME WritersSound, NEW t \in Threads, pc[t] # "idle"
    PROVE  Log(t) \in Lines
BY LogAssumption DEF WritersSound, Log, Lines

(* The last file stays the one of m_today. *)
LEMMA RotateSound ==
    ASSUME FilesSound, NEW d \in Days, Rotate(d), written' = written
    PROVE  FilesSound'
<1> USE LogAssumption
<1>1. m_count + 1 \in Nat /\ (m_count + 1) \div m_split_lines \in Nat /\ 0 \in Nat
  <2>1. m_count \in Nat
    BY DEF FilesSound
  <2>2. m_split_lines \in Nat \ {0}
    OBVIOUS
  <2>3. (m_count + 1) \div m_split_lines \in Nat
    BY <2>1, <2>2, NextPart
  <2> QED BY <2>1, <2>3
<1>2. \/ m_count' = 0 /\ m_today' = d /\ files' = Append(files, Opened(d, 0))
      \/ /\ m_count' = m_count + 1 /\ m_today' = m_today /\ m_today = d
         /\ \/ files' = Append(files, Opened(d, (m_count + 1) \div m_split_lines))
            \/ files' = files
  BY DEF Rotate
<1>3. ASSUME NEW part \in Nat, files' = Append(files, Opened(d, part)), m_today' = d,
             m_count' \in Nat
      PROVE  FilesSound'
  <2> DEFINE f == Opened(d, part)
             F == [day : Days, part : Nat]
  <2>1. f \in F /\ f.day = d
    BY DEF Opened
  <2> HIDE DEF f, F
  <2>2. files \in Seq(F)
    BY DEF FilesSound, F
  <2>3. /\ files' \in Seq(F) /\ files' # <<>> /\ files'[Len(files')] = f
    BY <1>3, <2>1, <2>2 DEF f
  <2> QED BY <1>3, <2>1, <2>3 DEF FilesSound, F
<1>4. CASE files' = files /\ m_today' = m_today /\ m_count' = m_count + 1
  BY <1>1, <1>4 DEF FilesSound
<1> QED BY <1>1, <1>2, <1>3, <1>4

(* Every step keeps the ring, the threads and the files as they should be. *)
LEMMA SoundInvariant == Spec => []Sound
<1> USE LogAssumption
<1>1. Init => Sound
  <2> SUFFICES ASSUME Init PROVE Sound
    OBVIOUS
  <2>1. RingSound
    BY NextIndex DEF Init, RingSound, Cell
  <2>2. WritersSound
    BY DEF Init, WritersSound, Days
  <2>3. FilesSound
    BY DEF Init, FilesSound, Days, Opened
  <2> QED BY <2>1, <2>2, <2>3 DEF Sound
<1>2. Sound /\ [Next]_vars => Sound'
  <2> SUFFICES ASSUME Sound, [Next]_vars PROVE Sound'
    OBVIOUS
  <2> USE DEF Sound
  <2>a. ASSUME UNCHANGED ring PROVE RingSound'
    BY <2>a DEF ring, RingSound, Cell
  <2>b. ASSUME UNCHANGED file PROVE FilesSound'
    BY <2>b DEF file, FilesSound
  <2>c. ASSUME NEW l \in Lines, Write(l), UNCHANGED <<m_count, m_today, files>>
        PROVE  FilesSound'
    <3>1. written' \in Seq(Lines)
      BY <2>c DEF FilesSound, Write
    <3> QED BY <2>c, <3>1 DEF FilesSound
  <2>1. CASE Midnight
    <3>1. WritersSound'
      BY <2>1 DEF Midnight, WritersSound, Days
    <3>2. UNCHANGED ring /\ UNCHANGED file
      BY <2>1 DEF Midnight
    <3> QED BY <2>a, <2>b, <3>1, <3>2
  <2>2. ASSUME NEW t \in Threads, Stamp(t) PROVE Sound'
    <3>1. WritersSound'
      BY <2>2 DEF Stamp, WritersSound
    <3>2. UNCHANGED ring /\ UNCHANGED file
      BY <2>2 DEF Stamp
    <3> QED BY <2>a, <2>b, <3>1, <3>2
  <2>3. ASSUME NEW t \in Threads, Count(t) PROVE Sound'
    <3>1. WritersSound'
      BY <2>3 DEF Count, WritersSound
    <3>2. FilesSound'
      <4>1. Rotate(stamp[t]) /\ written' = written /\ stamp[t] \in Days
        BY <2>3 DEF Count, WritersSound
      <4> QED BY <4>1, RotateSound
    <3>3. UNCHANGED ring
      BY <2>3 DEF Count
    <3> QED BY <2>a, <3>1, <3>2, <3>3
  <2>4. ASSUME NEW t \in Threads, Test(t) PROVE Sound'
    <3>1. WritersSound'
      BY <2>4 DEF Test, WritersSound
    <3>2. UNCHANGED ring /\ UNCHANGED file
      BY <2>4 DEF Test
    <3> QED BY <2>a, <2>b, <3>1, <3>2
  <2>5. ASSUME NEW t \in Threads, Direct(t) PROVE Sound'
    <3>1. WritersSound'
      BY <2>5 DEF Direct, WritersSound
    <3>2. FilesSound'
      BY <2>5, <2>c, LogIsLine DEF Direct
    <3>3. UNCHANGED ring
      BY <2>5 DEF Direct
    <3> QED BY <2>a, <3>1, <3>2, <3>3
  <2>6. ASSUME NEW t \in Threads, Push(t) PROVE Sound'
    <3>1. Log(t) \in Lines
      BY <2>6, LogIsLine DEF Push
    <3>2. WritersSound'
      <4>1. /\ pushed' = Append(pushed, Log(t)) /\ pc' = [pc EXCEPT ![t] = "idle"]
            /\ flusher' = IF flusher = "wait" THEN "pop" ELSE flusher
            /\ UNCHANGED <<line, stamp, hand, day, dropped>>
        BY <2>6 DEF Push, Broadcast
      <4>2. pushed' \in Seq(Lines)
        BY <3>1, <4>1 DEF WritersSound
      <4> QED BY <4>1, <4>2 DEF WritersSound
    <3>3. RingSound'
      BY <2>6, <3>1, PushContents
    <3>4. UNCHANGED file
      BY <2>6 DEF Push
    <3> QED BY <2>b, <3>2, <3>3, <3>4
  <2>7. ASSUME NEW t \in Threads, PushRefused(t) PROVE Sound'
    <3>1. Log(t) \in Lines
      BY <2>7, LogIsLine DEF PushRefused
    <3>2. WritersSound'
      BY <2>7, <3>1 DEF PushRefused, Broadcast, WritersSound
    <3>3. UNCHANGED ring /\ UNCHANGED file
      BY <2>7 DEF PushRefused
    <3> QED BY <2>a, <2>b, <3>2, <3>3
  <2>8. CASE PopWaits \/ SpuriousWakeup
    <3>1. WritersSound'
      BY <2>8 DEF PopWaits, SpuriousWakeup, WritersSound
    <3>2. UNCHANGED ring /\ UNCHANGED file
      BY <2>8 DEF PopWaits, SpuriousWakeup
    <3> QED BY <2>a, <2>b, <3>1, <3>2
  <2>9. CASE Pop
    <3>1. RingSound' /\ hand' \in Lines
      BY <2>9, PopContents
    <3>2. WritersSound'
      BY <2>9, <3>1, NoLineIsNone DEF Pop, WritersSound
    <3>3. UNCHANGED file
      BY <2>9 DEF Pop
    <3> QED BY <2>b, <3>1, <3>2, <3>3
  <2>10. CASE FlusherWrites
    <3>1. WritersSound'
      BY <2>10 DEF FlusherWrites, WritersSound
    <3>2. FilesSound'
      BY <2>10, <2>c DEF FlusherWrites, WritersSound
    <3>3. UNCHANGED ring
      BY <2>10 DEF FlusherWrites
    <3> QED BY <2>a, <3>1, <3>2, <3>3
  <2>11. CASE UNCHANGED vars
    <3>1. WritersSound'
      BY <2>11 DEF vars, WritersSound
    <3>2. UNCHANGED ring /\ UNCHANGED file
      BY <2>11 DEF vars, ring, file
    <3> QED BY <2>a, <2>b, <3>1, <3>2
  <2> QED BY <2>1, <2>2, <2>3, <2>4, <2>5, <2>6, <2>7, <2>8, <2>9, <2>10, <2>11
          DEF Next, write_log, async_write_log
<1> QED BY <1>1, <1>2, PTL DEF Spec

(* TypeOK of the model, for every value of the constants. *)
THEOREM TypeCorrect == Spec => []TypeOK
<1>1. Sound => TypeOK
  BY DEF Sound, RingSound, WritersSound, FilesSound, TypeOK
<1> QED BY <1>1, SoundInvariant, PTL

(* The ring is a bounded queue: whatever threads do between full(), push() *)
(* and pop(), a step appends a line to the queue it stands for, takes the  *)
(* first one off it, or leaves it alone.                                   *)
THEOREM QueueRefinement == Spec => ImplementsQueue
<1> USE LogAssumption
<1>1. Init => Queue!Init
  <2> SUFFICES ASSUME Init PROVE Contents = <<>>
    BY DEF Queue!Init
  <2> QED BY DEF Init, Contents
<1>2. Sound /\ [Next]_vars => [Queue!Next]_Contents
  <2> SUFFICES ASSUME Sound, [Next]_vars, Contents' # Contents PROVE Queue!Next
    OBVIOUS
  <2>1. CASE UNCHANGED ring
    BY <2>1 DEF ring, Contents
  <2>2. ASSUME NEW t \in Threads, Push(t) PROVE Queue!Next
    <3>1. Log(t) \in Lines
      BY <2>2, LogIsLine DEF Push, Sound
    <3>2. Contents' = Append(Contents, Log(t)) /\ m_size < m_max_size
      BY <2>2, <3>1, PushContents DEF Sound
    <3>3. Len(Contents) = m_size
      BY DEF Contents, Sound, RingSound
    <3> QED BY <3>1, <3>2, <3>3 DEF Queue!Next, Queue!Put
  <2>3. CASE Pop
    BY <2>3, PopContents DEF Sound, Queue!Next, Queue!Get
  <2>4. ASSUME NEW t \in Threads,
               Stamp(t) \/ Count(t) \/ Test(t) \/ Direct(t) \/ PushRefused(t)
        PROVE  UNCHANGED ring
    BY <2>4 DEF Stamp, Count, Test, Direct, PushRefused
  <2>5. CASE Midnight \/ SpuriousWakeup \/ PopWaits \/ FlusherWrites \/ UNCHANGED vars
    BY <2>1, <2>5 DEF Midnight, SpuriousWakeup, PopWaits, FlusherWrites, vars, ring
  <2> QED BY <2>1, <2>2, <2>3, <2>4, <2>5 DEF Next, write_log, async_write_log
<1> QED BY <1>1, <1>2, SoundInvariant, PTL DEF Spec, ImplementsQueue, Queue!Spec

-----------------------------------------------------------------------------
(* Sequences that do not repeat an element. *)
LEMMA AppendedOnce ==
    ASSUME NEW S, NEW s \in Seq(S), NEW x \in S
    PROVE  /\ ToSet(Append(s, x)) = ToSet(s) \cup {x}
           /\ IsInjective(s) /\ x \notin ToSet(s) => IsInjective(Append(s, x))
<1> DEFINE a == Append(s, x)
           n == Len(s)
<1>1. /\ DOMAIN s = 1..n /\ DOMAIN a = 1..(n + 1) /\ n \in Nat
      /\ \A i \in 1..n : a[i] = s[i]
      /\ a[n + 1] = x
  OBVIOUS
<1> HIDE DEF a, n
<1>2. ToSet(a) = ToSet(s) \cup {x}
  <2>1. ToSet(s) = {s[i] : i \in 1..n} /\ ToSet(a) = {a[i] : i \in 1..(n + 1)}
    BY <1>1 DEF ToSet
  <2>2. \A i \in 1..(n + 1) : i \in 1..n \/ i = n + 1
    BY <1>1
  <2>3. \A i \in 1..n : i \in 1..(n + 1)
    BY <1>1
  <2>4. n + 1 \in 1..(n + 1)
    BY <1>1
  <2> QED BY <1>1, <2>1, <2>2, <2>3, <2>4
<1>3. ASSUME IsInjective(s), x \notin ToSet(s) PROVE IsInjective(a)
  <2>1. \A i \in 1..n : s[i] # x
    BY <1>1, <1>3 DEF ToSet
  <2>2. \A i, j \in 1..n : s[i] = s[j] => i = j
    BY <1>1, <1>3 DEF IsInjective
  <2>3. \A i \in 1..(n + 1) : i \in 1..n \/ i = n + 1
    BY <1>1
  <2>4. ASSUME NEW i \in 1..(n + 1), NEW j \in 1..(n + 1), a[i] = a[j] PROVE i = j
    BY <1>1, <2>1, <2>2, <2>3, <2>4
  <2> QED BY <1>1, <2>4 DEF IsInjective
<1> QED BY <1>2, <1>3 DEF a

(* The first element of one is not among the others. *)
LEMMA TakenOnce ==
    ASSUME NEW S, NEW s \in Seq(S), s # <<>>
    PROVE  /\ ToSet(s) = {Head(s)} \cup ToSet(Tail(s))
           /\ IsInjective(s) => Head(s) \notin ToSet(Tail(s)) /\ IsInjective(Tail(s))
<1> DEFINE t == Tail(s)
           x == Head(s)
           n == Len(t)
<1>1. /\ DOMAIN s = 1..(n + 1) /\ DOMAIN t = 1..n /\ n \in Nat
      /\ \A i \in 1..n : t[i] = s[i + 1]
      /\ s[1] = x
  OBVIOUS
<1> HIDE DEF t, x, n
<1>2. \A i \in 1..(n + 1) : i = 1 \/ (i - 1 \in 1..n /\ (i - 1) + 1 = i)
  BY <1>1
<1>3. 1 \in 1..(n + 1) /\ \A i \in 1..n : i + 1 \in 1..(n + 1) /\ i + 1 # 1
  BY <1>1
<1>4. ToSet(s) = {x} \cup ToSet(t)
  <2>1. ToSet(s) = {s[i] : i \in 1..(n + 1)} /\ ToSet(t) = {t[i] : i \in 1..n}
    BY <1>1 DEF ToSet
  <2> QED BY <1>1, <1>2, <1>3, <2>1, SMTT(30)
<1>5. ASSUME IsInjective(s) PROVE x \notin ToSet(t) /\ IsInjective(t)
  <2>1. \A i, j \in 1..(n + 1) : s[i] = s[j] => i = j
    BY <1>1, <1>5 DEF IsInjective
  <2>2. \A i \in 1..n : t[i] # x
    BY <1>1, <1>3, <2>1
  <2>3. ASSUME NEW i \in 1..n, NEW j \in 1..n, t[i] = t[j] PROVE i = j
    <3>1. i + 1 = j + 1
      BY <1>1, <1>3, <2>1, <2>3
    <3> QED BY <3>1
  <2> QED BY <1>1, <2>2, <2>3 DEF ToSet, IsInjective
<1> QED BY <1>4, <1>5 DEF t, x

(* Two of them that share nothing, one after the other. *)
LEMMA JoinedOnce ==
    ASSUME NEW S, NEW s \in Seq(S), NEW t \in Seq(S)
    PROVE  /\ ToSet(s \o t) = ToSet(s) \cup ToSet(t)
           /\ IsInjective(s) /\ IsInjective(t) /\ ToSet(s) \cap ToSet(t) = {}
                 => IsInjective(s \o t)
<1> DEFINE a == s \o t
           n == Len(s)
           m == Len(t)
<1>1. /\ DOMAIN s = 1..n /\ DOMAIN t = 1..m /\ DOMAIN a = 1..(n + m)
      /\ n \in Nat /\ m \in Nat
      /\ \A i \in 1..n : a[i] = s[i]
      /\ \A i \in (n + 1)..(n + m) : a[i] = t[i - n]
  OBVIOUS
<1> HIDE DEF a, n, m
<1>2. \A i \in 1..(n + m) :
         \/ i \in 1..n /\ a[i] = s[i]
         \/ i \in (n + 1)..(n + m) /\ i - n \in 1..m /\ a[i] = t[i - n]
  BY <1>1
<1>3. /\ \A i \in 1..n : i \in 1..(n + m) /\ a[i] = s[i]
      /\ \A i \in 1..m : i + n \in 1..(n + m) /\ a[i + n] = t[i]
  <2>1. \A i \in 1..m : i + n \in (n + 1)..(n + m) /\ (i + n) - n = i
    BY <1>1
  <2>2. \A i \in 1..m : a[i + n] = t[i]
    <3> SUFFICES ASSUME NEW i \in 1..m PROVE a[i + n] = t[i]
      OBVIOUS
    <3>1. a[i + n] = t[(i + n) - n]
      BY <1>1, <2>1
    <3> QED BY <2>1, <3>1
  <2> QED BY <1>1, <2>1, <2>2
<1>4. ToSet(a) = ToSet(s) \cup ToSet(t)
  <2>1. /\ ToSet(s) = {s[i] : i \in 1..n} /\ ToSet(t) = {t[i] : i \in 1..m}
        /\ ToSet(a) = {a[i] : i \in 1..(n + m)}
    BY <1>1 DEF ToSet
  <2> QED BY <1>2, <1>3, <2>1
<1>5. ASSUME IsInjective(s), IsInjective(t), ToSet(s) \cap ToSet(t) = {}
      PROVE  IsInjective(a)
  <2>1. /\ \A i, j \in 1..n : s[i] = s[j] => i = j
        /\ \A i, j \in 1..m : t[i] = t[j] => i = j
        /\ \A i \in 1..n : \A j \in 1..m : s[i] # t[j]
    <3>1. /\ \A i, j \in 1..n : s[i] = s[j] => i = j
          /\ \A i, j \in 1..m : t[i] = t[j] => i = j
      BY <1>1, <1>5 DEF IsInjective
    <3>2. \A i \in 1..n : \A j \in 1..m : s[i] \in ToSet(s) /\ t[j] \in ToSet(t)
      BY <1>1 DEF ToSet
    <3>3. \A i \in 1..n : \A j \in 1..m : s[i] # t[j]
      BY <1>5, <3>2, Zenon
    <3> QED BY <3>1, <3>3
  <2>2. ASSUME NEW i \in 1..(n + m), NEW j \in 1..(n + m), a[i] = a[j] PROVE i = j
    <3>1. CASE i \in 1..n /\ j \in 1..n
      <4>1. a[i] = s[i] /\ a[j] = s[j]
        BY <1>3, <3>1
      <4> QED BY <2>1, <2>2, <3>1, <4>1
    <3>2. CASE i \notin 1..n /\ j \notin 1..n
      <4>1. /\ i - n \in 1..m /\ a[i] = t[i - n]
            /\ j - n \in 1..m /\ a[j] = t[j - n]
        BY <1>2, <3>2
      <4>2. i - n = j - n
        BY <2>1, <2>2, <4>1
      <4> QED BY <1>1, <4>2
    <3>3. CASE i \in 1..n /\ j \notin 1..n
      <4>1. a[i] = s[i] /\ j - n \in 1..m /\ a[j] = t[j - n]
        BY <1>2, <1>3, <3>3
      <4> QED BY <2>1, <2>2, <3>3, <4>1
    <3>4. CASE i \notin 1..n /\ j \in 1..n
      <4>1. a[j] = s[j] /\ i - n \in 1..m /\ a[i] = t[i - n]
        BY <1>2, <1>3, <3>4
      <4> QED BY <2>1, <2>2, <3>4, <4>1
    <3> QED BY <3>1, <3>2, <3>3, <3>4
  <2> QED BY <1>1, <2>2 DEF IsInjective
<1> QED BY <1>4, <1>5 DEF a

-----------------------------------------------------------------------------
(* Where the lines are: in the files, with the flusher, in the ring; and   *)
(* which there should be, those of write_log()s that returned.             *)
Carried == IF hand = NoLine THEN {} ELSE {hand}

Held == ToSet(written) \cup Carried \cup ToSet(Contents)

Returned == {l \in Lines : l[2] <= line[l[1]]}
              \ {Log(t) : t \in {u \in Threads : pc[u] # "idle"}}

Accounted ==
    /\ IsInjective(written) /\ IsInjective(Contents)
    /\ ToSet(written) \cap ToSet(Contents) = {}
    /\ hand \notin ToSet(written) /\ hand \notin ToSet(Contents)
    /\ Held \cap dropped = {}
    /\ Held \cup dropped = Returned

(* What the ring holds is a sequence of lines. *)
LEMMA ContentsType ==
    ASSUME RingSound
    PROVE  Contents \in Seq(Lines) /\ Len(Contents) = m_size
<1>1. m_size \in Nat /\ \A i \in 1..m_size : m_array[Cell(i)] \in Lines
  BY LogAssumption DEF RingSound
<1>2. Contents = [i \in 1..m_size |-> m_array[Cell(i)]]
  BY DEF Contents, Cell
<1> QED BY <1>1, <1>2

(* The line of a write_log() is new when it returns. *)
LEMMA ReturnsOnce ==
    ASSUME WritersSound, NEW t \in Threads, pc[t] # "idle",
           pc' = [pc EXCEPT ![t] = "idle"], line' = line
    PROVE  Log(t) \in Lines /\ Log(t) \notin Returned /\ Returned' = Returned \cup {Log(t)}
<1>1. Log(t) \in Lines
  BY LogIsLine
<1>2. Log(t) \notin Returned
  BY DEF Returned
<1> DEFINE begun == {l \in Lines : l[2] <= line[l[1]]}
           busy == {u \in Threads : pc[u] # "idle"}
<1>3. Log(t) \in begun
  <2>1. Log(t)[1] = t /\ Log(t)[2] = line[t]
    BY DEF Log
  <2>2. line[t] \in Nat
    BY LogAssumption DEF WritersSound
  <2> QED BY <1>1, <2>1, <2>2
<1>4. busy' = busy \ {t} /\ t \in busy
  BY DEF WritersSound
<1>5. \A u \in Threads : u # t => Log(u) # Log(t)
  BY DEF Log
<1>6. \A u \in Threads : (Log(u))' = Log(u)
  BY DEF Log
<1>7. Returned = begun \ {Log(u) : u \in busy} /\ Returned' = begun \ {Log(u) : u \in busy'}
  BY <1>6 DEF Returned
<1>8. \A u \in busy : u \in Threads
  OBVIOUS
<1> HIDE DEF begun, busy
<1>9. {Log(u) : u \in busy} = {Log(u) : u \in busy'} \cup {Log(t)}
  BY <1>4
<1>10. Log(t) \notin {Log(u) : u \in busy'}
  BY <1>4, <1>5, <1>8
<1> QED BY <1>1, <1>2, <1>3, <1>7, <1>9, <1>10

(* A write_log() that begins or goes on returns nothing. *)
LEMMA ReturnsLater ==
    ASSUME WritersSound, NEW t \in Threads, NEW to, to # "idle",
           pc' = [pc EXCEPT ![t] = to],
           \/ pc[t] # "idle" /\ line' = line
           \/ pc[t] = "idle" /\ line' = [line EXCEPT ![t] = @ + 1]
    PROVE  Returned' = Returned
<1> DEFINE begun == {l \in Lines : l[2] <= line[l[1]]}
           busy == {u \in Threads : pc[u] # "idle"}
<1>1. CASE pc[t] # "idle" /\ line' = line
  <2>1. busy' = busy
    BY <1>1 DEF WritersSound
  <2>2. \A u \in Threads : (Log(u))' = Log(u)
    BY <1>1 DEF Log
  <2>3. Returned = begun \ {Log(u) : u \in busy} /\ Returned' = begun \ {Log(u) : u \in busy'}
    BY <1>1, <2>2 DEF Returned
  <2> HIDE DEF begun, busy
  <2> QED BY <2>1, <2>3
<1>2. CASE pc[t] = "idle" /\ line' = [line EXCEPT ![t] = @ + 1]
  <2>1. busy' = busy \cup {t} /\ t \notin busy
    BY <1>2 DEF WritersSound
  <2>2. line[t] \in Nat /\ line'[t] = line[t] + 1
    BY <1>2, LogAssumption DEF WritersSound
  <2>3. \A u \in Threads : u # t => line'[u] = line[u]
    BY <1>2 DEF WritersSound
  <2>4. \A u \in busy : u # t /\ u \in Threads
    BY <2>1
  <2> DEFINE new == <<t, line[t] + 1>>
  <2>5. \A u \in busy : (Log(u))' = Log(u)
    BY <2>3, <2>4 DEF Log
  <2>6. (Log(t))' = new
    BY <2>2 DEF Log
  <2>7. begun' = begun \cup ({new} \cap Lines) /\ new \notin begun
    <3>1. \A l \in Lines : l \in begun' <=> l \in begun \/ l = new
      <4> SUFFICES ASSUME NEW l \in Lines PROVE l \in begun' <=> l \in begun \/ l = new
        OBVIOUS
      <4>1. l = <<l[1], l[2]>> /\ l[1] \in Threads /\ l[2] \in Nat
        BY LogAssumption DEF Lines
      <4>2. CASE l[1] # t
        BY <2>3, <4>1, <4>2
      <4>3. CASE l[1] = t
        <5>1. l[2] <= line[t] + 1 <=> l[2] <= line[t] \/ l[2] = line[t] + 1
          BY <2>2, <4>1
        <5>2. l = new <=> l[2] = line[t] + 1
          BY <4>1, <4>3
        <5> QED BY <2>2, <4>3, <5>1, <5>2
      <4> QED BY <4>2, <4>3
    <3>2. new \notin begun
      BY <2>2
    <3>3. begun \subseteq Lines /\ begun' \subseteq Lines
      OBVIOUS
    <3> HIDE DEF begun, new
    <3> QED BY <3>1, <3>2, <3>3
  <2>8. /\ Returned = begun \ {Log(u) : u \in busy}
        /\ Returned' = begun' \ {(Log(u))' : u \in busy'}
    BY DEF Returned
  <2>9. {(Log(u))' : u \in busy'} = {Log(u) : u \in busy} \cup {new}
    <3> HIDE DEF busy, new
    <3> QED BY <2>1, <2>5, <2>6
  <2> HIDE DEF begun, busy, new
  <2> QED BY <2>7, <2>8, <2>9
<1> QED BY <1>1, <1>2

(* Each step moves at most one line, to where it was not. *)
LEMMA AccountedInvariant == Spec => []Accounted
<1> USE LogAssumption
<1>1. Init => Accounted
  <2> SUFFICES ASSUME Init PROVE Accounted
    OBVIOUS
  <2>1. /\ written = <<>> /\ m_size = 0 /\ hand = NoLine /\ dropped = {}
        /\ line = [t \in Threads |-> 0] /\ pc = [t \in Threads |-> "idle"]
    BY DEF Init
  <2>2. Contents = <<>>
    BY <2>1 DEF Contents
  <2>3. ToSet(<<>>) = {} /\ IsInjective(<<>>)
    BY DEF ToSet, IsInjective
  <2>4. Held = {}
    BY <2>1, <2>2, <2>3 DEF Held, Carried
  <2>5. Returned = {}
    <3>1. \A l \in Lines : l[1] \in Threads /\ l[2] \in 1..MaxLines
      BY DEF Lines
    <3>2. \A l \in Lines : ~(l[2] <= line[l[1]])
      BY <2>1, <3>1
    <3> QED BY <3>2 DEF Returned
  <2> QED BY <2>1, <2>2, <2>3, <2>4, <2>5 DEF Accounted
<1>2. Sound /\ Accounted /\ [Next]_vars => Accounted'
  <2> SUFFICES ASSUME Sound, Accounted, [Next]_vars PROVE Accounted'
    OBVIOUS
  <2> USE DEF Sound
  <2>a. Contents \in Seq(Lines) /\ written \in Seq(Lines) /\ hand \in Lines \cup {NoLine}
    BY ContentsType DEF FilesSound, WritersSound
  <2>b. ASSUME UNCHANGED <<ring, written, hand, dropped>>, Returned' = Returned
        PROVE  Accounted'
    <3>1. Contents' = Contents
      BY <2>b DEF ring, Contents
    <3> QED BY <2>b, <3>1 DEF Accounted, Held, Carried
  <2>c. ASSUME UNCHANGED <<pc, line>> PROVE Returned' = Returned
    BY <2>c DEF Returned, Log
  \* A line that is nowhere yet is put into the files.
  <2>1. ASSUME NEW t \in Threads, Direct(t) PROVE Accounted'
    <3> DEFINE x == Log(t)
    <3>1. /\ x \in Lines /\ x \notin Returned /\ Returned' = Returned \cup {x}
      BY <2>1, ReturnsOnce DEF Direct
    <3>2. written' = Append(written, x) /\ UNCHANGED <<ring, hand, dropped>>
      BY <2>1 DEF Direct, Write
    <3>3. Contents' = Contents /\ Carried' = Carried
      BY <3>2 DEF ring, Contents, Carried
    <3> HIDE DEF x
    <3>4. x \notin Held /\ x \notin dropped
      BY <3>1 DEF Accounted
    <3>5. ToSet(written') = ToSet(written) \cup {x} /\ IsInjective(written')
      BY <2>a, <3>1, <3>2, <3>4, AppendedOnce DEF Accounted, Held
    <3>6. hand # x
      BY <3>1, <3>4, NoLineIsNone DEF Held, Carried
    <3>7. Held' = Held \cup {x}
      BY <3>3, <3>5 DEF Held
    <3> QED BY <3>1, <3>2, <3>3, <3>4, <3>5, <3>6, <3>7 DEF Accounted, Held
  \* The same with the ring.
  <2>2. ASSUME NEW t \in Threads, Push(t) PROVE Accounted'
    <3> DEFINE x == Log(t)
    <3>1. /\ x \in Lines /\ x \notin Returned /\ Returned' = Returned \cup {x}
      BY <2>2, ReturnsOnce DEF Push
    <3>2. UNCHANGED <<written, hand, dropped>>
      BY <2>2 DEF Push, file
    <3>3. Contents' = Append(Contents, x) /\ Carried' = Carried
      BY <2>2, <3>1, <3>2, PushContents DEF Carried
    <3> HIDE DEF x
    <3>4. x \notin Held /\ x \notin dropped
      BY <3>1 DEF Accounted
    <3>5. ToSet(Contents') = ToSet(Contents) \cup {x} /\ IsInjective(Contents')
      BY <2>a, <3>1, <3>3, <3>4, AppendedOnce DEF Accounted, Held
    <3>6. hand # x
      BY <3>1, <3>4, NoLineIsNone DEF Held, Carried
    <3>7. Held' = Held \cup {x}
      BY <3>2, <3>3, <3>5 DEF Held
    <3> QED BY <3>1, <3>2, <3>3, <3>4, <3>5, <3>6, <3>7 DEF Accounted, Held
  \* Or it is refused.
  <2>3. ASSUME NEW t \in Threads, PushRefused(t) PROVE Accounted'
    <3> DEFINE x == Log(t)
    <3>1. /\ x \in Lines /\ x \notin Returned /\ Returned' = Returned \cup {x}
      BY <2>3, ReturnsOnce DEF PushRefused
    <3>2. UNCHANGED <<ring, written, hand>> /\ dropped' = dropped \cup {x}
      BY <2>3 DEF PushRefused, file
    <3>3. Contents' = Contents /\ Carried' = Carried
      BY <3>2 DEF ring, Contents, Carried
    <3> HIDE DEF x
    <3>4. x \notin Held
      BY <3>1 DEF Accounted
    <3>5. Held' = Held
      BY <3>2, <3>3 DEF Held
    <3> QED BY <3>1, <3>2, <3>3, <3>4, <3>5 DEF Accounted
  \* The flusher takes a line from the ring, and puts it into the files.
  <2>4. CASE Pop
    <3>1. /\ Contents # <<>> /\ Contents' = Tail(Contents) /\ hand' = Head(Contents)
          /\ hand' \in Lines
      BY <2>4, PopContents
    <3>2. UNCHANGED <<written, dropped, pc, line>> /\ hand = NoLine
      BY <2>4 DEF Pop, file, WritersSound
    <3>3. /\ ToSet(Contents) = {hand'} \cup ToSet(Contents')
          /\ hand' \notin ToSet(Contents') /\ IsInjective(Contents')
      BY <2>a, <3>1, TakenOnce DEF Accounted
    <3>4. Carried = {} /\ Carried' = {hand'}
      BY <3>1, <3>2, NoLineIsNone DEF Carried
    <3>5. Held' = Held
      BY <3>2, <3>3, <3>4 DEF Held
    <3> QED BY <2>c, <3>2, <3>3, <3>5 DEF Accounted
  <2>5. CASE FlusherWrites
    <3>1. /\ written' = Append(written, hand) /\ hand' = NoLine
          /\ UNCHANGED <<ring, dropped, pc, line>> /\ hand \in Lines
      BY <2>5 DEF FlusherWrites, Write, WritersSound
    <3>2. Contents' = Contents /\ Carried = {hand} /\ Carried' = {}
      BY <3>1, NoLineIsNone DEF ring, Contents, Carried
    <3>3. ToSet(written') = ToSet(written) \cup {hand} /\ IsInjective(written')
      BY <2>a, <3>1, AppendedOnce DEF Accounted
    <3>4. Held' = Held
      BY <3>2, <3>3 DEF Held
    <3>5. hand' \notin ToSet(written') /\ hand' \notin ToSet(Contents')
      <4>1. ToSet(written) \subseteq Lines /\ ToSet(Contents) \subseteq Lines
        BY <2>a DEF ToSet
      <4> QED BY <3>1, <3>2, <3>3, <4>1, NoLineIsNone
    <3> QED BY <2>c, <3>1, <3>2, <3>3, <3>4, <3>5 DEF Accounted
  <2>6. ASSUME NEW t \in Threads, Stamp(t) \/ Count(t) \/ Test(t) PROVE Accounted'
    <3>1. UNCHANGED <<ring, written, hand, dropped>>
      BY <2>6 DEF Stamp, Count, Test, file
    <3>2. PICK to \in {"count", "test", "direct", "push"} :
             /\ pc' = [pc EXCEPT ![t] = to]
             /\ \/ pc[t] # "idle" /\ line' = line
                \/ pc[t] = "idle" /\ line' = [line EXCEPT ![t] = @ + 1]
      BY <2>6 DEF Stamp, Count, Test
    <3>3. Returned' = Returned
      <4>1. to # "idle"
        OBVIOUS
      <4> QED BY <3>2, <4>1, ReturnsLater
    <3> QED BY <2>b, <3>1, <3>3
  <2>7. CASE Midnight \/ SpuriousWakeup \/ PopWaits \/ UNCHANGED vars
    <3>1. UNCHANGED <<ring, written, hand, dropped, pc, line>>
      BY <2>7 DEF Midnight, SpuriousWakeup, PopWaits, vars, file, ring
    <3> QED BY <2>b, <2>c, <3>1
  <2> QED BY <2>1, <2>2, <2>3, <2>4, <2>5, <2>6, <2>7 DEF Next, write_log, async_write_log
<1> QED BY <1>1, <1>2, SoundInvariant, PTL DEF Spec

(* LinesAccounted: the line of every write_log() that returned is in the   *)
(* files once, or on its way there, or was refused by a full queue.        *)
THEOREM LinesCorrect == Spec => []LinesAccounted
<1>1. ASSUME Sound, Accounted PROVE LinesAccounted
  <2> DEFINE w == written
             c == Contents
             wh == w \o InHand
             held == wh \o c
  <2>1. /\ w \in Seq(Lines) /\ c \in Seq(Lines)
        /\ InHand \in Seq(Lines) /\ ToSet(InHand) = Carried /\ IsInjective(InHand)
    <3>1. w \in Seq(Lines) /\ c \in Seq(Lines) /\ hand \in Lines \cup {NoLine}
      BY <1>1, ContentsType DEF Sound, FilesSound, WritersSound
    <3>2. CASE hand = NoLine
      BY <3>1, <3>2 DEF InHand, ToSet, IsInjective, Carried
    <3>3. CASE hand # NoLine
      BY <3>1, <3>3 DEF InHand, ToSet, IsInjective, Carried
    <3> QED BY <3>1, <3>2, <3>3
  <2>2. /\ IsInjective(w) /\ IsInjective(c) /\ ToSet(w) \cap ToSet(c) = {}
        /\ Carried \cap ToSet(w) = {} /\ Carried \cap ToSet(c) = {}
        /\ Held = ToSet(w) \cup Carried \cup ToSet(c)
    BY <1>1 DEF Accounted, Held, Carried
  <2>3. /\ wh \in Seq(Lines) /\ ToSet(wh) = ToSet(w) \cup Carried /\ IsInjective(wh)
    <3> HIDE DEF w, c
    <3> QED BY <2>1, <2>2, JoinedOnce
  <2>4. ToSet(held) = Held /\ IsInjective(held)
    <3> HIDE DEF w, c, wh
    <3>1. ToSet(held) = ToSet(wh) \cup ToSet(c)
      BY <2>1, <2>3, JoinedOnce
    <3>2. ToSet(wh) \cap ToSet(c) = {}
      BY <2>2, <2>3
    <3>3. IsInjective(held)
      BY <2>1, <2>2, <2>3, <3>2, JoinedOnce
    <3> QED BY <2>2, <2>3, <3>1, <3>3
  <2> HIDE DEF held
  <2>5. /\ IsInjective(held) /\ ToSet(held) \cap dropped = {}
        /\ ToSet(held) \cup dropped = Returned
    BY <1>1, <2>4 DEF Accounted
  <2> QED BY <2>5 DEF LinesAccounted, Returned, held
<1> QED BY <1>1, SoundInvariant, AccountedInvariant, PTL

-----------------------------------------------------------------------------
(* The queue against its history: the lines pushed are first those in the  *)
(* files, in the order they were pushed, then the flusher's, then the      *)
(* ring's.                                                                 *)
InHandCount == IF hand = NoLine THEN 0 ELSE 1

Gone == Len(pushed) - m_size - InHandCount

Ordered ==
    /\ Gone >= 0
    /\ hand # NoLine => pushed[Gone + 1] = hand
    /\ \A i \in 1..m_size : Contents[i] = pushed[Gone + InHandCount + i]
    /\ \A i \in 1..Gone : \E a \in 1..Len(written) : written[a] = pushed[i]
    /\ \A i, j \in 1..Gone : \A a, b \in 1..Len(written) :
          i < j /\ written[a] = pushed[i] /\ written[b] = pushed[j] => a < b

(* A line that was pushed is held, and so is not one still to be written.  *)
LEMMA PushedIsHeld ==
    ASSUME Sound, Ordered, NEW k \in 1..Len(pushed)
    PROVE  pushed[k] \in Held
<1>1. /\ m_size \in Nat /\ pushed \in Seq(Lines) /\ Len(pushed) \in Nat
      /\ Contents \in Seq(Lines) /\ Len(Contents) = m_size /\ written \in Seq(Lines)
      /\ DOMAIN Contents = 1..m_size /\ DOMAIN written = 1..Len(written)
  <2>1. Contents \in Seq(Lines) /\ Len(Contents) = m_size
    BY ContentsType DEF Sound
  <2> QED BY <2>1, LogAssumption DEF Sound, RingSound, WritersSound, FilesSound
<1>2. CASE k \in 1..Gone
  <2>1. PICK a \in 1..Len(written) : written[a] = pushed[k]
    BY <1>2 DEF Ordered
  <2>2. pushed[k] \in ToSet(written)
    BY <1>1, <2>1 DEF ToSet
  <2> QED BY <2>2 DEF Held
<1>3. CASE hand # NoLine /\ k = Gone + 1
  <2>1. pushed[k] = hand
    BY <1>3 DEF Ordered
  <2> QED BY <1>3, <2>1 DEF Held, Carried
<1>4. CASE k \in (Gone + InHandCount + 1)..Len(pushed)
  <2> DEFINE i == k - (Gone + InHandCount)
  <2>1. i \in 1..m_size /\ Gone + InHandCount + i = k
    BY <1>1, <1>4 DEF Gone, InHandCount
  <2> HIDE DEF i
  <2>2. Contents[i] = pushed[k]
    BY <2>1 DEF Ordered
  <2>3. pushed[k] \in ToSet(Contents)
    BY <1>1, <2>1, <2>2 DEF ToSet
  <2> QED BY <2>3 DEF Held
<1>5. Gone \in Int /\ InHandCount \in {0, 1} /\ (InHandCount = 0 <=> hand = NoLine)
  BY <1>1 DEF Gone, InHandCount
<1>6. k \in 1..Gone \/ k = Gone + 1 \/ k \in (Gone + 2)..Len(pushed)
  BY <1>1, <1>5
<1>7. CASE hand = NoLine
  BY <1>1, <1>2, <1>4, <1>5, <1>6, <1>7
<1>8. CASE hand # NoLine
  BY <1>1, <1>2, <1>3, <1>4, <1>5, <1>6, <1>8
<1> QED BY <1>7, <1>8

(* The flusher's line is written after all that were pushed before it, and *)
(* a line that was not pushed moves none of them.                          *)
LEMMA OrderedInvariant == Spec => []Ordered
<1> USE LogAssumption
<1>1. Init => Ordered
  BY DEF Init, Ordered, Gone, InHandCount
<1>2. Sound /\ Accounted /\ Ordered /\ [Next]_vars => Ordered'
  <2> SUFFICES ASSUME Sound, Accounted, Ordered, [Next]_vars PROVE Ordered'
    OBVIOUS
  <2>a. /\ m_size \in Nat /\ pushed \in Seq(Lines) /\ written \in Seq(Lines)
        /\ Len(pushed) \in Nat /\ Len(written) \in Nat
        /\ Contents \in Seq(Lines) /\ Len(Contents) = m_size
        /\ Gone \in Int /\ InHandCount \in {0, 1}
        /\ Gone = Len(pushed) - m_size - InHandCount
    <3>1. Contents \in Seq(Lines) /\ Len(Contents) = m_size
      BY ContentsType DEF Sound
    <3> QED BY <3>1 DEF Sound, RingSound, WritersSound, FilesSound, Gone, InHandCount
  <2>b. ASSUME UNCHANGED <<ring, written, hand, pushed>> PROVE Ordered'
    <3>1. Contents' = Contents /\ Gone' = Gone /\ InHandCount' = InHandCount
      BY <2>b DEF ring, Contents, Gone, InHandCount
    <3> QED BY <2>b, <3>1 DEF Ordered, ring
  <2>1. ASSUME NEW t \in Threads, Direct(t) PROVE Ordered'
    <3> DEFINE x == Log(t)
    <3>1. x \in Lines /\ x \notin Returned
      BY <2>1, ReturnsOnce DEF Direct, Sound
    <3>2. \A i \in 1..Len(pushed) : pushed[i] # x
      <4>1. x \notin Held
        BY <3>1 DEF Accounted
      <4> HIDE DEF x
      <4> QED BY <4>1, PushedIsHeld
    <3>3. written' = Append(written, x) /\ UNCHANGED <<ring, hand, pushed>>
      BY <2>1 DEF Direct, Write
    <3>4. Contents' = Contents /\ Gone' = Gone /\ InHandCount' = InHandCount /\ m_size' = m_size
      BY <3>3 DEF ring, Contents, Gone, InHandCount
    <3> HIDE DEF x
    <3>5. /\ Len(written') = Len(written) + 1
          /\ \A a \in 1..Len(written) : written'[a] = written[a]
          /\ written'[Len(written) + 1] = x
      BY <2>a, <3>1, <3>3
    <3>6. \A i \in 1..Gone : i \in 1..Len(pushed)
      BY <2>a
    <3>7. \A i \in 1..Gone : \A a \in 1..Len(written') :
             written'[a] = pushed[i] => a \in 1..Len(written) /\ written[a] = pushed[i]
      BY <2>a, <3>2, <3>5, <3>6
    <3>8. \A i \in 1..Gone : \E a \in 1..Len(written') : written'[a] = pushed[i]
      <4>1. \A a \in 1..Len(written) : a \in 1..Len(written')
        BY <2>a, <3>5
      <4> QED BY <3>5, <4>1 DEF Ordered
    <3>9. \A i, j \in 1..Gone : \A a, b \in 1..Len(written') :
             i < j /\ written'[a] = pushed[i] /\ written'[b] = pushed[j] => a < b
      BY <3>7 DEF Ordered
    <3> QED BY <3>3, <3>4, <3>8, <3>9 DEF Ordered
  <2>2. ASSUME NEW t \in Threads, Push(t) PROVE Ordered'
    <3> DEFINE x == Log(t)
    <3>1. x \in Lines
      BY <2>2, LogIsLine DEF Push, Sound
    <3>2. Contents' = Append(Contents, x)
      BY <2>2, <3>1, PushContents DEF Sound
    <3>3. /\ pushed' = Append(pushed, x) /\ m_size' = m_size + 1
          /\ UNCHANGED <<written, hand>>
      BY <2>2 DEF Push, file
    <3> HIDE DEF x
    <3>4. /\ Len(pushed') = Len(pushed) + 1 /\ pushed'[Len(pushed) + 1] = x
          /\ \A i \in 1..Len(pushed) : pushed'[i] = pushed[i]
      BY <2>a, <3>1, <3>3
    <3>5. InHandCount' = InHandCount /\ Gone' = Gone
      <4>1. InHandCount' = InHandCount
        BY <3>3 DEF InHandCount
      <4> QED BY <2>a, <3>3, <3>4, <4>1 DEF Gone
    <3>6. /\ \A i \in 1..m_size : Contents'[i] = Contents[i]
          /\ Contents'[m_size + 1] = x
      BY <2>a, <3>1, <3>2
    <3>7. /\ \A i \in 1..Gone : i \in 1..Len(pushed)
          /\ hand # NoLine => Gone + 1 \in 1..Len(pushed)
          /\ \A i \in 1..m_size : Gone + InHandCount + i \in 1..Len(pushed)
      <4>1. Gone >= 0 /\ (hand # NoLine => InHandCount = 1)
        BY DEF Ordered, InHandCount
      <4> QED BY <2>a, <4>1
    <3>8. \A i \in 1..m_size' : Contents'[i] = pushed'[Gone + InHandCount + i]
      <4> SUFFICES ASSUME NEW i \in 1..m_size' PROVE Contents'[i] = pushed'[Gone + InHandCount + i]
        OBVIOUS
      <4>1. CASE i \in 1..m_size
        <5> DEFINE k == Gone + InHandCount + i
        <5>1. k \in 1..Len(pushed)
          BY <3>7, <4>1
        <5>2. Contents[i] = pushed[k]
          BY <4>1 DEF Ordered
        <5> HIDE DEF k
        <5>3. pushed'[k] = pushed[k] /\ Contents'[i] = Contents[i]
          BY <3>4, <3>6, <4>1, <5>1
        <5> QED BY <5>2, <5>3 DEF k
      <4>2. CASE i = m_size + 1
        <5>1. Gone + InHandCount + i = Len(pushed) + 1
          BY <2>a, <4>2
        <5>2. pushed'[Gone + InHandCount + i] = x
          BY <3>4, <5>1, Zenon
        <5>3. Contents'[i] = x
          BY <3>6, <4>2, Zenon
        <5> QED BY <5>2, <5>3, Zenon
      <4>3. i \in 1..m_size \/ i = m_size + 1
        BY <2>a, <3>3
      <4> QED BY <4>1, <4>2, <4>3, Zenon
    <3>9. hand # NoLine => pushed'[Gone + 1] = hand
      BY <3>4, <3>7 DEF Ordered
    <3>10. \A i \in 1..Gone : pushed'[i] = pushed[i]
      BY <3>4, <3>7
    <3>11. /\ \A i \in 1..Gone : \E a \in 1..Len(written) : written[a] = pushed'[i]
           /\ \A i, j \in 1..Gone : \A a, b \in 1..Len(written) :
                 i < j /\ written[a] = pushed'[i] /\ written[b] = pushed'[j] => a < b
      BY <3>10 DEF Ordered
    <3>12. Gone >= 0
      BY DEF Ordered
    <3>13. \A i \in 1..m_size' : Contents'[i] = pushed'[Gone' + InHandCount' + i]
      BY <3>5, <3>8, Zenon
    <3>14. Gone' >= 0 /\ (hand' # NoLine => pushed'[Gone' + 1] = hand')
      BY <3>3, <3>5, <3>9, <3>12
    <3>15. /\ \A i \in 1..Gone' : \E a \in 1..Len(written') : written'[a] = pushed'[i]
           /\ \A i, j \in 1..Gone' : \A a, b \in 1..Len(written') :
                 i < j /\ written'[a] = pushed'[i] /\ written'[b] = pushed'[j] => a < b
      BY <3>3, <3>5, <3>11, ZenonT(40)
    <3> QED BY <3>13, <3>14, <3>15, Zenon DEF Ordered
  <2>3. CASE Pop
    <3>1. /\ Contents # <<>> /\ Contents' = Tail(Contents) /\ hand' = Head(Contents)
          /\ hand' \in Lines
      BY <2>3, PopContents DEF Sound
    <3>2. /\ UNCHANGED <<written, pushed>> /\ hand = NoLine /\ m_size' = m_size - 1
      BY <2>3 DEF Pop, file, Sound, WritersSound
    <3>3. /\ InHandCount = 0 /\ InHandCount' = 1 /\ Gone' = Gone
      <4>1. InHandCount = 0 /\ InHandCount' = 1
        BY <3>1, <3>2, NoLineIsNone DEF InHandCount
      <4> QED BY <2>a, <3>2, <4>1 DEF Gone
    <3>4. /\ 1 \in 1..m_size /\ hand' = Contents[1]
          /\ \A i \in 1..(m_size - 1) : Contents'[i] = Contents[i + 1] /\ i + 1 \in 1..m_size
      BY <2>a, <3>1
    <3>5. hand' = pushed[Gone + 1]
      <4>1. Contents[1] = pushed[Gone + InHandCount + 1] /\ Gone + InHandCount + 1 = Gone + 1
        BY <2>a, <3>3, <3>4 DEF Ordered
      <4> QED BY <3>4, <4>1
    <3>6. \A i \in 1..(m_size - 1) : Contents'[i] = pushed[Gone + 1 + i]
      <4> SUFFICES ASSUME NEW i \in 1..(m_size - 1) PROVE Contents'[i] = pushed[Gone + 1 + i]
        OBVIOUS
      <4>1. Contents[i + 1] = pushed[Gone + InHandCount + (i + 1)]
        BY <3>4 DEF Ordered
      <4>2. Gone + InHandCount + (i + 1) = Gone + 1 + i
        BY <2>a, <3>3
      <4> QED BY <3>4, <4>1, <4>2
    <3> QED BY <3>2, <3>3, <3>5, <3>6 DEF Ordered
  <2>4. CASE FlusherWrites
    <3>1. /\ written' = Append(written, hand) /\ hand' = NoLine /\ UNCHANGED <<ring, pushed>>
          /\ hand \in Lines /\ hand # NoLine
      BY <2>4 DEF FlusherWrites, Write, Sound, WritersSound
    <3>2. Contents' = Contents /\ m_size' = m_size
      BY <3>1 DEF ring, Contents
    <3>3. /\ InHandCount = 1 /\ InHandCount' = 0 /\ Gone' = Gone + 1
      <4>1. InHandCount = 1 /\ InHandCount' = 0
        BY <3>1 DEF InHandCount
      <4> QED BY <2>a, <3>1, <3>2, <4>1 DEF Gone
    <3>4. /\ Len(written') = Len(written) + 1
          /\ \A a \in 1..Len(written) : written'[a] = written[a]
          /\ written'[Len(written) + 1] = hand
      BY <2>a, <3>1
    <3>5. hand = pushed[Gone + 1] /\ Gone >= 0
      BY <3>1 DEF Ordered
    <3>6. \A a \in 1..Len(written) : written[a] # hand
      BY <2>a DEF Accounted, ToSet
    <3>7. \A i \in 1..Gone' : i \in 1..Gone \/ i = Gone + 1
      BY <2>a, <3>3
    \* The lines gone before are in the files where they were, this one last.
    <3>8. \A i \in 1..Gone : \A a \in 1..Len(written') :
             written'[a] = pushed[i] => a \in 1..Len(written) /\ written[a] = pushed[i]
      <4> SUFFICES ASSUME NEW i \in 1..Gone, written'[Len(written) + 1] = pushed[i]
                   PROVE  FALSE
        BY <2>a, <3>4
      <4>1. PICK a \in 1..Len(written) : written[a] = pushed[i]
        BY DEF Ordered
      <4> QED BY <3>4, <3>6, <4>1
    <3>9. \A a \in 1..Len(written') : written'[a] = hand => a = Len(written) + 1
      BY <2>a, <3>4, <3>6
    <3>10. \A i \in 1..Gone' : \E a \in 1..Len(written') : written'[a] = pushed[i]
      <4>1. \A a \in 1..Len(written) : a \in 1..Len(written')
        BY <2>a, <3>4
      <4>2. Len(written) + 1 \in 1..Len(written')
        BY <2>a, <3>4
      <4> QED BY <3>4, <3>5, <3>7, <4>1, <4>2 DEF Ordered
    <3>11. ASSUME NEW i \in 1..Gone', NEW j \in 1..Gone', NEW a \in 1..Len(written'),
                  NEW b \in 1..Len(written'),
                  i < j, written'[a] = pushed[i], written'[b] = pushed[j]
           PROVE  a < b
      <4>1. i \in 1..Gone
        BY <2>a, <3>3, <3>11
      <4>2. a \in 1..Len(written) /\ written[a] = pushed[i]
        BY <3>8, <3>11, <4>1
      <4>3. CASE j \in 1..Gone
        BY <3>8, <3>11, <4>1, <4>2, <4>3 DEF Ordered
      <4>4. CASE j = Gone + 1
        <5>1. b = Len(written) + 1
          BY <3>5, <3>9, <3>11, <4>4
        <5> QED BY <2>a, <4>2, <5>1
      <4> QED BY <3>7, <4>3, <4>4
    <3>12. \A i \in 1..m_size : Contents[i] = pushed[Gone' + InHandCount' + i]
      <4> SUFFICES ASSUME NEW i \in 1..m_size
                   PROVE  Contents[i] = pushed[Gone' + InHandCount' + i]
        OBVIOUS
      <4>1. Gone' + InHandCount' + i = Gone + InHandCount + i
        BY <2>a, <3>3
      <4> QED BY <4>1 DEF Ordered
    <3>13. Gone' >= 0
      BY <2>a, <3>3, <3>5
    <3> QED BY <3>1, <3>2, <3>10, <3>11, <3>12, <3>13 DEF Ordered
  <2>5. ASSUME NEW t \in Threads, Stamp(t) \/ Count(t) \/ Test(t) \/ PushRefused(t)
        PROVE  Ordered'
    BY <2>b, <2>5 DEF Stamp, Count, Test, PushRefused, file
  <2>6. CASE Midnight \/ SpuriousWakeup \/ PopWaits \/ UNCHANGED vars
    BY <2>b, <2>6 DEF Midnight, SpuriousWakeup, PopWaits, vars, file, ring
  <2> QED BY <2>1, <2>2, <2>3, <2>4, <2>5, <2>6 DEF Next, write_log, async_write_log
<1> QED BY <1>1, <1>2, SoundInvariant, AccountedInvariant, PTL DEF Spec

(* QueuedInOrder: queued lines reach the files in the order they were      *)
(* pushed.                                                                 *)
THEOREM OrderCorrect == Spec => []QueuedInOrder
<1>1. ASSUME Sound, Ordered PROVE QueuedInOrder
  <2> DEFINE waiting == InHand \o Contents
             gone == Len(pushed) - Len(waiting)
  <2>1. /\ m_size \in Nat /\ pushed \in Seq(Lines) /\ Len(pushed) \in Nat
        /\ Contents \in Seq(Lines) /\ Len(Contents) = m_size
        /\ hand \in Lines \cup {NoLine}
    <3>1. Contents \in Seq(Lines) /\ Len(Contents) = m_size
      BY <1>1, ContentsType DEF Sound
    <3> QED BY <1>1, <3>1, LogAssumption DEF Sound, RingSound, WritersSound
  <2>2. /\ waiting \in Seq(Lines) /\ Len(waiting) = InHandCount + m_size
        /\ InHandCount \in {0, 1}
        /\ InHandCount = 1 => waiting[1] = hand /\ hand # NoLine
        /\ \A i \in 1..m_size : waiting[InHandCount + i] = Contents[i]
    <3>1. CASE hand = NoLine
      <4>1. InHand = <<>> /\ InHandCount = 0
        BY <3>1 DEF InHand, InHandCount
      <4>2. waiting = Contents
        BY <2>1, <4>1
      <4> QED BY <2>1, <4>1, <4>2
    <3>2. CASE hand # NoLine
      <4>1. InHand = <<hand>> /\ InHandCount = 1 /\ hand \in Lines
        BY <2>1, <3>2 DEF InHand, InHandCount
      <4> QED BY <2>1, <3>2, <4>1
    <3> QED BY <3>1, <3>2
  <2> HIDE DEF waiting
  <2>3. gone = Gone /\ gone \in Nat
    BY <1>1, <2>1, <2>2 DEF Gone, Ordered
  <2> HIDE DEF gone
  <2>4. \A i \in 1..Len(waiting) : waiting[i] = pushed[gone + i]
    <3> SUFFICES ASSUME NEW i \in 1..Len(waiting) PROVE waiting[i] = pushed[gone + i]
      OBVIOUS
    <3>1. CASE InHandCount = 1 /\ i = 1
      BY <1>1, <2>2, <2>3, <3>1 DEF Ordered
    <3>2. CASE InHandCount = 0 \/ i # 1
      <4> DEFINE j == i - InHandCount
      <4>1. j \in 1..m_size /\ InHandCount + j = i /\ Gone + InHandCount + j = gone + i
        BY <2>1, <2>2, <2>3, <3>2
      <4> HIDE DEF j
      <4> QED BY <1>1, <2>2, <4>1 DEF Ordered
    <3> QED BY <2>2, <3>1, <3>2
  <2>5. waiting = [i \in 1..Len(waiting) |-> pushed[gone + i]]
    BY <2>2, <2>4
  <2>6. /\ \A i \in 1..gone : Contains(written, pushed[i])
        /\ \A i, j \in 1..gone : \A a, b \in 1..Len(written) :
              i < j /\ written[a] = pushed[i] /\ written[b] = pushed[j] => a < b
    BY <1>1, <2>3 DEF Ordered, Contains
  <2>7. gone >= 0
    BY <2>3
  <2> QED BY <2>5, <2>6, <2>7, Zenon DEF QueuedInOrder, waiting, gone
<1> QED BY <1>1, SoundInvariant, OrderedInvariant, PTL

-----------------------------------------------------------------------------
(* The files while their days do not go back: none is of a later day than  *)
(* m_today, and the numbers of today's files are not beyond the count.     *)
InOrder(f) == \A i \in 2..Len(f) : f[i - 1].day <= f[i].day

Fresh ==
    InOrder(files) =>
        /\ \A i \in 1..Len(files) : files[i].day <= m_today
        /\ \A i \in 1..Len(files) :
              files[i].day = m_today => files[i].part <= m_count \div m_split_lines
        /\ \A i, j \in 1..Len(files) :
              files[i].day = files[j].day /\ files[i].part = files[j].part => i = j

(* A new file is of a later day, or has a higher number, than all before.  *)
LEMMA FreshInvariant == Spec => []Fresh
<1> USE LogAssumption
<1>1. Init => Fresh
  BY DEF Init, Fresh, Opened
<1>2. Sound /\ Fresh /\ [Next]_vars => Fresh'
  <2> SUFFICES ASSUME Sound, Fresh, [Next]_vars PROVE Fresh'
    OBVIOUS
  <2>1. CASE UNCHANGED <<m_count, m_today, files>>
    BY <2>1 DEF Fresh, InOrder
  <2>2. ASSUME NEW t \in Threads, Count(t) PROVE Fresh'
    <3> DEFINE d == stamp[t]
               count == m_count + 1
               old == m_count \div m_split_lines
               new == count \div m_split_lines
               n == Len(files)
               F == [day : Days, part : Nat]
    <3>1. /\ d \in Nat /\ d \in Days /\ m_today \in Nat /\ m_count \in Nat /\ n \in Nat \ {0}
          /\ files \in Seq(F) /\ files[n].day = m_today
      <4>1. d \in Days /\ m_today \in Days /\ Days \subseteq Nat
        BY DEF Sound, FilesSound, WritersSound, Days
      <4>2. files \in Seq(F) /\ files # <<>> /\ files[n].day = m_today /\ m_count \in Nat
        BY DEF Sound, FilesSound
      <4> HIDE DEF d, F
      <4> QED BY <4>1, <4>2
    <3>2. /\ old \in Nat /\ new \in Nat /\ old <= new
          /\ count % m_split_lines = 0 => old < new
      BY <3>1, NextPart
    <3>3. \/ /\ m_today # d /\ m_count' = 0 /\ m_today' = d
             /\ files' = Append(files, Opened(d, 0))
          \/ /\ m_today = d /\ m_count' = count /\ m_today' = d
             /\ count % m_split_lines = 0 /\ files' = Append(files, Opened(d, new))
          \/ /\ m_count' = count /\ m_today' = m_today /\ files' = files
      BY <2>2 DEF Count, Rotate
    <3>4. \A i \in 1..n : files[i].day \in Nat /\ files[i].part \in Nat
      <4>1. \A i \in 1..n : files[i] \in F
        <5> HIDE DEF F
        <5> QED BY <3>1
      <4> QED BY <4>1 DEF Days
    <3>5. (m_count \div m_split_lines)' = m_count' \div m_split_lines /\ 0 \div m_split_lines = 0
      OBVIOUS
    <3> SUFFICES ASSUME InOrder(files')
                 PROVE  /\ \A i \in 1..Len(files') : files'[i].day <= m_today'
                        /\ \A i \in 1..Len(files') :
                              files'[i].day = m_today' =>
                                 files'[i].part <= m_count' \div m_split_lines
                        /\ \A i, j \in 1..Len(files') :
                              files'[i].day = files'[j].day
                              /\ files'[i].part = files'[j].part => i = j
      BY <3>5 DEF Fresh, InOrder
    \* One more file, of the day d and with number p.
    <3>a. ASSUME NEW p \in Nat, files' = Append(files, Opened(d, p))
          PROVE  /\ Len(files') = n + 1
                 /\ files'[n + 1].day = d /\ files'[n + 1].part = p
                 /\ \A i \in 1..n : files'[i] = files[i]
                 /\ InOrder(files) /\ m_today <= d
      <4> DEFINE f == Opened(d, p)
                 g == files'
      <4>1. f \in F /\ f.day = d /\ f.part = p
        BY <3>1 DEF Opened
      <4> HIDE DEF f, F
      <4>2. g = Append(files, f)
        BY <3>a DEF f
      <4> HIDE DEF g
      <4>3. /\ Len(g) = n + 1 /\ g[n + 1] = f /\ \A i \in 1..n : g[i] = files[i]
        BY <3>1, <4>1, <4>2
      <4>4. \A i \in 2..(n + 1) : g[i - 1].day <= g[i].day
        BY <4>3 DEF InOrder, g
      <4> HIDE DEF n
      <4>5. InOrder(files)
        <5>1. \A i \in 2..n : i \in 2..(n + 1) /\ i \in 1..n /\ i - 1 \in 1..n
          BY <3>1
        <5> QED BY <4>3, <4>4, <5>1 DEF InOrder, n
      <4>6. m_today <= d
        <5>1. n + 1 \in 2..(n + 1) /\ (n + 1) - 1 = n /\ n \in 1..n
          BY <3>1
        <5>2. g[n].day <= g[n + 1].day
          BY <4>4, <5>1
        <5> HIDE DEF d
        <5> QED BY <3>1, <4>1, <4>3, <5>1, <5>2
      <4> QED BY <4>1, <4>3, <4>5, <4>6 DEF g
    <3>6. CASE /\ m_today # d /\ m_count' = 0 /\ m_today' = d
               /\ files' = Append(files, Opened(d, 0))
      <4>1. /\ Len(files') = n + 1 /\ files'[n + 1].day = d /\ files'[n + 1].part = 0
            /\ \A i \in 1..n : files'[i] = files[i]
            /\ InOrder(files) /\ m_today < d
        BY <3>1, <3>a, <3>6
      <4>2. \A i \in 1..n : files[i].day < d
        BY <3>1, <3>4, <4>1 DEF Fresh
      <4>3. \A i, j \in 1..n :
               files[i].day = files[j].day /\ files[i].part = files[j].part => i = j
        BY <4>1 DEF Fresh
      <4>4. \A i \in 1..Len(files') : i \in 1..n \/ i = n + 1
        BY <3>1, <4>1
      <4> HIDE DEF d, n
      <4>5. \A i \in 1..n : files'[i].day # d /\ files'[n + 1].day = d
        BY <3>1, <3>4, <4>1, <4>2
      <4>6. \A i, j \in 1..(n + 1) :
               files'[i].day = files'[j].day /\ files'[i].part = files'[j].part => i = j
        BY <4>1, <4>3, <4>4, <4>5
      <4>7. \A i \in 1..(n + 1) :
               files'[i].day <= d /\ (files'[i].day = d => files'[i].part <= 0)
        <5>1. \A i \in 1..n : files'[i].day \in Nat /\ files'[i].day < d
          BY <3>4, <4>1, <4>2
        <5> QED BY <3>1, <4>1, <4>4, <4>5, <5>1
      <4> QED BY <3>5, <3>6, <4>1, <4>6, <4>7
    <3>7. CASE /\ m_today = d /\ m_count' = count /\ m_today' = d
               /\ count % m_split_lines = 0 /\ files' = Append(files, Opened(d, new))
      <4>1. /\ Len(files') = n + 1 /\ files'[n + 1].day = d /\ files'[n + 1].part = new
            /\ \A i \in 1..n : files'[i] = files[i]
            /\ InOrder(files)
        BY <3>2, <3>a, <3>7
      <4>2. \A i \in 1..n : files[i].day <= d /\ (files[i].day = d => files[i].part <= old)
        BY <3>7, <4>1 DEF Fresh
      <4>3. \A i, j \in 1..n :
               files[i].day = files[j].day /\ files[i].part = files[j].part => i = j
        BY <4>1 DEF Fresh
      <4>4. \A i \in 1..Len(files') : i \in 1..n \/ i = n + 1
        BY <3>1, <4>1
      <4>5. m_count' \div m_split_lines = new /\ old < new
        BY <3>2, <3>7
      <4> HIDE DEF d, n, old, new
      <4>6. \A i \in 1..n : files[i].day = d => files[i].part < new
        BY <3>2, <3>4, <4>2, <4>5
      <4>7. \A i \in 1..n : ~(files[i].day = d /\ files[i].part = new)
        BY <3>2, <3>4, <4>6
      <4>8. \A i, j \in 1..(n + 1) :
               files'[i].day = files'[j].day /\ files'[i].part = files'[j].part => i = j
        BY <4>1, <4>3, <4>4, <4>7
      <4>9. \A i \in 1..(n + 1) :
               files'[i].day <= d /\ (files'[i].day = d => files'[i].part <= new)
        BY <3>1, <3>2, <3>4, <4>1, <4>2, <4>4, <4>6, SMTT(30)
      <4> QED BY <3>7, <4>1, <4>5, <4>8, <4>9, SMTT(30)
    <3>8. CASE m_count' = count /\ m_today' = m_today /\ files' = files
      <4>1. m_count' \div m_split_lines = new /\ InOrder(files)
        BY <3>8
      <4>2. \A i \in 1..n : files[i].day = m_today => files[i].part <= old
        BY <4>1 DEF Fresh
      <4>3. \A i \in 1..n : files[i].day = m_today => files[i].part <= new
        <5> HIDE DEF old, new, n
        <5> QED BY <3>2, <3>4, <4>2
      <4> QED BY <3>8, <4>1, <4>3 DEF Fresh
    <3> QED BY <3>3, <3>6, <3>7, <3>8
  <2>3. ASSUME NEW t \in Threads,
               Stamp(t) \/ Test(t) \/ Direct(t) \/ Push(t) \/ PushRefused(t)
        PROVE  UNCHANGED <<m_count, m_today, files>>
    BY <2>3 DEF Stamp, Test, Direct, Push, PushRefused, file
  <2>4. CASE Midnight \/ SpuriousWakeup \/ async_write_log \/ UNCHANGED vars
    BY <2>1, <2>4 DEF Midnight, SpuriousWakeup, async_write_log, PopWaits, Pop,
                      FlusherWrites, vars, file
  <2> QED BY <2>1, <2>2, <2>3, <2>4 DEF Next, write_log
<1> QED BY <1>1, <1>2, SoundInvariant, PTL DEF Spec

(* FilesFresh: while the days of the files do not go back, no file is      *)
(* opened twice.                                                           *)
THEOREM FilesCorrect == Spec => []FilesFresh
<1>1. Fresh => FilesFresh
  BY DEF Fresh, InOrder, FilesFresh
<1> QED BY <1>1, FreshInvariant, PTL
=============================================================================
