------------------------- MODULE PacketParserProofs -------------------------
(***************************************************************************)
(* Theorems about PacketParser, for every buffer size, every set of        *)
(* packets and every way the stream is cut.                                *)
(***************************************************************************)
EXTENDS PacketParser, SequenceTheorems, WellFoundedInduction, TLAPS

-----------------------------------------------------------------------------
(* What is left of a sequence without its first n members. *)
Drop(s, n) == SubSeq(s, n + 1, Len(s))

(* The two parts a sequence is cut into. *)
LEMMA Parts ==
    ASSUME NEW S, NEW s \in Seq(S), NEW n \in 0..Len(s)
    PROVE  /\ SubSeq(s, 1, n) \in Seq(S) /\ Len(SubSeq(s, 1, n)) = n
           /\ \A i \in 1..n : SubSeq(s, 1, n)[i] = s[i]
           /\ Drop(s, n) \in Seq(S) /\ Len(Drop(s, n)) = Len(s) - n
           /\ \A i \in 1..(Len(s) - n) : Drop(s, n)[i] = s[n + i]
           /\ SubSeq(s, 1, n) \o Drop(s, n) = s
<1>1. Len(s) \in Nat /\ \A i \in 1..Len(s) : s[i] \in S
  OBVIOUS
<1>2. /\ SubSeq(s, 1, n) \in Seq(S) /\ Len(SubSeq(s, 1, n)) = n
      /\ \A i \in 1..n : SubSeq(s, 1, n)[i] = s[i]
  BY <1>1, SubSeqProperties
<1>3. /\ Drop(s, n) \in Seq(S) /\ Len(Drop(s, n)) = Len(s) - n
      /\ \A i \in 1..(Len(s) - n) : Drop(s, n)[i] = s[n + i]
  BY <1>1, SubSeqProperties DEF Drop
<1>4. SubSeq(s, 1, n) \o Drop(s, n) = s
  <2>1. 1 \in 1..(Len(s) + 1) /\ n \in (1 - 1)..Len(s) /\ Len(s) \in n..Len(s)
    BY <1>1
  <2>2. SubSeq(s, 1, n) \o SubSeq(s, n + 1, Len(s)) = SubSeq(s, 1, Len(s))
    BY <2>1, ConcatAdjacentSubSeq
  <2>3. SubSeq(s, 1, Len(s)) = s
    BY SubSeqFull
  <2> QED BY <2>2, <2>3 DEF Drop
<1> QED BY <1>2, <1>3, <1>4

(* Where two concatenations are the same and the first parts as long, the  *)
(* parts are the same.                                                     *)
LEMMA SameParts ==
    ASSUME NEW S, NEW a \in Seq(S), NEW b \in Seq(S), NEW c \in Seq(S), NEW d \in Seq(S),
           a \o b = c \o d, Len(a) = Len(c)
    PROVE  a = c /\ b = d
<1> DEFINE s == a \o b
<1>1. /\ Len(a) \in Nat /\ Len(b) \in Nat /\ Len(d) \in Nat
      /\ Len(s) = Len(a) + Len(b)
      /\ \A i \in 1..(Len(a) + Len(b)) : s[i] = IF i <= Len(a) THEN a[i] ELSE b[i - Len(a)]
  BY ConcatProperties
<1>2. /\ Len(s) = Len(c) + Len(d)
      /\ \A i \in 1..(Len(c) + Len(d)) : s[i] = IF i <= Len(c) THEN c[i] ELSE d[i - Len(c)]
  <2>1. s = c \o d
    OBVIOUS
  <2> QED BY <2>1, ConcatProperties
<1> HIDE DEF s
<1>3. Len(b) = Len(d)
  BY <1>1, <1>2
<1>4. a = c
  <2>1. \A i \in 1..Len(a) : a[i] = c[i]
    BY <1>1, <1>2
  <2> QED BY <2>1, SeqEqual
<1>5. b = d
  <2>1. ASSUME NEW i \in 1..Len(b) PROVE b[i] = d[i]
    <3>1. /\ Len(a) + i \in 1..(Len(a) + Len(b)) /\ ~ (Len(a) + i <= Len(a))
          /\ (Len(a) + i) - Len(a) = i
      BY <1>1
    <3>2. s[Len(a) + i] = b[i]
      BY <1>1, <3>1
    <3>3. s[Len(a) + i] = d[i]
      BY <1>2, <1>3, <3>1
    <3> QED BY <3>2, <3>3
  <2> QED BY <1>3, <2>1, SeqEqual
<1> QED BY <1>4, <1>5

(* The same where the first part is longer than the other. *)
LEMMA LongerPart ==
    ASSUME NEW S, NEW a \in Seq(S), NEW b \in Seq(S), NEW c \in Seq(S), NEW d \in Seq(S),
           a \o b = c \o d, Len(c) <= Len(a)
    PROVE  SubSeq(a, 1, Len(c)) = c /\ Drop(a, Len(c)) \o b = d
<1>1. Len(c) \in 0..Len(a)
  OBVIOUS
<1>2. PICK x \in Seq(S), y \in Seq(S) :
         x = SubSeq(a, 1, Len(c)) /\ y = Drop(a, Len(c)) /\ Len(x) = Len(c) /\ x \o y = a
  BY <1>1, Parts
<1>3. (x \o y) \o b = x \o (y \o b)
  <2>1. x \in Seq(S) /\ y \in Seq(S) /\ b \in Seq(S)
    BY <1>2
  <2>2. \A u, v, w \in Seq(S) : (u \o v) \o w = u \o (v \o w)
    BY SMTT(30)
  <2> QED BY <2>1, <2>2, ZenonT(40)
<1>4. y \o b \in Seq(S) /\ x \o (y \o b) = c \o d
  BY <1>2, <1>3
<1>5. x = c /\ y \o b = d
  BY <1>2, <1>4, SameParts, ZenonT(40)
<1> QED BY <1>2, <1>5

(* Dropping twice is dropping more. *)
LEMMA DropMore ==
    ASSUME NEW S, NEW s \in Seq(S), NEW m \in 0..Len(s), NEW n \in 0..(Len(s) - m)
    PROVE  Drop(Drop(s, m), n) = Drop(s, m + n)
<1> DEFINE a == Drop(s, m)
           b == Drop(a, n)
           c == Drop(s, m + n)
<1>1. a \in Seq(S) /\ Len(a) = Len(s) - m /\ \A i \in 1..(Len(s) - m) : a[i] = s[m + i]
  BY Parts
<1>2. n \in 0..Len(a)
  BY <1>1
<1>3. m + n \in 0..Len(s)
  OBVIOUS
<1> HIDE DEF a
<1>4. b \in Seq(S) /\ Len(b) = Len(a) - n /\ \A i \in 1..(Len(a) - n) : b[i] = a[n + i]
  BY <1>1, <1>2, Parts
<1> HIDE DEF b
<1>5. /\ c \in Seq(S) /\ Len(c) = Len(s) - (m + n)
      /\ \A i \in 1..(Len(s) - (m + n)) : c[i] = s[(m + n) + i]
  BY <1>3, Parts
<1> HIDE DEF c
<1>6. Len(b) = Len(c)
  BY <1>1, <1>4, <1>5
<1>7. ASSUME NEW i \in 1..Len(c) PROVE b[i] = c[i]
  <2>1. b[i] = a[n + i]
    BY <1>4, <1>6
  <2>2. n + i \in 1..(Len(s) - m)
    BY <1>5
  <2>3. a[n + i] = s[m + (n + i)]
    BY <1>1, <2>2
  <2>4. c[i] = s[(m + n) + i]
    BY <1>5
  <2>5. m + (n + i) = (m + n) + i
    BY <1>5
  <2> QED BY <2>1, <2>3, <2>4, <2>5
<1> QED BY <1>4, <1>5, <1>6, <1>7 DEF a, b, c

(* A head and the rest. *)
LEMMA Single ==
    ASSUME NEW S, NEW a \in S
    PROVE  <<a>> \in Seq(S) /\ Len(<<a>>) = 1 /\ <<a>>[1] = a
OBVIOUS

(* Concatenation of symbols is associative. *)
LEMMA Associative == \A a, b, c \in Seq(Symbols) : (a \o b) \o c = a \o (b \o c)
OBVIOUS

-----------------------------------------------------------------------------
(* The stream in the order it is parsed.  A packet from its blank line  *)
(* on, and from its headers on, with what follows it.                      *)
Body(p, more) == Eol \o (p.content \o more)
Headers(p, more) ==
    IF p.named THEN <<Length(Len(p.content))>> \o (Eol \o Body(p, more))
    ELSE Body(p, more)

(* The symbols a packet is made of. *)
LEMMA PacketSymbols ==
    ASSUME NEW p \in Packets
    PROVE  /\ Encode(p) \in Seq(Symbols) /\ p.content \in Seq(Symbols)
           /\ Word(p.type) \in Symbols
           /\ Length(Len(p.content)) \in Symbols
           /\ CR \in Symbols /\ LF \in Symbols /\ NUL \in Symbols /\ Junk \in Symbols
<1> USE ParserAssumption
<1>1. /\ Word(p.type) \in Symbols /\ Length(Len(p.content)) \in Symbols
      /\ CR \in Symbols /\ LF \in Symbols /\ NUL \in Symbols /\ Junk \in Symbols
      /\ ToSet(p.content) \subseteq Symbols
  BY DEF Symbols
<1>2. p.content \in Seq(Symbols)
  BY <1>1, SeqMonotonic
<1> DEFINE w == <<Word(p.type)>>
           n == <<Length(Len(p.content))>>
           l == IF p.named THEN n \o Eol ELSE <<>>
<1>3. w \in Seq(Symbols) /\ n \in Seq(Symbols) /\ Eol \in Seq(Symbols)
      /\ <<>> \in Seq(Symbols)
  BY <1>1, Single DEF Eol
<1>4. Encode(p) = (((w \o Eol) \o l) \o Eol) \o p.content
  BY DEF Encode
<1> HIDE DEF w, n
<1>5. l \in Seq(Symbols) /\ w \o Eol \in Seq(Symbols)
  BY <1>3, ConcatProperties
<1> DEFINE x == (w \o Eol) \o l
<1> HIDE DEF l
<1>6. x \in Seq(Symbols)
  BY <1>5, ConcatProperties
<1> HIDE DEF x
<1>7. x \o Eol \in Seq(Symbols)
  BY <1>3, <1>6, ConcatProperties
<1> DEFINE y == x \o Eol
<1> HIDE DEF y
<1>8. y \o p.content \in Seq(Symbols)
  BY <1>2, <1>7, ConcatProperties DEF y
<1>9. Encode(p) \in Seq(Symbols)
  BY <1>4, <1>8 DEF x, y
<1> QED BY <1>1, <1>2, <1>9
(* What a sequence put before another adds to it. *)
LEMMA TwoMore ==
    ASSUME NEW S, NEW s \in Seq(S), Len(s) = 2, NEW x \in Seq(S)
    PROVE  s \o x \in Seq(S) /\ Len(s \o x) = 2 + Len(x)
<1>1. s \o x \in Seq(S) /\ Len(s \o x) = Len(s) + Len(x)
  BY ConcatProperties
<1> QED BY <1>1

(* The rest of a packet is a sequence of symbols, and what follows it is   *)
(* at the end.                                                             *)
LEMMA RestSymbols ==
    ASSUME NEW p \in Packets, NEW more \in Seq(Symbols)
    PROVE  /\ Eol \in Seq(Symbols) /\ Len(Eol) = 2
           /\ p.content \o more \in Seq(Symbols)
           /\ Len(p.content \o more) = Len(p.content) + Len(more)
           /\ Body(p, more) \in Seq(Symbols)
           /\ Len(Body(p, more)) = 2 + (Len(p.content) + Len(more))
           /\ Headers(p, more) \in Seq(Symbols)
           /\ Len(Headers(p, more)) >= Len(Body(p, more))
<1> DEFINE c == p.content
           n == Length(Len(p.content))
           b == Eol \o (c \o more)
           e == Eol \o b
           h == <<n>> \o e
<1>1. c \in Seq(Symbols) /\ n \in Symbols /\ CR \in Symbols /\ LF \in Symbols
  BY PacketSymbols
<1>2. Eol \in Seq(Symbols) /\ Len(Eol) = 2
  <2> HIDE DEF c, n
  <2> QED BY <1>1 DEF Eol
<1> HIDE DEF c, n
<1>3. c \o more \in Seq(Symbols) /\ Len(c \o more) = Len(c) + Len(more)
  BY <1>1, ConcatProperties
<1>4. b \in Seq(Symbols) /\ Len(b) = 2 + (Len(c) + Len(more))
  <2> DEFINE x == c \o more
  <2> HIDE DEF x
  <2> QED BY <1>2, <1>3, TwoMore DEF x
<1>5. e \in Seq(Symbols) /\ Len(e) = 2 + Len(b)
  <2> HIDE DEF b
  <2> QED BY <1>2, <1>4, TwoMore
<1>6. h \in Seq(Symbols) /\ Len(h) = 1 + Len(e)
  <2>1. <<n>> \in Seq(Symbols) /\ Len(<<n>>) = 1
    BY <1>1, Single
  <2> HIDE DEF e
  <2> QED BY <1>5, <2>1, ConcatProperties
<1>7. Body(p, more) = b /\ Headers(p, more) = IF p.named THEN h ELSE b
  BY DEF Body, Headers, c, n
<1> HIDE DEF b, e, h
<1>8. Len(c) \in Nat /\ Len(more) \in Nat
  BY <1>1
<1> QED BY <1>2, <1>3, <1>4, <1>5, <1>6, <1>7, <1>8 DEF c

(* How a packet is parsed: the line of its type, then the headers. *)
LEMMA EncodeIs ==
    ASSUME NEW p \in Packets, NEW more \in Seq(Symbols)
    PROVE  Encode(p) \o more = <<Word(p.type)>> \o (Eol \o Headers(p, more))
<1> DEFINE w == <<Word(p.type)>>
           n == <<Length(Len(p.content))>>
           e == Eol
           c == p.content
           u == w \o e
           l == IF p.named THEN n \o e ELSE <<>>
           b == e \o (c \o more)
           h == Headers(p, more)
<1>1. w \in Seq(Symbols)
  BY PacketSymbols, Single
<1>2. n \in Seq(Symbols)
  BY PacketSymbols, Single
<1>3. e \in Seq(Symbols)
  BY RestSymbols
<1>4. c \in Seq(Symbols)
  BY PacketSymbols
<1>5. h \in Seq(Symbols)
  BY RestSymbols
<1>6. b \in Seq(Symbols)
  BY RestSymbols DEF Body
<1>7. Encode(p) = ((u \o l) \o e) \o c
  BY DEF Encode
<1>8. h = IF p.named THEN n \o (e \o b) ELSE b
  BY DEF Headers, Body
<1> HIDE DEF w, n, e, c, b, h
<1>9. u \in Seq(Symbols)
  BY <1>1, <1>3, ConcatProperties
<1>10. l \in Seq(Symbols)
  BY <1>2, <1>3, ConcatProperties
<1>11. l \o b = h
  <2>1. (n \o e) \o b = n \o (e \o b)
    BY <1>2, <1>3, <1>6, Associative
  <2>2. <<>> \o b = b
    BY <1>6, ConcatEmptySeq
  <2> QED BY <1>8, <2>1, <2>2
<1>12. u \o h = w \o (e \o h)
  BY <1>1, <1>3, <1>5, Associative
<1> HIDE DEF u, l
<1> DEFINE x == u \o l
           y == x \o e
           z == c \o more
<1>13. x \in Seq(Symbols)
  BY <1>9, <1>10, ConcatProperties
<1>14. x \o b = u \o (l \o b)
  BY <1>6, <1>9, <1>10, Associative
<1> HIDE DEF x
<1>15. y \in Seq(Symbols)
  BY <1>3, <1>13, ConcatProperties
<1>16. z \in Seq(Symbols) /\ e \o z = b
  BY RestSymbols DEF b, c, e, Body
<1> HIDE DEF z
<1>17. y \o z = x \o (e \o z)
  BY <1>3, <1>13, <1>16, Associative
<1> HIDE DEF y
<1>18. (y \o c) \o more = y \o z
  BY <1>4, <1>15, Associative DEF z
<1>19. Encode(p) = y \o c
  BY <1>7 DEF x, y
<1>20. Encode(p) \o more = u \o h
  BY <1>11, <1>14, <1>16, <1>17, <1>18, <1>19
<1> QED BY <1>12, <1>20 DEF u, w, e, h

-----------------------------------------------------------------------------
(* Type correctness, and the buffer for the content. *)

(* A set of natural numbers has a least element. *)
LEMMA Least ==
    ASSUME NEW T \in SUBSET Nat, T # {}
    PROVE  \E n \in T : \A m \in T : n <= m
<1>1. PICK n \in T : \A m \in T : <<m, n>> \notin OpToRel(<, Nat)
  BY NatLessThanWellFounded, WFMin
<1>2. \A m \in T : ~(m < n)
  BY <1>1 DEF OpToRel
<1>3. \A m \in T : m \in Nat /\ n \in Nat
  OBVIOUS
<1> QED BY <1>2, <1>3

(* The symbols of a line end and of process() are five. *)
LEMMA Kinds ==
    /\ CR # LF /\ CR # NUL /\ LF # NUL
    /\ \A p \in Packets : Word(p.type) # CR /\ Word(p.type) # LF /\ Word(p.type) # NUL
    /\ \A n : Length(n).kind = "length" /\ Length(n).value = n
              /\ Length(n) # CR /\ Length(n) # LF /\ Length(n) # NUL
    /\ \A t : Word(t).kind = t
<1>1. \A k, v : Sym(k, v).kind = k /\ Sym(k, v).value = v
  BY DEF Sym
<1>2. /\ CR.kind = "cr" /\ LF.kind = "lf" /\ NUL.kind = "nul"
      /\ \A n : Length(n).kind = "length" /\ Length(n).value = n
      /\ \A t : Word(t).kind = t
  BY <1>1 DEF CR, LF, NUL, Length, Word
<1>3. \A p \in Packets : p.type # "cr" /\ p.type # "lf" /\ p.type # "nul"
  BY ParserAssumption
<1>4. \A p \in Packets : Word(p.type) # CR /\ Word(p.type) # LF /\ Word(p.type) # NUL
  BY <1>2, <1>3
<1>5. \A n : Length(n) # CR /\ Length(n) # LF /\ Length(n) # NUL
  BY <1>2
<1> QED BY <1>2, <1>4, <1>5

(* A length that is read is a number. *)
LEMMA LengthValue ==
    ASSUME NEW x \in Symbols, x.kind = "length"
    PROVE  x.value \in Nat
<1>1. CASE x \in {CR, LF, NUL, Junk}
  BY <1>1 DEF CR, LF, NUL, Junk, Sym
<1>2. CASE x \in {Word(p.type) : p \in Packets}
  BY <1>2, ParserAssumption, Kinds
<1>3. CASE x \in {Length(Len(p.content)) : p \in Packets}
  <2>1. PICK p \in Packets : x = Length(Len(p.content))
    BY <1>3
  <2>2. Len(p.content) \in Nat
    BY PacketSymbols, LenProperties
  <2> QED BY <2>1, <2>2, Kinds
<1>4. CASE x \in UNION {ToSet(p.content) : p \in Packets}
  BY <1>4, ParserAssumption
<1> QED BY <1>1, <1>2, <1>3, <1>4 DEF Symbols

(* First is where the first CR or LF is. *)
LEMMA FirstIs ==
    ASSUME TypeOK, Ends # {}
    PROVE  First \in Ends /\ \A j \in Ends : First <= j
<1>1. Ends \in SUBSET Nat
  BY DEF TypeOK, Ends
<1>2. \E i \in Ends : \A j \in Ends : i <= j
  BY <1>1, Least
<1> QED BY <1>2 DEF First

(* A line ends within the buffer. *)
LEMMA LineEndIs ==
    ASSUME TypeOK, LineOk
    PROVE  LineEnd \in (m_checked_idx + 1)..m_read_idx
<1>1. First \in m_checked_idx..(m_read_idx - 1)
  BY FirstIs DEF LineOk, Ends
<1>2. m_checked_idx \in Nat /\ m_read_idx \in Nat
  BY DEF TypeOK, m_read_idx
<1>3. CASE CrLf
  BY <1>1, <1>2, <1>3 DEF CrLf, LineEnd
<1>4. CASE LateLf
  BY <1>1, <1>2, <1>4, Kinds DEF LateLf, LineEnd
<1> QED BY <1>3, <1>4 DEF LineOk

(* A line of one symbol holds what the buffer holds. *)
LEMMA TextSymbol ==
    ASSUME TypeOK, LineOk, Len(text) = 1
    PROVE  text[1] \in Symbols
<1>1. LineEnd \in (m_checked_idx + 1)..Len(m_read_buf)
  BY LineEndIs DEF m_read_idx
<1>2. /\ m_checked_idx \in Nat /\ m_start_line \in Nat
      /\ m_read_buf \in Seq(Symbols) /\ Len(m_read_buf) \in Nat
  BY DEF TypeOK, m_read_idx
<1> DEFINE a == m_start_line + 1
           b == LineEnd - 2
<1>3. a \in Nat \ {0} /\ b \in Int /\ b <= Len(m_read_buf)
  BY <1>1, <1>2
<1>4. text = SubSeq(m_read_buf, a, b)
  BY DEF text
<1> HIDE DEF a, b
<1>5. Len(text) = IF a <= b THEN b - a + 1 ELSE 0
  BY <1>2, <1>3, <1>4
<1>6. a = b
  <2>1. 1 = IF a <= b THEN b - a + 1 ELSE 0
    BY <1>5
  <2> QED BY <1>3, <2>1
<1>7. text[1] = m_read_buf[a]
  BY <1>2, <1>3, <1>4, <1>6
<1> QED BY <1>2, <1>3, <1>6, <1>7

(* What is in the buffer and not parsed yet. *)
LEMMA BufferedIs ==
    ASSUME TypeOK
    PROVE  /\ Buffered = Drop(m_read_buf, m_checked_idx)
           /\ Buffered \in Seq(Symbols) /\ Len(Buffered) = m_read_idx - m_checked_idx
           /\ \A i \in 1..Len(Buffered) : Buffered[i] = m_read_buf[m_checked_idx + i]
<1>1. m_read_buf \in Seq(Symbols) /\ m_checked_idx \in 0..Len(m_read_buf)
  BY DEF TypeOK, m_read_idx
<1>2. Buffered = Drop(m_read_buf, m_checked_idx)
  BY DEF Buffered, Drop, m_read_idx
<1> QED BY <1>1, <1>2, Parts DEF m_read_idx

(* What process() leaves of a broken line is symbols, as many as before. *)
LEMMA GarbledType ==
    ASSUME NEW s, NEW n \in Nat, NEW g \in Garbled(s, n)
    PROVE  g \in Seq(Symbols) /\ Len(g) = n
<1>1. CASE n = 0
  BY <1>1 DEF Garbled
<1>2. CASE n # 0
  <2>1. CR \in Symbols /\ NUL \in Symbols /\ Junk \in Symbols
    BY DEF Symbols
  <2>2. PICK first \in {NUL, Junk}, last \in {Junk, CR} :
           g = [i \in 1..n |-> IF i = 1 /\ first = NUL THEN NUL
                               ELSE IF i = n THEN last ELSE Junk]
    BY <1>2 DEF Garbled
  <2>3. g \in [1..n -> Symbols]
    BY <2>1, <2>2
  <2> QED BY <2>3
<1> QED BY <1>1, <1>2

(* The content read so far fits its buffer; none is kept for later. *)
Content == /\ Len(m_content) <= m_content_length
           /\ m_check_state # "CONTENT" => m_content = <<>>
Sound == TypeOK /\ Content

(* Types hold, and the content always fits: a length is read before the    *)
(* content, and none of the content is left from an earlier packet.        *)
LEMMA SoundInvariant == Spec => []Sound
<1> USE ParserAssumption
<1>0. Len(<<>>) = 0 /\ \A S : <<>> \in Seq(S)
  OBVIOUS
<1>1. Init => Sound
  <2> SUFFICES ASSUME Init PROVE Sound
    OBVIOUS
  <2>1. m_read_idx = 0 /\ Len(m_content) = 0
    BY <1>0 DEF Init, m_read_idx
  <2>2. TypeOK
    <3>1. /\ sent \in Seq(Packets) /\ wire \in Seq(Symbols)
          /\ m_read_buf \in Seq(Symbols) /\ m_content \in Seq(Symbols)
          /\ handled \in Seq([type : Types \cup {"HBT"}, content : Seq(Symbols)])
      BY <1>0 DEF Init
    <3>2. /\ m_read_idx <= READ_BUFFER_SIZE
          /\ m_start_line \in 0..m_checked_idx /\ m_checked_idx \in 0..m_read_idx
      BY <2>1 DEF Init
    <3> QED BY <3>1, <3>2 DEF Init, TypeOK
  <2> QED BY <2>1, <2>2 DEF Init, Sound, Content
<1>2. Sound /\ [Next]_vars => Sound'
  <2> SUFFICES ASSUME Sound, [Next]_vars PROVE Sound'
    OBVIOUS
  <2>0. TypeOK /\ Content
    BY DEF Sound
  <2>1. /\ m_read_idx \in Nat /\ m_checked_idx \in Nat /\ m_start_line \in Nat
        /\ m_start_line <= m_checked_idx /\ m_checked_idx <= m_read_idx
        /\ m_read_idx <= READ_BUFFER_SIZE /\ m_read_idx = Len(m_read_buf)
    BY <2>0 DEF TypeOK, m_read_idx
  <2>2. ASSUME NEW p \in Packets, Send(p) PROVE Sound'
    <3>1. Encode(p) \in Seq(Symbols)
      BY PacketSymbols
    <3>2. sent' \in Seq(Packets) /\ wire' \in Seq(Symbols)
      BY <2>0, <2>2, <3>1, AppendProperties, ConcatProperties DEF Send, TypeOK
    <3>3. UNCHANGED <<m_read_buf, m_checked_idx, m_start_line, m_check_state, m_method,
                      m_content_length, m_content, pc, read_ret, handled, stale, clean>>
      BY <2>2 DEF Send, packet, ghost
    <3> QED BY <2>0, <3>2, <3>3 DEF Sound, TypeOK, Content, m_read_idx
  <2>3. ASSUME NEW n \in 1..READ_BUFFER_SIZE, read(n) PROVE Sound'
    <3>1. n \in 0..Len(wire) /\ wire \in Seq(Symbols) /\ m_read_buf \in Seq(Symbols)
      BY <2>0, <2>3 DEF read, TypeOK
    <3>2. /\ SubSeq(wire, 1, n) \in Seq(Symbols) /\ Len(SubSeq(wire, 1, n)) = n
          /\ Drop(wire, n) \in Seq(Symbols)
      BY <3>1, Parts
    <3>3. wire' \in Seq(Symbols)
      BY <2>3, <3>2 DEF read, Drop
    <3>4. /\ m_read_buf' \in Seq(Symbols) /\ Len(m_read_buf') = Len(m_read_buf) + n
      BY <2>3, <3>1, <3>2, ConcatProperties DEF read
    <3>5. m_read_idx' \in Nat /\ m_read_idx' <= READ_BUFFER_SIZE /\ m_read_idx <= m_read_idx'
      BY <2>1, <2>3, <3>4 DEF read, m_read_idx
    <3>6. /\ UNCHANGED <<sent, m_checked_idx, m_start_line, m_check_state, m_method,
                         m_content_length, m_content, handled, stale, clean>>
          /\ pc' = "loop" /\ read_ret' = "unset"
      BY <2>3 DEF read, packet, ghost
    <3> QED BY <2>0, <2>1, <3>3, <3>4, <3>5, <3>6 DEF Sound, TypeOK, Content
  <2>4. CASE ReadFull
    BY <2>0, <2>4 DEF ReadFull, client, packet, ghost, Sound, TypeOK, Content, m_read_idx
  <2>5. CASE NextRequest
    BY <2>0, <2>5 DEF NextRequest, client, packet, ghost, Sound, TypeOK, Content, m_read_idx
  <2>6. CASE LoopEnds
    <3>1. UNCHANGED <<sent, wire, read_ret, handled, stale, clean>> /\ pc' = "wait"
      BY <2>6 DEF LoopEnds, client, ghost
    <3>2. CASE init_read
      <4>1. m_read_idx' = 0 /\ Len(m_content') = 0
        BY <1>0, <3>2 DEF init_read, m_read_idx
      <4>2. TypeOK'
        BY <1>0, <2>0, <3>1, <3>2, <4>1 DEF init_read, TypeOK
      <4> QED BY <3>2, <4>1, <4>2 DEF init_read, Sound, Content
    <3>3. CASE UNCHANGED <<m_read_buf, m_checked_idx, m_start_line, packet>>
      BY <2>0, <3>1, <3>3 DEF packet, Sound, TypeOK, Content, m_read_idx
    <3> QED BY <2>6, <3>2, <3>3 DEF LoopEnds
  <2>7. CASE Incomplete
    <3>1. Broken \in Nat
      BY <2>1 DEF Broken
    <3>2. m_read_buf' \in Seq(Symbols) /\ Len(m_read_buf') = Broken
      BY <2>7, <3>1, GarbledType DEF Incomplete
    <3>3. Broken <= m_read_idx
      BY <2>1 DEF Broken
    <3>4. m_read_idx' = Broken /\ m_checked_idx' = Broken /\ m_start_line' = 0
      BY <2>7, <3>2 DEF Incomplete, m_read_idx
    <3>5. /\ UNCHANGED <<sent, wire, m_check_state, m_method, m_content_length, m_content,
                         handled, stale>>
          /\ pc' = "wait" /\ read_ret' = "NO_REQUEST" /\ clean' \in BOOLEAN
      BY <2>0, <2>7 DEF Incomplete, client, packet, TypeOK
    <3> QED BY <2>0, <2>1, <3>1, <3>2, <3>3, <3>4, <3>5 DEF Sound, TypeOK, Content
  <2>8. ASSUME LineOk, NextLine, UNCHANGED m_read_buf
        PROVE  /\ m_start_line' \in 0..m_checked_idx' /\ m_checked_idx' \in 0..m_read_idx'
               /\ m_read_buf' \in Seq(Symbols) /\ m_read_idx' <= READ_BUFFER_SIZE
    <3>1. LineEnd \in (m_checked_idx + 1)..m_read_idx
      BY <2>0, <2>8, LineEndIs
    <3> QED BY <2>0, <2>1, <2>8, <3>1 DEF NextLine, TypeOK, m_read_idx
  <2>9. CASE parse_type_line
    <3>1. PICK t \in Types : m_method' = t /\ m_check_state' = "HEADER"
      BY <2>9 DEF parse_type_line, Types
    <3>2. /\ UNCHANGED <<sent, wire, m_read_buf, m_content_length, m_content, pc, read_ret,
                         handled, clean>>
          /\ stale' \in BOOLEAN /\ LineOk /\ NextLine /\ m_check_state = "TYPELINE"
      BY <2>9 DEF parse_type_line, client
    <3>3. /\ m_start_line' \in 0..m_checked_idx' /\ m_checked_idx' \in 0..m_read_idx'
          /\ m_read_buf' \in Seq(Symbols) /\ m_read_idx' <= READ_BUFFER_SIZE
      BY <2>8, <3>2
    <3> QED BY <2>0, <3>1, <3>2, <3>3 DEF Sound, TypeOK, Content
  <2>10. CASE BadType
    <3>1. /\ UNCHANGED <<sent, wire, m_read_buf, m_method, m_content_length, handled, stale,
                         clean>>
          /\ LineOk /\ NextLine /\ m_check_state' = "TYPELINE" /\ m_content' = <<>>
          /\ pc' = "loop" /\ read_ret' = "done"
      BY <2>10 DEF BadType, NextPacket, client, ghost
    <3>2. /\ m_start_line' \in 0..m_checked_idx' /\ m_checked_idx' \in 0..m_read_idx'
          /\ m_read_buf' \in Seq(Symbols) /\ m_read_idx' <= READ_BUFFER_SIZE
      BY <2>8, <3>1
    <3> QED BY <2>0, <3>1, <3>2 DEF Sound, TypeOK, Content
  <2>11. CASE LengthHeader
    <3>1. /\ UNCHANGED <<sent, wire, m_read_buf, m_check_state, m_method, m_content, pc,
                         read_ret, handled, clean>>
          /\ LineOk /\ NextLine /\ stale' = FALSE /\ m_check_state = "HEADER"
          /\ m_content_length' = text[1].value
      BY <2>11 DEF LengthHeader, client
    <3>2. text[1].value \in Nat
      <4>1. Len(text) = 1 /\ text[1].kind = "length"
        BY <2>11 DEF LengthHeader
      <4>2. text[1] \in Symbols
        BY <2>0, <3>1, <4>1, TextSymbol
      <4> QED BY <4>1, <4>2, LengthValue
    <3>3. /\ m_start_line' \in 0..m_checked_idx' /\ m_checked_idx' \in 0..m_read_idx'
          /\ m_read_buf' \in Seq(Symbols) /\ m_read_idx' <= READ_BUFFER_SIZE
      BY <2>8, <3>1
    <3>4. m_content = <<>> /\ Len(m_content) = 0
      BY <1>0, <2>0, <3>1 DEF Content
    <3>5. Content'
      BY <3>1, <3>2, <3>4 DEF Content
    <3>6. TypeOK'
      BY <2>0, <3>1, <3>2, <3>3 DEF TypeOK
    <3> QED BY <3>5, <3>6 DEF Sound
  <2>12. CASE OtherHeader
    <3>1. /\ UNCHANGED <<sent, wire, m_read_buf, m_check_state, m_method, m_content_length,
                         m_content, pc, read_ret, handled, stale, clean>>
          /\ LineOk /\ NextLine
      BY <2>12 DEF OtherHeader, client, packet, ghost
    <3>2. /\ m_start_line' \in 0..m_checked_idx' /\ m_checked_idx' \in 0..m_read_idx'
          /\ m_read_buf' \in Seq(Symbols) /\ m_read_idx' <= READ_BUFFER_SIZE
      BY <2>8, <3>1
    <3> QED BY <2>0, <3>1, <3>2 DEF Sound, TypeOK, Content
  <2>13. CASE HeadersEnd
    <3>1. /\ UNCHANGED <<sent, wire, m_read_buf, m_method, m_content_length, m_content, pc,
                         read_ret, handled, stale>>
          /\ LineOk /\ NextLine /\ m_check_state' = "CONTENT" /\ clean' \in BOOLEAN
      BY <2>0, <2>13 DEF HeadersEnd, client, TypeOK
    <3>2. /\ m_start_line' \in 0..m_checked_idx' /\ m_checked_idx' \in 0..m_read_idx'
          /\ m_read_buf' \in Seq(Symbols) /\ m_read_idx' <= READ_BUFFER_SIZE
      BY <2>8, <3>1
    <3> QED BY <2>0, <3>1, <3>2 DEF Sound, TypeOK, Content
  <2>14. ASSUME NEW content \in Seq(Symbols), do_request(content)
         PROVE  handled' \in Seq([type : Types \cup {"HBT"}, content : Seq(Symbols)])
    BY <2>0, <2>14, AppendProperties DEF do_request, TypeOK
  <2>15. CASE NoContent
    <3>1. /\ UNCHANGED <<sent, wire, m_read_buf, m_method, m_content_length, stale, clean>>
          /\ LineOk /\ NextLine /\ m_check_state' = "TYPELINE" /\ m_content' = <<>>
          /\ pc' = "loop" /\ read_ret' = "done" /\ do_request(<<>>)
      BY <2>15 DEF NoContent, NextPacket, client
    <3>2. /\ m_start_line' \in 0..m_checked_idx' /\ m_checked_idx' \in 0..m_read_idx'
          /\ m_read_buf' \in Seq(Symbols) /\ m_read_idx' <= READ_BUFFER_SIZE
      BY <2>8, <3>1
    <3>3. handled' \in Seq([type : Types \cup {"HBT"}, content : Seq(Symbols)])
      BY <1>0, <2>14, <3>1
    <3> QED BY <2>0, <3>1, <3>2, <3>3 DEF Sound, TypeOK, Content
  <2>16. CASE ContentEnds
    <3>1. /\ UNCHANGED <<sent, wire, m_read_buf, m_method, m_content_length, stale, clean>>
          /\ m_check_state' = "TYPELINE" /\ m_content' = <<>>
          /\ pc' = "loop" /\ read_ret' = "done"
          /\ m_checked_idx' = m_checked_idx + Missing
          /\ m_start_line' = m_checked_idx + Missing
      BY <2>16 DEF ContentEnds, NextPacket, client
    <3>2. Missing \in 0..Len(Buffered) /\ Len(Buffered) = m_read_idx - m_checked_idx
      <4>1. m_content_length \in Nat /\ Len(m_content) \in Nat
        BY <2>0 DEF TypeOK
      <4>2. Missing <= Len(Buffered)
        BY <2>16, <4>1 DEF ContentEnds, Missing
      <4> QED BY <2>0, <4>1, <4>2, BufferedIs DEF Content, Missing
    <3>3. m_content \o SubSeq(Buffered, 1, Missing) \in Seq(Symbols)
      <4>1. SubSeq(Buffered, 1, Missing) \in Seq(Symbols)
        BY <2>0, <3>2, BufferedIs, Parts
      <4> QED BY <2>0, <4>1, ConcatProperties DEF TypeOK
    <3>4. handled' \in Seq([type : Types \cup {"HBT"}, content : Seq(Symbols)])
      BY <2>14, <2>16, <3>3 DEF ContentEnds
    <3>5. m_checked_idx + Missing \in 0..m_read_idx
      BY <2>1, <3>2
    <3>6. m_read_idx' = m_read_idx
      BY <3>1 DEF m_read_idx
    <3> QED BY <2>0, <2>1, <3>1, <3>4, <3>5, <3>6 DEF Sound, TypeOK, Content
  <2>17. CASE ContentContinues
    <3>1. /\ UNCHANGED <<sent, wire, m_check_state, m_method, m_content_length, handled,
                         stale, clean>>
          /\ m_check_state = "CONTENT" /\ m_content' = m_content \o Buffered
          /\ m_read_buf' = <<>> /\ m_checked_idx' = 0 /\ m_start_line' = 0
          /\ pc' = "wait" /\ read_ret' = "NO_REQUEST"
      BY <2>17 DEF ContentContinues, client, ghost
    <3>2. m_content \in Seq(Symbols) /\ Buffered \in Seq(Symbols)
      BY <2>0, BufferedIs DEF TypeOK
    <3>3. m_content' \in Seq(Symbols) /\ Len(m_content') = Len(m_content) + Len(Buffered)
      BY <3>1, <3>2, ConcatProperties
    <3>4. Len(m_content') <= m_content_length
      <4>1. Len(Buffered) < m_content_length - Len(m_content)
        BY <2>17 DEF ContentContinues, Missing
      <4>2. Len(Buffered) \in Nat /\ Len(m_content) \in Nat /\ m_content_length \in Nat
        BY <2>0, <3>2 DEF TypeOK
      <4> QED BY <3>3, <4>1, <4>2
    <3>5. m_read_idx' = 0
      BY <3>1 DEF m_read_idx
    <3> QED BY <2>0, <3>1, <3>3, <3>4, <3>5 DEF Sound, TypeOK, Content
  <2>18. CASE UNCHANGED vars
    BY <2>0, <2>18 DEF vars, Sound, TypeOK, Content, m_read_idx
  <2> QED BY <2>2, <2>3, <2>4, <2>5, <2>6, <2>7, <2>9, <2>10, <2>11, <2>12, <2>13, <2>15,
            <2>16, <2>17, <2>18 DEF Next, process
<1> QED BY <1>1, <1>2, PTL DEF Spec

(* The indices stay within the buffer and in their order, whatever is      *)
(* received.                                                               *)
THEOREM TypeCorrect == Spec => []TypeOK
<1>1. Sound => TypeOK
  BY DEF Sound
<1> QED BY <1>1, SoundInvariant, PTL

(* parse_content() never copies past the m_content_length bytes it has     *)
(* allocated, and a packet is handed on with exactly as many, however the  *)
(* content was cut and whatever lines were garbled before it.              *)
THEOREM ContentCorrect == Spec => ContentFits
<1> DEFINE Fits == /\ Len(m_content') <= m_content_length'
                   /\ handled' # handled => Len(Last(handled').content) = m_content_length
<1>1. Sound /\ Sound' /\ [Next]_vars => [Fits]_vars
  <2> SUFFICES ASSUME Sound, Sound', Next PROVE Fits
    OBVIOUS
  <2>1. Len(m_content') <= m_content_length'
    BY DEF Sound, Content
  <2>2. ASSUME NEW content, do_request(content) PROVE Last(handled').content = content
    <3>1. handled \in Seq([type : Types \cup {"HBT"}, content : Seq(Symbols)])
      BY DEF Sound, TypeOK
    <3> DEFINE x == [type |-> m_method, content |-> content]
    <3>2. handled' = Append(handled, x)
      BY <2>2 DEF do_request
    <3>3. x.content = content
      OBVIOUS
    <3> HIDE DEF x
    <3>4. Len(Append(handled, x)) = Len(handled) + 1
          /\ Append(handled, x)[Len(handled) + 1] = x
      BY <3>1
    <3> QED BY <3>2, <3>3, <3>4 DEF Last
  <2>3. CASE NoContent
    <3>1. do_request(<<>>) /\ m_content_length = 0
      BY <2>3 DEF NoContent
    <3>2. Last(handled').content = <<>>
      BY <2>2, <3>1
    <3> QED BY <2>1, <3>1, <3>2
  <2>4. CASE ContentEnds
    <3> DEFINE d == SubSeq(Buffered, 1, Missing)
    <3>1. do_request(m_content \o d)
      BY <2>4 DEF ContentEnds
    <3>2. /\ m_content \in Seq(Symbols) /\ m_content_length \in Nat
          /\ Len(m_content) <= m_content_length
      BY DEF Sound, TypeOK, Content
    <3>3. Missing \in 0..Len(Buffered)
      BY <2>4, <3>2 DEF ContentEnds, Missing
    <3>4. d \in Seq(Symbols) /\ Len(d) = Missing
      BY <3>3, BufferedIs, Parts DEF Sound
    <3>5. Last(handled').content = m_content \o d
      BY <2>2, <3>1
    <3> HIDE DEF d
    <3>6. Len(m_content \o d) = Len(m_content) + Missing
      BY <3>2, <3>4, ConcatProperties
    <3> QED BY <2>1, <3>2, <3>5, <3>6 DEF Missing
  <2>5. CASE UNCHANGED handled
    BY <2>1, <2>5
  <2>6. NoContent \/ ContentEnds \/ UNCHANGED handled
    BY DEF Next, process, Send, read, ReadFull, NextRequest, LoopEnds, Incomplete,
           parse_type_line, BadType, LengthHeader, OtherHeader, HeadersEnd,
           ContentContinues, ghost
  <2> QED BY <2>3, <2>4, <2>5, <2>6
<1> QED BY <1>1, SoundInvariant, PTL DEF Spec, ContentFits

-----------------------------------------------------------------------------
(* Parsing a line. *)

(* What a sequence that is cut anywhere begins with. *)
LEMMA Begins ==
    ASSUME NEW S, NEW b \in Seq(S), NEW w \in Seq(S), NEW y \in Seq(S), NEW t \in Seq(S),
           b \o w = y \o t
    PROVE  /\ \A i \in 1..Len(b) : i <= Len(y) => b[i] = y[i]
           /\ Len(b) >= Len(y) => Drop(b, Len(y)) \o w = t
<1> DEFINE r == b \o w
<1>1. Len(b) \in Nat /\ Len(w) \in Nat /\ Len(y) \in Nat /\ Len(t) \in Nat
  BY LenProperties
<1>2. /\ Len(r) = Len(b) + Len(w)
      /\ \A i \in 1..(Len(b) + Len(w)) : r[i] = IF i <= Len(b) THEN b[i] ELSE w[i - Len(b)]
  BY ConcatProperties
<1>3. r = y \o t
  OBVIOUS
<1> HIDE DEF r
<1>4. /\ Len(r) = Len(y) + Len(t)
      /\ \A i \in 1..(Len(y) + Len(t)) : r[i] = IF i <= Len(y) THEN y[i] ELSE t[i - Len(y)]
  <2> DEFINE q == y \o t
  <2>1. /\ Len(q) = Len(y) + Len(t)
        /\ \A i \in 1..(Len(y) + Len(t)) : q[i] = IF i <= Len(y) THEN y[i] ELSE t[i - Len(y)]
    BY ConcatProperties
  <2> HIDE DEF q
  <2> QED BY <1>3, <2>1 DEF q
<1>5. \A i \in 1..Len(b) : i <= Len(y) => b[i] = y[i]
  BY <1>1, <1>2, <1>4
<1>6. Len(b) >= Len(y) => Drop(b, Len(y)) \o w = t
  BY LongerPart
<1> QED BY <1>5, <1>6

(* A line and its end. *)
LEMMA LineIs ==
    ASSUME NEW s \in Seq(Symbols)
    PROVE  /\ Eol \in Seq(Symbols) /\ s \o Eol \in Seq(Symbols)
           /\ Len(s \o Eol) = Len(s) + 2
           /\ \A i \in 1..Len(s) : (s \o Eol)[i] = s[i]
           /\ (s \o Eol)[Len(s) + 1] = CR
<1> DEFINE e == Eol
<1>1. e \in Seq(Symbols) /\ Len(e) = 2 /\ e[1] = CR
  <2>1. CR \in Symbols /\ LF \in Symbols
    BY DEF Symbols
  <2> QED BY <2>1 DEF Eol
<1> HIDE DEF e
<1>2. /\ s \o e \in Seq(Symbols) /\ Len(s \o e) = Len(s) + Len(e)
      /\ \A i \in 1..(Len(s) + Len(e)) :
            (s \o e)[i] = IF i <= Len(s) THEN s[i] ELSE e[i - Len(s)]
  BY <1>1, ConcatProperties
<1>3. Len(s) \in Nat /\ (Len(s) + 1) - Len(s) = 1 /\ ~(Len(s) + 1 <= Len(s))
  BY LenProperties
<1>4. (s \o e)[Len(s) + 1] = e[1]
  BY <1>1, <1>2, <1>3
<1>5. \A i \in 1..Len(s) : (s \o e)[i] = s[i]
  BY <1>1, <1>2, <1>3
<1> QED BY <1>1, <1>2, <1>4, <1>5 DEF e

(* A line of the stream, once it is whole in the buffer, is what get_line()*)
(* points to, and the next one follows it.                                 *)
LEMMA LineStep ==
    ASSUME TypeOK, LineOk, m_start_line = m_checked_idx,
           NEW s \in Seq(Symbols), NEW t \in Seq(Symbols),
           \A i \in 1..Len(s) : s[i] # CR /\ s[i] # LF,
           Buffered \o wire = s \o (Eol \o t)
    PROVE  /\ text = s
           /\ LineEnd = m_checked_idx + (Len(s) + 2) /\ LineEnd <= m_read_idx
           /\ Drop(m_read_buf, LineEnd) \o wire = t
<1> DEFINE b == Buffered
           c == m_checked_idx
           n == Len(s)
           y == s \o Eol
<1>1. /\ b \in Seq(Symbols) /\ Len(b) = m_read_idx - c
      /\ \A i \in 1..Len(b) : b[i] = m_read_buf[c + i]
  BY BufferedIs
<1>2. /\ c \in Nat /\ m_read_idx \in Nat /\ c <= m_read_idx /\ n \in Nat
      /\ m_read_buf \in Seq(Symbols) /\ wire \in Seq(Symbols)
      /\ m_read_idx = Len(m_read_buf)
  BY DEF TypeOK, m_read_idx
<1>3. /\ y \in Seq(Symbols) /\ Len(y) = n + 2
      /\ \A i \in 1..n : y[i] = s[i]
      /\ y[n + 1] = CR
  BY LineIs
<1>4. y \o t = s \o (Eol \o t)
  BY LineIs, Associative
<1> HIDE DEF b, y
<1>5. /\ \A i \in 1..Len(b) : i <= Len(y) => b[i] = y[i]
      /\ Len(b) >= Len(y) => Drop(b, Len(y)) \o wire = t
  <2>1. b \o wire = y \o t
    BY <1>4 DEF b
  <2> QED BY <1>1, <1>2, <1>3, <2>1, Begins, ZenonT(40)
<1>6. \A j \in c..(m_read_idx - 1) : At(j) = b[(j - c) + 1]
  <2> SUFFICES ASSUME NEW j \in c..(m_read_idx - 1) PROVE At(j) = b[(j - c) + 1]
    OBVIOUS
  <2>1. (j - c) + 1 \in 1..Len(b) /\ c + ((j - c) + 1) = j + 1
    BY <1>1, <1>2
  <2> QED BY <1>1, <2>1 DEF At
<1>7. \A j \in Ends : j - c >= n
  <2> SUFFICES ASSUME NEW j \in Ends, j - c < n PROVE FALSE
    BY <1>2 DEF Ends
  <2>1. j \in c..(m_read_idx - 1) /\ At(j) \in {CR, LF}
    BY DEF Ends
  <2>2. (j - c) + 1 \in 1..Len(b) /\ (j - c) + 1 \in 1..Len(s)
    BY <1>1, <1>2, <2>1, SMTT(30)
  <2>3. At(j) = s[(j - c) + 1]
    <3> DEFINE k == (j - c) + 1
    <3>1. At(j) = b[k]
      BY <1>6, <2>1
    <3>2. k <= Len(y)
      BY <1>2, <1>3, <2>2
    <3> HIDE DEF k
    <3>3. b[k] = y[k] /\ y[k] = s[k]
      BY <1>3, <1>5, <2>2, <3>2 DEF k
    <3> QED BY <3>1, <3>3 DEF k
  <2> QED BY <2>1, <2>2, <2>3
<1>8. First \in Ends /\ \A j \in Ends : First <= j
  BY FirstIs DEF LineOk
<1>9. Len(b) > n
  <2>1. First \in c..(m_read_idx - 1) /\ First - c >= n
    BY <1>7, <1>8 DEF Ends
  <2> QED BY <1>1, <1>2, <2>1
<1>10. At(c + n) = CR
  <2>1. c + n \in c..(m_read_idx - 1) /\ ((c + n) - c) + 1 = n + 1
    BY <1>1, <1>2, <1>9
  <2>2. n + 1 \in 1..Len(b) /\ n + 1 <= Len(y)
    BY <1>1, <1>2, <1>3, <1>9
  <2> QED BY <1>3, <1>5, <1>6, <2>1, <2>2
<1>11. First = c + n
  <2>1. c + n \in Ends
    BY <1>1, <1>2, <1>9, <1>10 DEF Ends
  <2>2. First \in c..(m_read_idx - 1)
    BY <1>8 DEF Ends
  <2>3. First <= c + n /\ First - c >= n
    BY <1>7, <1>8, <2>1
  <2> DEFINE f == First
  <2> HIDE DEF f
  <2>4. f \in c..(m_read_idx - 1)
    BY <2>2 DEF f
  <2>5. f \in Int /\ c \in Int /\ n \in Int
    BY <1>2, <2>4
  <2>6. f <= c + n /\ f - c >= n
    BY <2>3 DEF f
  <2> HIDE DEF c, n
  <2>7. f = c + n
    BY <2>5, <2>6
  <2> QED BY <2>7 DEF f
<1>12. First + 1 < m_read_idx
  BY <1>10, <1>11, Kinds DEF LineOk, CrLf, LateLf
<1>13. LineEnd = c + (n + 2) /\ LineEnd <= m_read_idx /\ Len(b) > n + 1
  <2>1. LineEnd = First + 2
    BY <1>10, <1>11 DEF LineEnd
  <2> QED BY <1>1, <1>2, <1>11, <1>12, <2>1
<1>14. Drop(m_read_buf, LineEnd) \o wire = t
  <2>1. Drop(b, n + 2) \o wire = t
    <3>1. Len(b) >= Len(y) /\ Len(y) = n + 2
      BY <1>1, <1>2, <1>3, <1>13
    <3> QED BY <1>5, <3>1
  <2>2. c \in 0..Len(m_read_buf) /\ n + 2 \in 0..(Len(m_read_buf) - c)
    BY <1>1, <1>2, <1>13
  <2>3. b = Drop(m_read_buf, c)
    BY BufferedIs DEF b
  <2>4. Drop(b, n + 2) = Drop(m_read_buf, c + (n + 2))
    BY <1>2, <2>2, <2>3, DropMore
  <2> QED BY <1>13, <2>1, <2>4
<1>15. text = s
  <2> DEFINE x == SubSeq(m_read_buf, c + 1, c + n)
  <2>1. text = x
    BY <1>2, <1>13 DEF text
  <2>2. x \in Seq(Symbols) /\ Len(x) = n /\ \A i \in 1..n : x[i] = m_read_buf[c + i]
    <3>1. c + 1 \in 1..(Len(m_read_buf) + 1) /\ c + n \in ((c + 1) - 1)..Len(m_read_buf)
      BY <1>1, <1>2, <1>9
    <3>2. /\ x \in Seq(Symbols) /\ Len(x) = (c + n) - (c + 1) + 1
          /\ \A i \in 1..((c + n) - (c + 1) + 1) : x[i] = m_read_buf[(c + 1) + i - 1]
      BY <1>2, <3>1, SubSeqProperties
    <3>3. (c + n) - (c + 1) + 1 = n
      BY <1>2
    <3>4. ASSUME NEW i \in 1..n PROVE x[i] = m_read_buf[c + i]
      <4>1. (c + 1) + i - 1 = c + i
        BY <1>2
      <4> HIDE DEF x
      <4> QED BY <3>2, <3>3, <4>1
    <3> HIDE DEF x
    <3> QED BY <3>2, <3>3, <3>4
  <2> HIDE DEF x
  <2>3. \A i \in 1..n : x[i] = s[i]
    <3> SUFFICES ASSUME NEW i \in 1..n PROVE x[i] = s[i]
      OBVIOUS
    <3>1. i \in 1..Len(b)
      BY <1>1, <1>2, <1>9
    <3>2. i <= Len(y)
      BY <1>2, <1>3
    <3> QED BY <1>1, <1>3, <1>5, <2>2, <3>1, <3>2
  <2>4. x = s
    BY <2>2, <2>3, SeqEqual
  <2> QED BY <2>1, <2>4
<1> QED BY <1>13, <1>14, <1>15

-----------------------------------------------------------------------------
(* What has been handled, and what is left of the stream. *)

(* What is received but not parsed yet, and what is not received. *)
Rest == Buffered \o wire

(* h[i] is the stream from the i-th packet on. *)
Stream(h) == /\ h[Len(sent) + 1] = <<>>
             /\ \A i \in 1..Len(sent) : h[i] \in Seq(Symbols)
             /\ \A i \in 1..Len(sent) : h[i] = Encode(sent[i]) \o h[i + 1]

(* The packets handled are the first ones sent. *)
Seen(p) == [type |-> p.type, content |-> p.content]
Handled == /\ Len(handled) <= Len(sent)
           /\ \A i \in 1..Len(handled) : handled[i] = Seen(sent[i])

(* Where parsing stands: before a packet, or in packet p with more to come.*)
AtType(more) == m_check_state = "TYPELINE" /\ Rest = more
AtHeaders(p, more) == /\ m_check_state = "HEADER" /\ stale = (m_content_length # 0)
                      /\ Rest = Headers(p, more)
AtBlank(p, more) == /\ m_check_state = "HEADER" /\ stale = FALSE
                    /\ m_content_length = Len(p.content)
                    /\ Rest = Body(p, more)
AtContent(p, more) == /\ m_check_state = "CONTENT" /\ m_content_length = Len(p.content)
                      /\ Len(m_content) < m_content_length
                      /\ m_content \o Rest = p.content \o more
Position(h) ==
    \/ AtType(h[Len(handled) + 1])
    \/ /\ Len(handled) < Len(sent)
       /\ m_method = sent[Len(handled) + 1].type
       /\ \/ AtHeaders(sent[Len(handled) + 1], h[Len(handled) + 2])
          \/ AtBlank(sent[Len(handled) + 1], h[Len(handled) + 2])
          \/ AtContent(sent[Len(handled) + 1], h[Len(handled) + 2])

(* Between two process(0) everything received is parsed; within one, lines *)
(* begin where the last ended, and its loop ends between two packets.      *)
Progress == /\ m_start_line = m_checked_idx
            /\ pc = "wait" => m_read_buf = <<>>
            /\ pc = "loop" /\ (read_ret = "unset" \/ m_check_state # "TYPELINE") =>
                  m_checked_idx < m_read_idx

Parsed == clean => Progress /\ Handled /\ \E h : Stream(h) /\ Position(h)

(* The stream is made of symbols. *)
LEMMA StreamType ==
    ASSUME TypeOK, NEW h, Stream(h)
    PROVE  \A i \in 1..(Len(sent) + 1) : h[i] \in Seq(Symbols)
<1>1. Len(sent) \in Nat
  BY DEF TypeOK
<1>2. <<>> \in Seq(Symbols)
  OBVIOUS
<1>3. ASSUME NEW i \in 1..(Len(sent) + 1) PROVE h[i] \in Seq(Symbols)
  <2>1. i = Len(sent) + 1 \/ i \in 1..Len(sent)
    BY <1>1
  <2>2. CASE i = Len(sent) + 1
    BY <1>2, <2>2 DEF Stream
  <2>3. CASE i \in 1..Len(sent)
    BY <2>3 DEF Stream
  <2> QED BY <2>1, <2>2, <2>3
<1> QED BY <1>3

(* The packet that is parsed next, and what follows it. *)
LEMMA Current ==
    ASSUME TypeOK, Len(handled) < Len(sent), NEW h, Stream(h)
    PROVE  /\ sent[Len(handled) + 1] \in Packets
           /\ h[Len(handled) + 2] \in Seq(Symbols)
           /\ h[Len(handled) + 1] = Encode(sent[Len(handled) + 1]) \o h[Len(handled) + 2]
<1>1. Len(sent) \in Nat /\ Len(handled) \in Nat /\ sent \in Seq(Packets)
  BY DEF TypeOK
<1>2. Len(handled) + 1 \in 1..Len(sent) /\ Len(handled) + 2 \in 1..(Len(sent) + 1)
      /\ (Len(handled) + 1) + 1 = Len(handled) + 2
  BY <1>1
<1>3. sent[Len(handled) + 1] \in Packets
  BY <1>1, <1>2
<1> QED BY <1>2, <1>3, StreamType DEF Stream

(* What is sent later comes after the packet that is parsed. *)
LEMMA MoreSent ==
    ASSUME NEW p \in Packets, NEW more \in Seq(Symbols), NEW x \in Seq(Symbols)
    PROVE  Body(p, more \o x) = Body(p, more) \o x
           /\ Headers(p, more \o x) = Headers(p, more) \o x
<1> DEFINE c == p.content
           n == <<Length(Len(p.content))>>
           e == Eol
           a == c \o more
           b == e \o a
           d == e \o b
<1>1. c \in Seq(Symbols)
  BY PacketSymbols
<1>2. n \in Seq(Symbols)
  BY PacketSymbols, Single
<1>3. e \in Seq(Symbols)
  BY RestSymbols
<1>4. a \in Seq(Symbols)
  BY RestSymbols
<1>5. b \in Seq(Symbols)
  BY RestSymbols DEF Body
<1>6. /\ Body(p, more) = b /\ Headers(p, more) = IF p.named THEN n \o d ELSE b
      /\ Body(p, more \o x) = e \o (c \o (more \o x))
      /\ Headers(p, more \o x) = IF p.named THEN n \o (e \o Body(p, more \o x))
                                 ELSE Body(p, more \o x)
  BY DEF Body, Headers
<1> HIDE DEF c, n, e
<1>7. a \o x = c \o (more \o x)
  BY <1>1, Associative
<1> HIDE DEF a
<1>8. b \o x = e \o (a \o x)
  BY <1>3, <1>4, Associative
<1> HIDE DEF b
<1>9. d \in Seq(Symbols) /\ d \o x = e \o (b \o x)
  BY <1>3, <1>5, Associative, ConcatProperties
<1> HIDE DEF d
<1>10. (n \o d) \o x = n \o (d \o x)
  BY <1>2, <1>9, Associative
<1> QED BY <1>6, <1>7, <1>8, <1>9, <1>10

(* A line of the headers that is whole in the buffer. *)
LEMMA HeaderLine ==
    ASSUME TypeOK, LineOk, m_start_line = m_checked_idx,
           NEW p \in Packets, NEW more \in Seq(Symbols)
    PROVE  /\ Rest = Body(p, more) =>
                 text = <<>> /\ Drop(m_read_buf, LineEnd) \o wire = p.content \o more
           /\ Rest = Headers(p, more) /\ p.named =>
                 /\ text = <<Length(Len(p.content))>>
                 /\ Drop(m_read_buf, LineEnd) \o wire = Body(p, more)
<1>1. p.content \o more \in Seq(Symbols) /\ Body(p, more) \in Seq(Symbols)
      /\ Eol \in Seq(Symbols)
  BY RestSymbols
<1>2. ASSUME Rest = Body(p, more)
      PROVE  text = <<>> /\ Drop(m_read_buf, LineEnd) \o wire = p.content \o more
  <2> DEFINE t == p.content \o more
             x == Eol \o t
             s == <<>>
  <2>1. s \in Seq(Symbols) /\ Len(s) = 0
    OBVIOUS
  <2>2. x \in Seq(Symbols)
    BY <1>1 DEF Body
  <2>3. Rest = x
    BY <1>2 DEF Body
  <2> HIDE DEF t, x
  <2>4. Buffered \o wire = s \o x
    BY <2>2, <2>3, ConcatEmptySeq DEF Rest
  <2> HIDE DEF s
  <2>5. Buffered \o wire = s \o (Eol \o t)
    BY <2>4 DEF x
  <2>6. t \in Seq(Symbols)
    BY <1>1 DEF t
  <2>7. \A i \in 1..Len(s) : s[i] # CR /\ s[i] # LF
    BY <2>1
  <2>8. text = s /\ Drop(m_read_buf, LineEnd) \o wire = t
    BY <2>1, <2>5, <2>6, <2>7, LineStep
  <2> QED BY <2>8 DEF s, t
<1>3. ASSUME Rest = Headers(p, more), p.named
      PROVE  /\ text = <<Length(Len(p.content))>>
             /\ Drop(m_read_buf, LineEnd) \o wire = Body(p, more)
  <2> DEFINE s == <<Length(Len(p.content))>>
             t == Body(p, more)
  <2>1. s \in Seq(Symbols) /\ Len(s) = 1 /\ s[1] = Length(Len(p.content))
    BY PacketSymbols, Single
  <2>2. Buffered \o wire = s \o (Eol \o t)
    BY <1>3 DEF Rest, Headers
  <2> HIDE DEF s, t
  <2>3. \A i \in 1..Len(s) : s[i] # CR /\ s[i] # LF
    BY <2>1, Kinds
  <2>4. t \in Seq(Symbols)
    BY <1>1 DEF t
  <2>5. text = s /\ Drop(m_read_buf, LineEnd) \o wire = t
    BY <2>1, <2>2, <2>3, <2>4, LineStep
  <2> QED BY <2>5 DEF s, t
<1> QED BY <1>2, <1>3

(* The line of a packet's type that is whole in the buffer. *)
LEMMA TypeLine ==
    ASSUME TypeOK, LineOk, m_start_line = m_checked_idx,
           NEW p \in Packets, NEW more \in Seq(Symbols), Rest = Encode(p) \o more
    PROVE  /\ text = <<Word(p.type)>>
           /\ Drop(m_read_buf, LineEnd) \o wire = Headers(p, more)
<1> DEFINE s == <<Word(p.type)>>
           t == Headers(p, more)
<1>1. s \in Seq(Symbols) /\ Len(s) = 1 /\ s[1] = Word(p.type)
  BY PacketSymbols, Single
<1>2. t \in Seq(Symbols)
  BY RestSymbols
<1>3. Buffered \o wire = s \o (Eol \o t)
  BY EncodeIs DEF Rest
<1> HIDE DEF s, t
<1>4. \A i \in 1..Len(s) : s[i] # CR /\ s[i] # LF
  BY <1>1, Kinds
<1>5. text = s /\ Drop(m_read_buf, LineEnd) \o wire = t
  BY <1>1, <1>2, <1>3, <1>4, LineStep
<1> QED BY <1>5 DEF s, t

(* The content that is whole in the buffer. *)
LEMMA ContentStep ==
    ASSUME TypeOK, NEW c \in Seq(Symbols), NEW more \in Seq(Symbols),
           m_content \o Rest = c \o more, Len(m_content) <= Len(c),
           Len(Buffered) >= Len(c) - Len(m_content)
    PROVE  LET n == Len(c) - Len(m_content)
           IN  /\ m_content \o SubSeq(Buffered, 1, n) = c
               /\ Drop(m_read_buf, m_checked_idx + n) \o wire = more
<1> DEFINE n == Len(c) - Len(m_content)
           b == Buffered
           d == Drop(c, Len(m_content))
<1>1. m_content \in Seq(Symbols) /\ wire \in Seq(Symbols) /\ m_read_buf \in Seq(Symbols)
  BY DEF TypeOK
<1>2. /\ b = Drop(m_read_buf, m_checked_idx) /\ b \in Seq(Symbols)
      /\ Len(b) = Len(m_read_buf) - m_checked_idx
  BY BufferedIs DEF m_read_idx
<1>3. m_checked_idx \in 0..Len(m_read_buf) /\ Len(m_content) \in Nat /\ Len(c) \in Nat
      /\ Len(m_read_buf) \in Nat
  BY <1>1 DEF TypeOK, m_read_idx
<1> HIDE DEF b
<1>4. Rest \in Seq(Symbols) /\ Rest = b \o wire
  BY <1>1, <1>2, ConcatProperties DEF Rest, b
<1>5. SubSeq(c, 1, Len(m_content)) = m_content /\ d \o more = Rest
  BY <1>1, <1>4, LongerPart
<1>6. d \in Seq(Symbols) /\ Len(d) = n /\ SubSeq(c, 1, Len(m_content)) \o d = c
  BY <1>3, Parts
<1> HIDE DEF d
<1>7. n \in Nat /\ n <= Len(b)
  BY <1>3 DEF b
<1>8. SubSeq(b, 1, Len(d)) = d /\ Drop(b, Len(d)) \o wire = more
  <2>1. b \o wire = d \o more /\ Len(d) <= Len(b)
    BY <1>4, <1>5, <1>6, <1>7
  <2> QED BY <1>1, <1>2, <1>6, <2>1, LongerPart
<1>9. Drop(b, n) = Drop(m_read_buf, m_checked_idx + n)
  <2>1. n \in 0..(Len(m_read_buf) - m_checked_idx)
    BY <1>2, <1>7
  <2> QED BY <1>1, <1>2, <1>3, <2>1, DropMore
<1> QED BY <1>5, <1>6, <1>8, <1>9 DEF b

(* Where parsing stands when nothing but the stream's end has changed. *)
SamePlace == UNCHANGED <<sent, handled, m_check_state, m_method, m_content_length,
                         m_content, stale>> /\ Rest' = Rest

LEMMA PlaceKept ==
    ASSUME SamePlace, Handled, NEW h, Stream(h), Position(h)
    PROVE  Handled' /\ Stream(h)' /\ Position(h)'
<1>1. Handled'
  BY DEF SamePlace, Handled
<1>2. Stream(h)'
  BY DEF SamePlace, Stream
<1>3. Position(h)'
  BY DEF SamePlace, Position, AtType, AtHeaders, AtBlank, AtContent
<1> QED BY <1>1, <1>2, <1>3

(* A packet is sent: its symbols come last. *)
LEMMA SendStep ==
    ASSUME TypeOK, Handled, NEW h, Stream(h), Position(h),
           NEW p \in Packets, Send(p)
    PROVE  Handled' /\ \E g : Stream(g)' /\ Position(g)'
<1> DEFINE x == Encode(p)
           N == Len(sent)
           k == Len(handled)
<1>1. x \in Seq(Symbols) /\ wire \in Seq(Symbols)
  BY PacketSymbols DEF TypeOK
<1>2. /\ N \in Nat /\ k \in Nat /\ k <= N /\ sent \in Seq(Packets)
  BY DEF TypeOK, Handled
<1>3. \A i \in 1..(N + 1) : h[i] \in Seq(Symbols)
  BY StreamType
<1>4. /\ UNCHANGED <<m_read_buf, m_checked_idx, m_start_line, m_check_state, m_method,
                     m_content_length, m_content, handled, stale>>
      /\ sent' = Append(sent, p) /\ wire' = wire \o x
  BY DEF Send, packet, ghost
<1> HIDE DEF x
<1>5. Len(sent') = N + 1 /\ sent'[N + 1] = p /\ \A i \in 1..N : sent'[i] = sent[i]
  BY <1>2, <1>4, AppendProperties
<1>6. Handled'
  <2>1. \A i \in 1..k : sent'[i] = sent[i]
    BY <1>2, <1>5
  <2> QED BY <1>2, <1>4, <1>5, <2>1 DEF Handled
<1>7. Rest' = Rest \o x
  <2>1. Buffered' = Buffered
    BY <1>4 DEF Buffered, m_read_idx
  <2>2. Buffered \in Seq(Symbols)
    BY BufferedIs
  <2>3. (Buffered \o wire) \o x = Buffered \o (wire \o x)
    BY <1>1, <2>2, Associative
  <2> QED BY <1>4, <2>1, <2>3 DEF Rest
<1>8. PICK g : g[N + 2] = <<>> /\ \A i \in 1..(N + 1) : g[i] = h[i] \o x
  <2> DEFINE f == [i \in 1..(N + 2) |-> IF i = N + 2 THEN <<>> ELSE h[i] \o x]
  <2>1. f[N + 2] = <<>> /\ \A i \in 1..(N + 1) : f[i] = h[i] \o x
    BY <1>2
  <2> QED BY <2>1
<1>9. Stream(g)'
  <2>1. ASSUME NEW i \in 1..(N + 1) PROVE g[i] \in Seq(Symbols)
    BY <1>1, <1>3, <1>8, ConcatProperties
  <2>2. ASSUME NEW i \in 1..N PROVE g[i] = Encode(sent'[i]) \o g[i + 1]
    <3>1. i \in 1..(N + 1) /\ i + 1 \in 1..(N + 1)
      BY <1>2
    <3>2. sent[i] \in Packets /\ sent'[i] = sent[i]
      BY <1>2, <1>5
    <3> DEFINE y == Encode(sent[i])
               z == h[i + 1]
    <3>3. y \in Seq(Symbols) /\ z \in Seq(Symbols)
      BY <1>3, <3>1, <3>2, PacketSymbols
    <3>4. h[i] = y \o z
      BY DEF Stream
    <3>5. g[i] = h[i] \o x /\ g[i + 1] = z \o x
      BY <1>8, <3>1
    <3> HIDE DEF y, z
    <3>6. (y \o z) \o x = y \o (z \o x)
      BY <1>1, <3>3, Associative
    <3> QED BY <3>2, <3>4, <3>5, <3>6 DEF y
  <2>3. g[N + 1] = Encode(sent'[N + 1]) \o g[(N + 1) + 1]
    <3>1. h[N + 1] = <<>> /\ g[N + 1] = h[N + 1] \o x /\ (N + 1) + 1 = N + 2
      <4>1. N + 1 \in 1..(N + 1) /\ (N + 1) + 1 = N + 2
        BY <1>2
      <4> QED BY <1>8, <4>1 DEF Stream
    <3>2. <<>> \o x = x /\ x \o <<>> = x
      BY <1>1, ConcatEmptySeq
    <3> QED BY <1>5, <1>8, <3>1, <3>2 DEF x
  <2>4. \A i \in 1..(N + 1) : i \in 1..N \/ i = N + 1
    BY <1>2
  <2>5. g[(N + 1) + 1] = <<>>
    <3>1. (N + 1) + 1 = N + 2
      BY <1>2
    <3> QED BY <1>8, <3>1
  <2>6. \A i \in 1..(N + 1) : g[i] = Encode(sent'[i]) \o g[i + 1]
    BY <2>2, <2>3, <2>4
  <2> QED BY <1>5, <2>1, <2>5, <2>6 DEF Stream
<1>10. Position(g)'
  <2>1. CASE AtType(h[k + 1])
    <3>1. k + 1 \in 1..(N + 1)
      BY <1>2
    <3>2. AtType(g[k + 1])'
      BY <1>4, <1>7, <1>8, <2>1, <3>1 DEF AtType
    <3> QED BY <1>4, <3>2 DEF Position
  <2>2. ASSUME k < N, m_method = sent[k + 1].type
        PROVE  /\ sent[k + 1] \in Packets /\ h[k + 2] \in Seq(Symbols)
               /\ g[k + 2] = h[k + 2] \o x
               /\ Len(handled') < Len(sent') /\ m_method' = sent'[k + 1].type
               /\ sent'[k + 1] = sent[k + 1]
    <3>1. k + 1 \in 1..N /\ k + 2 \in 1..(N + 1)
      BY <1>2, <2>2
    <3>2. sent'[k + 1] = sent[k + 1] /\ sent[k + 1] \in Packets
      BY <1>2, <1>5, <3>1
    <3> QED BY <1>2, <1>3, <1>4, <1>5, <1>8, <2>2, <3>1, <3>2, SMTT(30)
  <2> DEFINE q == sent[k + 1]
             m == h[k + 2]
  <2>3. ASSUME k < N, m_method = q.type, AtHeaders(q, m) PROVE Position(g)'
    <3>1. Headers(q, m \o x) = Headers(q, m) \o x
      BY <1>1, <2>2, <2>3, MoreSent
    <3>2. AtHeaders(sent[k + 1], g[k + 2])'
      BY <1>4, <1>7, <2>2, <2>3, <3>1 DEF AtHeaders
    <3> QED BY <1>4, <2>2, <2>3, <3>2 DEF Position
  <2>4. ASSUME k < N, m_method = q.type, AtBlank(q, m) PROVE Position(g)'
    <3>1. Body(q, m \o x) = Body(q, m) \o x
      BY <1>1, <2>2, <2>4, MoreSent
    <3>2. AtBlank(sent[k + 1], g[k + 2])'
      BY <1>4, <1>7, <2>2, <2>4, <3>1 DEF AtBlank
    <3> QED BY <1>4, <2>2, <2>4, <3>2 DEF Position
  <2>5. ASSUME k < N, m_method = q.type, AtContent(q, m) PROVE Position(g)'
    <3>1. q \in Packets /\ m \in Seq(Symbols) /\ g[k + 2] = m \o x
          /\ sent'[k + 1] = q
      BY <2>2, <2>5
    <3>2. q.content \in Seq(Symbols)
      BY <3>1, PacketSymbols
    <3> DEFINE c == q.content
    <3>3. c \o (m \o x) = (c \o m) \o x
      BY <1>1, <3>1, <3>2, Associative
    <3>4. m_content \o (Rest \o x) = (m_content \o Rest) \o x
      <4>1. Rest \in Seq(Symbols) /\ m_content \in Seq(Symbols)
        BY <1>1, BufferedIs, ConcatProperties DEF Rest, TypeOK
      <4> QED BY <1>1, <4>1, Associative
    <3>5. AtContent(sent[k + 1], g[k + 2])'
      BY <1>4, <1>7, <2>5, <3>1, <3>3, <3>4 DEF AtContent
    <3> QED BY <1>4, <2>2, <2>5, <3>5 DEF Position
  <2> QED BY <2>1, <2>3, <2>4, <2>5 DEF Position
<1> QED BY <1>6, <1>9, <1>10

(* Nothing is left in a buffer that is parsed, and nothing is in an empty one.*)
LEMMA RestIs ==
    ASSUME TypeOK
    PROVE  /\ m_checked_idx >= m_read_idx => Rest = wire
           /\ m_read_buf' = <<>> /\ m_checked_idx' = 0 /\ UNCHANGED wire => Rest' = wire
           /\ UNCHANGED <<m_read_buf, wire>> =>
                 Rest' = Drop(m_read_buf, m_checked_idx') \o wire
<1>1. wire \in Seq(Symbols) /\ <<>> \o wire = wire
  BY DEF TypeOK
<1>2. ASSUME m_checked_idx >= m_read_idx PROVE Rest = wire
  <2>1. Buffered \in Seq(Symbols) /\ Len(Buffered) = 0
    BY <1>2, BufferedIs DEF TypeOK, m_read_idx
  <2>2. Buffered = <<>>
    BY <2>1
  <2> QED BY <1>1, <2>2 DEF Rest
<1>3. ASSUME m_read_buf' = <<>>, m_checked_idx' = 0, UNCHANGED wire PROVE Rest' = wire
  <2>1. SubSeq(<<>>, 0 + 1, Len(<<>>)) = <<>>
    OBVIOUS
  <2>2. Buffered' = SubSeq(<<>>, 0 + 1, Len(<<>>))
    BY <1>3 DEF Buffered, m_read_idx
  <2> QED BY <1>1, <1>3, <2>1, <2>2 DEF Rest
<1>4. UNCHANGED <<m_read_buf, wire>> => Rest' = Drop(m_read_buf, m_checked_idx') \o wire
  BY DEF Rest, Buffered, Drop, m_read_idx
<1> QED BY <1>2, <1>3, <1>4

(* Receiving, and emptying a buffer that is parsed, change no place. *)
LEMMA WaitStep ==
    ASSUME Sound, Progress, Handled, NEW h, Stream(h), Position(h), clean',
           \/ \E n \in 1..READ_BUFFER_SIZE : read(n)
           \/ ReadFull \/ NextRequest \/ LoopEnds \/ Incomplete \/ ContentContinues
    PROVE  Progress' /\ Handled' /\ Stream(h)' /\ Position(h)'
<1>0. /\ TypeOK /\ m_read_buf \in Seq(Symbols) /\ wire \in Seq(Symbols)
      /\ m_read_idx \in Nat /\ m_checked_idx \in Nat /\ m_checked_idx <= m_read_idx
      /\ m_start_line = m_checked_idx /\ READ_BUFFER_SIZE \in Nat \ {0}
  BY ParserAssumption DEF Sound, TypeOK, Progress, m_read_idx
<1>1. ASSUME NEW n \in 1..READ_BUFFER_SIZE, read(n)
      PROVE  Progress' /\ Handled' /\ Stream(h)' /\ Position(h)'
  <2>1. /\ UNCHANGED <<sent, m_checked_idx, m_start_line, m_check_state, m_method,
                       m_content_length, m_content, handled, stale>>
        /\ m_read_buf' = m_read_buf \o SubSeq(wire, 1, n) /\ wire' = Drop(wire, n)
        /\ pc' = "loop" /\ n <= Len(wire)
    BY <1>1 DEF read, packet, ghost, Drop
  <2>2. m_read_buf = <<>> /\ m_checked_idx = 0
    BY <1>0, <1>1 DEF read, Progress, m_read_idx
  <2> DEFINE x == SubSeq(wire, 1, n)
  <2>3. x \in Seq(Symbols) /\ Len(x) = n /\ x \o wire' = wire
    BY <1>0, <2>1, Parts, SMTT(30)
  <2>4. m_read_buf' = x
    BY <2>1, <2>2, <2>3, ConcatEmptySeq
  <2> HIDE DEF x
  <2>5. Buffered' = x
    <3>1. Buffered' = SubSeq(x, 0 + 1, Len(x))
      BY <2>1, <2>2, <2>4 DEF Buffered, m_read_idx
    <3> QED BY <2>3, <3>1, SubSeqFull
  <2>6. Rest' = wire /\ Rest = wire
    <3>1. m_checked_idx >= m_read_idx
      BY <2>2 DEF m_read_idx
    <3> QED BY <1>0, <2>3, <2>5, <3>1, RestIs DEF Rest
  <2>7. Progress'
    BY <1>0, <2>1, <2>2, <2>3, <2>4 DEF Progress, m_read_idx
  <2>8. SamePlace
    BY <2>1, <2>6 DEF SamePlace
  <2> QED BY <2>7, <2>8, PlaceKept
<1>2. CASE ReadFull
  <2>1. m_read_idx = 0 /\ m_read_idx >= READ_BUFFER_SIZE
    BY <1>2 DEF ReadFull, Progress, m_read_idx
  <2> QED BY <1>0, <2>1
<1>3. CASE NextRequest
  <2>1. /\ UNCHANGED <<sent, wire, m_read_buf, m_checked_idx, m_start_line, m_check_state,
                       m_method, m_content_length, m_content, handled, stale>>
        /\ pc' = "line"
    BY <1>3 DEF NextRequest, client, packet, ghost
  <2>2. Progress'
    BY <1>0, <2>1 DEF Progress
  <2>3. SamePlace
    BY <2>1 DEF SamePlace, Rest, Buffered, m_read_idx
  <2> QED BY <2>2, <2>3, PlaceKept
<1>4. CASE LoopEnds
  <2>1. /\ UNCHANGED <<sent, wire, handled, stale>> /\ pc' = "wait"
        /\ pc = "loop" /\ m_checked_idx >= m_read_idx
    BY <1>4 DEF LoopEnds, client, ghost
  <2>2. read_ret # "unset" /\ m_check_state = "TYPELINE"
    BY <1>0, <2>1 DEF Progress
  <2>3. init_read
    BY <1>4, <2>2 DEF LoopEnds
  <2>4. Rest' = wire /\ Rest = wire
    BY <1>0, <2>1, <2>3, RestIs DEF init_read
  <2>5. AtType(h[Len(handled) + 1])
    BY <2>2 DEF Position, AtHeaders, AtBlank, AtContent
  <2>6. AtType(h[Len(handled) + 1])'
    BY <2>1, <2>3, <2>4, <2>5 DEF AtType, init_read
  <2>7. Progress'
    BY <2>1, <2>3 DEF Progress, init_read
  <2>8. Handled' /\ Stream(h)'
    BY <2>1 DEF Handled, Stream
  <2> QED BY <2>6, <2>7, <2>8 DEF Position
<1>5. CASE Incomplete
  <2>1. /\ UNCHANGED <<sent, wire, m_check_state, m_method, m_content_length, m_content,
                       handled, stale>>
        /\ m_read_buf' \in Garbled(m_start_line, Broken) /\ Broken = 0
        /\ m_checked_idx' = Broken /\ m_start_line' = 0 /\ pc' = "wait"
    BY <1>5 DEF Incomplete, client, packet
  <2>2. m_read_buf' = <<>>
    BY <2>1 DEF Garbled
  <2>3. m_checked_idx >= m_read_idx
    BY <1>0, <2>1 DEF Broken
  <2>4. Rest' = wire /\ Rest = wire
    BY <1>0, <2>1, <2>2, <2>3, RestIs
  <2>5. Progress'
    BY <2>1, <2>2 DEF Progress
  <2>6. SamePlace
    BY <2>1, <2>4 DEF SamePlace
  <2> QED BY <2>5, <2>6, PlaceKept
<1>6. CASE ContentContinues
  <2>1. /\ UNCHANGED <<sent, wire, m_check_state, m_method, m_content_length, handled, stale>>
        /\ m_check_state = "CONTENT" /\ Len(Buffered) < Missing
        /\ m_content' = m_content \o Buffered
        /\ m_read_buf' = <<>> /\ m_checked_idx' = 0 /\ m_start_line' = 0 /\ pc' = "wait"
    BY <1>6 DEF ContentContinues, client, ghost
  <2> DEFINE p == sent[Len(handled) + 1]
             m == h[Len(handled) + 2]
  <2>2. Len(handled) < Len(sent) /\ m_method = p.type /\ AtContent(p, m)
    BY <2>1 DEF Position, AtType, AtHeaders, AtBlank
  <2>3. Rest' = wire
    BY <1>0, <2>1, RestIs
  <2>4. m_content \in Seq(Symbols) /\ Buffered \in Seq(Symbols) /\ m_content_length \in Nat
    BY <1>0, BufferedIs DEF TypeOK
  <2>5. m_content' \o Rest' = m_content \o Rest
    <3>1. (m_content \o Buffered) \o wire = m_content \o (Buffered \o wire)
      BY <1>0, <2>4, Associative
    <3> QED BY <2>1, <2>3, <3>1 DEF Rest
  <2>6. Len(m_content') < m_content_length
    <3>1. Len(m_content') = Len(m_content) + Len(Buffered)
      BY <2>1, <2>4, ConcatProperties
    <3>2. Len(m_content) \in Nat /\ Len(Buffered) \in Nat
      BY <2>4, LenProperties
    <3> QED BY <2>1, <2>4, <3>1, <3>2 DEF Missing
  <2>7. AtContent(p, m)'
    BY <2>1, <2>2, <2>5, <2>6 DEF AtContent
  <2>8. Position(h)'
    BY <2>1, <2>2, <2>7 DEF Position
  <2>9. Progress' /\ Handled' /\ Stream(h)'
    BY <2>1 DEF Progress, Handled, Stream
  <2> QED BY <2>8, <2>9
<1> QED BY <1>1, <1>2, <1>3, <1>4, <1>5, <1>6

(* A line is parsed: what is left begins after it. *)
LEMMA LineTaken ==
    ASSUME TypeOK, Progress, LineOk, NextLine, UNCHANGED <<m_read_buf, wire>>
    PROVE  /\ Rest' = Drop(m_read_buf, LineEnd) \o wire
           /\ m_start_line' = m_checked_idx'
           /\ m_checked_idx < m_read_idx
<1>1. m_checked_idx' = LineEnd /\ m_start_line' = LineEnd
  BY DEF NextLine
<1>2. Rest' = Drop(m_read_buf, LineEnd) \o wire
  BY <1>1, RestIs
<1>3. LineEnd \in (m_checked_idx + 1)..m_read_idx
  BY LineEndIs
<1>4. m_checked_idx \in Nat /\ m_read_idx \in Nat
  BY DEF TypeOK, m_read_idx
<1> QED BY <1>1, <1>2, <1>3, <1>4

(* A packet is handled: parsing stands before the next one. *)
LEMMA HandledStep ==
    ASSUME TypeOK, Handled, NEW h, Stream(h), Len(handled) < Len(sent),
           m_method = sent[Len(handled) + 1].type,
           do_request(sent[Len(handled) + 1].content), UNCHANGED sent,
           m_check_state' = "TYPELINE", Rest' = h[Len(handled) + 2]
    PROVE  Handled' /\ Stream(h)' /\ Position(h)'
<1> DEFINE k == Len(handled)
           x == [type |-> m_method, content |-> sent[k + 1].content]
<1>1. k \in Nat /\ Len(sent) \in Nat /\ k + 1 <= Len(sent)
  BY DEF TypeOK
<1>2. x = Seen(sent[k + 1])
  BY DEF Seen
<1>3. handled' = Append(handled, x)
  BY DEF do_request
<1> HIDE DEF x
<1>4. /\ Len(handled') = k + 1 /\ handled'[k + 1] = x
      /\ \A i \in 1..k : handled'[i] = handled[i]
  <2>1. handled \in Seq([type : Types \cup {"HBT"}, content : Seq(Symbols)])
    BY DEF TypeOK
  <2> QED BY <1>3, <2>1
<1>5. \A i \in 1..(k + 1) : handled'[i] = Seen(sent[i])
  <2>1. ASSUME NEW i \in 1..(k + 1) PROVE handled'[i] = Seen(sent[i])
    <3>1. i \in 1..k \/ i = k + 1
      BY <1>1
    <3> QED BY <1>2, <1>4, <3>1 DEF Handled
  <2> QED BY <2>1
<1>6. Handled'
  BY <1>1, <1>4, <1>5 DEF Handled
<1>7. Stream(h)'
  BY DEF Stream
<1>8. (k + 1) + 1 = k + 2
  BY <1>1
<1>9. Position(h)'
  BY <1>4, <1>8 DEF Position, AtType
<1> QED BY <1>6, <1>7, <1>9

(* Parsing one line of a clean stream. *)
LEMMA ParseStep ==
    ASSUME Sound, clean, Progress, Handled, NEW h, Stream(h), Position(h), clean',
           \/ parse_type_line \/ BadType \/ LengthHeader \/ OtherHeader
           \/ HeadersEnd \/ NoContent
    PROVE  Progress' /\ Handled' /\ Stream(h)' /\ Position(h)'
<1> DEFINE k == Len(handled)
           p == sent[k + 1]
           m == h[k + 2]
<1>0. /\ TypeOK /\ m_start_line = m_checked_idx /\ pc = "line" /\ LineOk /\ NextLine
      /\ UNCHANGED <<sent, wire, m_read_buf>>
  BY DEF Sound, Progress, parse_type_line, BadType, LengthHeader, OtherHeader,
         HeadersEnd, NoContent, client
<1>1. /\ Rest' = Drop(m_read_buf, LineEnd) \o wire /\ m_start_line' = m_checked_idx'
      /\ m_checked_idx < m_read_idx
  BY <1>0, LineTaken
<1>2. Stream(h)'
  BY <1>0 DEF Stream
<1>3. /\ m_method \in Types \cup {"HBT"} /\ m_content_length \in Nat
      /\ stale \in BOOLEAN /\ Len(sent) \in Nat /\ k \in Nat
  BY <1>0 DEF TypeOK
<1>4. ASSUME k < Len(sent)
      PROVE  /\ p \in Packets /\ m \in Seq(Symbols) /\ h[k + 1] = Encode(p) \o m
             /\ Rest = Body(p, m) => text = <<>> /\ Rest' = p.content \o m
             /\ Rest = Headers(p, m) /\ p.named =>
                   text = <<Length(Len(p.content))>> /\ Rest' = Body(p, m)
             /\ ~p.named => Headers(p, m) = Body(p, m) /\ p.content = <<>>
  <2>1. p \in Packets /\ m \in Seq(Symbols) /\ h[k + 1] = Encode(p) \o m
    BY <1>0, <1>4, Current
  <2>2. ~p.named => Headers(p, m) = Body(p, m) /\ p.content = <<>>
    BY <2>1, ParserAssumption DEF Headers
  <2> HIDE DEF p, m
  <2>3. /\ Rest = Body(p, m) =>
              text = <<>> /\ Drop(m_read_buf, LineEnd) \o wire = p.content \o m
        /\ Rest = Headers(p, m) /\ p.named =>
              /\ text = <<Length(Len(p.content))>>
              /\ Drop(m_read_buf, LineEnd) \o wire = Body(p, m)
    BY <1>0, <2>1, HeaderLine
  <2> QED BY <1>1, <2>1, <2>2, <2>3
<1>5. ASSUME m_check_state = "TYPELINE"
      PROVE  /\ k < Len(sent) /\ p \in Packets
             /\ text = <<Word(p.type)>> /\ Rest' = Headers(p, m)
  <2>1. Rest = h[k + 1]
    BY <1>5 DEF Position, AtType, AtHeaders, AtBlank, AtContent
  <2>2. k < Len(sent)
    <3> SUFFICES ASSUME k = Len(sent) PROVE FALSE
      BY <1>3 DEF Handled
    <3>1. Rest = <<>>
      BY <2>1 DEF Stream
    <3>2. Buffered \in Seq(Symbols) /\ Len(Buffered) > 0 /\ wire \in Seq(Symbols)
      BY <1>0, <1>1, BufferedIs DEF TypeOK, m_read_idx
    <3>3. Len(Rest) = Len(Buffered) + Len(wire)
      BY <3>2, ConcatProperties DEF Rest
    <3>4. Len(wire) \in Nat /\ Len(Buffered) \in Nat /\ Len(<<>>) = 0
      BY <3>2
    <3> QED BY <3>1, <3>2, <3>3, <3>4
  <2>3. p \in Packets /\ m \in Seq(Symbols) /\ Rest = Encode(p) \o m
    BY <1>4, <2>1, <2>2
  <2> HIDE DEF p, m
  <2>4. text = <<Word(p.type)>> /\ Drop(m_read_buf, LineEnd) \o wire = Headers(p, m)
    BY <1>0, <2>3, TypeLine
  <2> QED BY <1>1, <2>2, <2>3, <2>4
<1>6. ASSUME m_check_state = "HEADER"
      PROVE  /\ k < Len(sent) /\ m_method = p.type
             /\ AtHeaders(p, m) \/ AtBlank(p, m)
  BY <1>6 DEF Position, AtType, AtContent
<1>7. \A n : IsBlank(<<>>) /\ ~IsBlank(<<Length(n)>>)
             /\ Len(<<Length(n)>>) = 1 /\ <<Length(n)>>[1].kind = "length"
  BY Kinds DEF IsBlank
<1> HIDE DEF k, p, m
<1>8. CASE parse_type_line
  <2>1. /\ m_check_state = "TYPELINE" /\ m_check_state' = "HEADER"
        /\ UNCHANGED <<m_content_length, m_content, pc, handled>>
        /\ stale' = (m_content_length # 0)
    BY <1>8 DEF parse_type_line
  <2>2. m_method' = p.type
    <3>1. PICK t : text = <<Word(t)>> /\ m_method' = t
      BY <1>8 DEF parse_type_line
    <3>2. Word(t) = Word(p.type)
      BY <1>5, <2>1, <3>1
    <3>3. t = p.type
      BY <3>2, Kinds
    <3> QED BY <3>1, <3>3
  <2>3. AtHeaders(p, m)'
    BY <1>0, <1>5, <2>1 DEF AtHeaders, p, m, k
  <2>4. Position(h)'
    BY <1>0, <1>5, <2>1, <2>2, <2>3 DEF Position, p, m, k
  <2> QED BY <1>0, <1>1, <1>2, <2>1, <2>4 DEF Progress, Handled
<1>9. CASE BadType
  <2>1. m_check_state = "TYPELINE" /\ \A t \in {q.type : q \in Packets} : text # <<Word(t)>>
    BY <1>9 DEF BadType
  <2>2. p.type \in {q.type : q \in Packets}
    BY <1>5, <2>1
  <2> QED BY <1>5, <2>1, <2>2
<1>10. CASE LengthHeader
  <2>1. /\ m_check_state = "HEADER" /\ Len(text) = 1
        /\ m_content_length' = text[1].value /\ stale' = FALSE
        /\ UNCHANGED <<m_check_state, m_method, m_content, pc, handled>>
    BY <1>10 DEF LengthHeader
  <2>2. Len(<<>>) = 0
    OBVIOUS
  <2>3. Rest # Body(p, m)
    <3> SUFFICES ASSUME Rest = Body(p, m) PROVE FALSE
      OBVIOUS
    <3>1. text = <<>>
      BY <1>4, <1>6, <2>1
    <3> QED BY <2>1, <2>2, <3>1
  <2>4. Rest = Headers(p, m) /\ p.named
    BY <1>4, <1>6, <2>1, <2>3 DEF AtHeaders, AtBlank
  <2>5. text = <<Length(Len(p.content))>> /\ Rest' = Body(p, m)
    BY <1>4, <1>6, <2>1, <2>4
  <2>6. m_content_length' = Len(p.content)
    BY <2>1, <2>5, Kinds
  <2>7. AtBlank(p, m)'
    BY <1>0, <2>1, <2>5, <2>6 DEF AtBlank, p, m, k
  <2>8. Position(h)'
    BY <1>0, <1>6, <2>1, <2>7 DEF Position, p, m, k
  <2> QED BY <1>0, <1>1, <1>2, <2>1, <2>8 DEF Progress, Handled
<1>11. CASE OtherHeader
  <2>1. /\ m_check_state = "HEADER" /\ ~IsBlank(text)
        /\ ~(Len(text) = 1 /\ text[1].kind = "length")
    BY <1>11 DEF OtherHeader
  <2>2. text = <<>> \/ text = <<Length(Len(p.content))>>
    BY <1>4, <1>6, <2>1 DEF AtHeaders, AtBlank
  <2> QED BY <1>7, <2>1, <2>2
<1>12. ASSUME m_check_state = "HEADER", IsBlank(text)
       PROVE  /\ Rest' = p.content \o m /\ k < Len(sent) /\ m_method = p.type
              /\ p \in Packets /\ m \in Seq(Symbols)
              /\ stale = FALSE => m_content_length = Len(p.content)
              /\ m_content_length = 0 => p.content = <<>>
  <2>1. Rest = Body(p, m)
    <3>1. ~(Rest = Headers(p, m) /\ p.named)
      BY <1>4, <1>6, <1>7, <1>12
    <3> QED BY <1>4, <1>6, <1>12, <3>1 DEF AtHeaders, AtBlank
  <2>2. p.content \in Seq(Symbols)
    BY <1>4, <1>6, <1>12, PacketSymbols
  <2>3. Len(p.content) = 0 => p.content = <<>>
    BY <2>2
  <2>4. CASE AtBlank(p, m)
    BY <1>4, <1>6, <1>12, <2>1, <2>3, <2>4 DEF AtBlank
  <2>5. CASE AtHeaders(p, m)
    <3>1. ~p.named
      BY <1>4, <1>6, <1>7, <1>12, <2>5 DEF AtHeaders
    <3>2. p.content = <<>> /\ Len(<<>>) = 0
      BY <1>4, <1>6, <1>12, <3>1
    <3>3. stale = FALSE => m_content_length = 0
      BY <2>5 DEF AtHeaders
    <3> QED BY <1>4, <1>6, <1>12, <2>1, <3>2, <3>3
  <2> QED BY <1>6, <1>12, <2>4, <2>5
<1>13. CASE HeadersEnd
  <2>1. /\ m_check_state = "HEADER" /\ IsBlank(text) /\ m_content_length # 0
        /\ m_check_state' = "CONTENT" /\ clean' = (clean /\ ~stale)
        /\ UNCHANGED <<m_method, m_content_length, m_content, pc, handled, stale>>
    BY <1>13 DEF HeadersEnd
  <2>2. stale = FALSE
    BY <1>3, <2>1
  <2>3. m_content = <<>> /\ Len(m_content) = 0
    BY <2>1 DEF Sound, Content
  <2>4. Rest' = p.content \o m /\ m_content_length = Len(p.content)
    BY <1>12, <2>1, <2>2
  <2>5. m_content' \o Rest' = p.content \o m
    <3> DEFINE x == p.content \o m
    <3>1. x \in Seq(Symbols)
      BY <1>12, <2>1, RestSymbols
    <3> HIDE DEF x
    <3>2. <<>> \o x = x
      BY <3>1, ConcatEmptySeq
    <3> QED BY <2>1, <2>3, <2>4, <3>2 DEF x
  <2>6. AtContent(p, m)'
    BY <1>0, <1>3, <2>1, <2>3, <2>4, <2>5 DEF AtContent, p, m, k
  <2>7. Position(h)'
    BY <1>0, <1>12, <2>1, <2>6 DEF Position, p, m, k
  <2> QED BY <1>0, <1>1, <1>2, <2>1, <2>7 DEF Progress, Handled
<1>14. CASE NoContent
  <2>1. /\ m_check_state = "HEADER" /\ IsBlank(text) /\ m_content_length = 0
        /\ do_request(<<>>) /\ m_check_state' = "TYPELINE"
        /\ pc' = "loop" /\ read_ret' = "done"
    BY <1>14 DEF NoContent, NextPacket
  <2>2. p.content = <<>> /\ Rest' = p.content \o m /\ m \in Seq(Symbols)
        /\ k < Len(sent) /\ m_method = p.type
    BY <1>12, <2>1
  <2>3. Rest' = m
    BY <2>2, ConcatEmptySeq
  <2>4. Handled' /\ Position(h)'
    BY <1>0, <2>1, <2>2, <2>3, HandledStep DEF p, m, k
  <2> QED BY <1>1, <1>2, <2>1, <2>4 DEF Progress
<1> QED BY <1>8, <1>9, <1>10, <1>11, <1>13, <1>14

(* The last of a packet's content is taken. *)
LEMMA ContentStepHandles ==
    ASSUME Sound, Progress, Handled, NEW h, Stream(h), Position(h), ContentEnds
    PROVE  Progress' /\ Handled' /\ Stream(h)' /\ Position(h)'
<1> DEFINE k == Len(handled)
           p == sent[k + 1]
           m == h[k + 2]
           c == p.content
<1>1. /\ TypeOK /\ UNCHANGED <<sent, wire, m_read_buf>> /\ m_check_state = "CONTENT"
      /\ Len(Buffered) >= Missing
      /\ do_request(m_content \o SubSeq(Buffered, 1, Missing))
      /\ m_checked_idx' = m_checked_idx + Missing
      /\ m_start_line' = m_checked_idx + Missing
      /\ m_check_state' = "TYPELINE" /\ pc' = "loop" /\ read_ret' = "done"
  BY DEF Sound, ContentEnds, NextPacket, client
<1>2. k < Len(sent) /\ m_method = p.type /\ AtContent(p, m)
  BY <1>1 DEF Position, AtType, AtHeaders, AtBlank
<1>3. p \in Packets /\ m \in Seq(Symbols)
  BY <1>1, <1>2, Current
<1>4. c \in Seq(Symbols)
  BY <1>3, PacketSymbols
<1>5. /\ m_content \o Rest = c \o m /\ m_content_length = Len(c)
      /\ Len(m_content) <= Len(c) /\ Missing = Len(c) - Len(m_content)
  BY <1>2 DEF AtContent, Missing, Sound, Content
<1> HIDE DEF k, p, m, c
<1>6. /\ m_content \o SubSeq(Buffered, 1, Missing) = c
      /\ Drop(m_read_buf, m_checked_idx + Missing) \o wire = m
  BY <1>1, <1>3, <1>4, <1>5, ContentStep
<1>7. Rest' = m
  BY <1>1, <1>6, RestIs
<1>8. do_request(c)
  BY <1>1, <1>6
<1>9. Handled' /\ Stream(h)' /\ Position(h)'
  BY <1>1, <1>2, <1>7, <1>8, HandledStep DEF p, m, k, c
<1> QED BY <1>1, <1>9 DEF Progress

(* Every step of a clean stream keeps the place in it. *)
LEMMA ParsedInvariant == Spec => []Parsed
<1>1. Init => Parsed
  <2> SUFFICES ASSUME Init PROVE Parsed
    OBVIOUS
  <2>1. /\ sent = <<>> /\ wire = <<>> /\ m_read_buf = <<>> /\ m_checked_idx = 0
        /\ m_start_line = 0 /\ m_check_state = "TYPELINE" /\ pc = "wait" /\ handled = <<>>
    BY DEF Init
  <2>2. Len(<<>>) = 0 /\ SubSeq(<<>>, 0 + 1, Len(<<>>)) = <<>> /\ <<>> \o <<>> = <<>>
    OBVIOUS
  <2>3. Rest = <<>>
    BY <2>1, <2>2 DEF Rest, Buffered, m_read_idx
  <2>4. PICK h : h[1] = <<>>
    <3>1. [i \in {1} |-> <<>>][1] = <<>>
      OBVIOUS
    <3> QED BY <3>1
  <2>5. Stream(h)
    BY <2>1, <2>2, <2>4 DEF Stream
  <2>6. Position(h)
    BY <2>1, <2>2, <2>3, <2>4 DEF Position, AtType
  <2>7. Progress /\ Handled
    BY <2>1, <2>2 DEF Progress, Handled
  <2> QED BY <2>5, <2>6, <2>7 DEF Parsed
<1>2. Sound /\ Parsed /\ [Next]_vars => Parsed'
  <2> SUFFICES ASSUME Sound, Parsed, [Next]_vars, clean'
               PROVE  Progress' /\ Handled' /\ \E h : Stream(h)' /\ Position(h)'
    BY DEF Parsed
  <2>1. TypeOK
    BY DEF Sound
  <2>2. clean
    BY <2>1 DEF Next, vars, process, Send, read, ReadFull, NextRequest, LoopEnds, Incomplete,
       parse_type_line, BadType, LengthHeader, OtherHeader, HeadersEnd, NoContent,
       ContentEnds, ContentContinues, ghost, TypeOK
  <2>3. Progress /\ Handled
    BY <2>2 DEF Parsed
  <2>4. PICK h : Stream(h) /\ Position(h)
    BY <2>2 DEF Parsed
  <2>5. ASSUME NEW p \in Packets, Send(p)
        PROVE  Progress' /\ Handled' /\ \E g : Stream(g)' /\ Position(g)'
    <3>1. Handled' /\ \E g : Stream(g)' /\ Position(g)'
      BY <2>1, <2>3, <2>4, <2>5, SendStep
    <3>2. Progress'
      BY <2>3, <2>5 DEF Send, packet, Progress, m_read_idx
    <3> QED BY <3>1, <3>2
  <2>6. CASE \/ \E n \in 1..READ_BUFFER_SIZE : read(n)
             \/ ReadFull \/ NextRequest \/ LoopEnds \/ Incomplete \/ ContentContinues
    BY <2>3, <2>4, <2>6, WaitStep
  <2>7. CASE \/ parse_type_line \/ BadType \/ LengthHeader \/ OtherHeader
             \/ HeadersEnd \/ NoContent
    BY <2>2, <2>3, <2>4, <2>7, ParseStep
  <2>8. CASE ContentEnds
    BY <2>3, <2>4, <2>8, ContentStepHandles
  <2>9. CASE UNCHANGED vars
    <3>1. SamePlace
      BY <2>9 DEF vars, SamePlace, Rest, Buffered, m_read_idx
    <3>2. Progress'
      BY <2>3, <2>9 DEF vars, Progress, m_read_idx
    <3> QED BY <2>3, <2>4, <3>1, <3>2, PlaceKept
  <2> QED BY <2>5, <2>6, <2>7, <2>8, <2>9 DEF Next, process
<1> QED BY <1>1, <1>2, SoundInvariant, PTL DEF Spec

-----------------------------------------------------------------------------
(* What has been received. *)

(* Induction, for a property that is stated as a set: the number it could  *)
(* first fail at does not exist.                                           *)
LEMMA Induction ==
    ASSUME NEW S, 0 \in S, \A n \in Nat : n \in S => n + 1 \in S
    PROVE  \A n \in Nat : n \in S
<1> SUFFICES ASSUME NEW k \in Nat, k \notin S PROVE FALSE
  OBVIOUS
<1>1. PICK n \in Nat \ S : \A m \in Nat \ S : n <= m
  BY Least
<1>2. n # 0 /\ n - 1 \in Nat /\ n - 1 \in S
  BY <1>1
<1>3. (n - 1) + 1 = n
  OBVIOUS
<1> QED BY <1>2, <1>3

(* The numbers up to some bound, if each comes with the one before it. *)
LEMMA Interval ==
    ASSUME NEW N \in Nat, NEW W \in SUBSET (1..N), \A n \in W : n > 1 => n - 1 \in W
    PROVE  \E r \in 0..N : W = 1..r
<1>1. CASE W = 1..N
  BY <1>1
<1>2. CASE W # 1..N
  <2> DEFINE M == (1..N) \ W
  <2>1. M \in SUBSET Nat /\ M # {}
    <3>1. \E n \in 1..N : n \notin W
      BY <1>2
    <3> QED BY <3>1
  <2>2. PICK b \in M : \A n \in M : b <= n
    BY <2>1, Least
  <2>3. \A n \in 1..(b - 1) : n \in W
    BY <2>2
  <2> DEFINE Out == {j \in Nat : b + j \notin W}
  <2>4. 0 \in Out
    BY <2>2
  <2>5. \A j \in Nat : j \in Out => j + 1 \in Out
    <3> SUFFICES ASSUME NEW j \in Nat, b + j \notin W, b + (j + 1) \in W PROVE FALSE
      OBVIOUS
    <3>1. b + (j + 1) > 1 /\ (b + (j + 1)) - 1 = b + j
      BY <2>2
    <3> QED BY <3>1
  <2>6. \A j \in Nat : j \in Out
    <3> HIDE DEF Out
    <3> QED BY <2>4, <2>5, Induction
  <2>7. ASSUME NEW n \in W PROVE n \in 1..(b - 1)
    <3> SUFFICES ASSUME n >= b PROVE FALSE
      BY <2>2
    <3>1. n - b \in Nat /\ b + (n - b) = n
      BY <2>2
    <3> QED BY <2>6, <3>1
  <2>8. b - 1 \in 0..N
    BY <2>2
  <2>9. W = 1..(b - 1)
    <3> HIDE DEF M, Out
    <3> QED BY <2>3, <2>7
  <2> QED BY <2>8, <2>9
<1> QED BY <1>1, <1>2

(* How long a packet is, and what follows it. *)
LEMMA Lengths ==
    ASSUME NEW p \in Packets, NEW more \in Seq(Symbols)
    PROVE  /\ Len(Encode(p)) \in Nat
           /\ Len(Encode(p) \o more) = Len(Encode(p)) + Len(more)
           /\ Len(Headers(p, more)) < Len(Encode(p) \o more)
           /\ Len(Body(p, more)) <= Len(Headers(p, more))
           /\ Len(p.content) + Len(more) < Len(Body(p, more))
           /\ Len(p.content) \in Nat /\ Len(more) \in Nat
<1> DEFINE x == Encode(p)
           w == <<Word(p.type)>>
           t == Headers(p, more)
           y == Eol \o t
<1>1. x \in Seq(Symbols) /\ Len(x) \in Nat /\ Len(more) \in Nat
  BY PacketSymbols, LenProperties
<1>2. p.content \in Seq(Symbols) /\ Len(p.content) \in Nat
  BY PacketSymbols, LenProperties
<1>3. w \in Seq(Symbols) /\ Len(w) = 1
  BY PacketSymbols, Single
<1>4. t \in Seq(Symbols) /\ Eol \in Seq(Symbols) /\ Len(Eol) = 2
  BY RestSymbols
<1>5. /\ Len(Body(p, more)) = 2 + (Len(p.content) + Len(more))
      /\ Len(Body(p, more)) <= Len(t)
  BY RestSymbols, LenProperties
<1>6. x \o more = w \o y
  BY EncodeIs
<1> HIDE DEF x, w, t
<1>7. Len(x \o more) = Len(x) + Len(more)
  BY <1>1, ConcatProperties
<1>8. y \in Seq(Symbols) /\ Len(y) = 2 + Len(t)
  BY <1>4, TwoMore
<1> HIDE DEF y
<1>9. Len(w \o y) = Len(w) + Len(y)
  BY <1>3, <1>8, ConcatProperties
<1>10. Len(t) \in Nat
  BY <1>4, LenProperties
<1>11. Len(t) < Len(x \o more)
  BY <1>3, <1>6, <1>8, <1>9, <1>10
<1>12. Len(p.content) + Len(more) < Len(Body(p, more))
  BY <1>1, <1>2, <1>5
<1> QED BY <1>1, <1>2, <1>5, <1>7, <1>11, <1>12 DEF x, t

(* The stream gets shorter from packet to packet. *)
LEMMA Shorter ==
    ASSUME TypeOK, NEW h, Stream(h), NEW i \in 1..Len(sent)
    PROVE  /\ Len(h[i]) \in Nat /\ Len(h[i + 1]) \in Nat
           /\ Len(h[i]) = Len(Encode(sent[i])) + Len(h[i + 1])
           /\ Len(h[i + 1]) < Len(h[i])
<1>1. Len(sent) \in Nat /\ sent[i] \in Packets
  BY DEF TypeOK
<1>2. i + 1 \in 1..(Len(sent) + 1) /\ i \in 1..(Len(sent) + 1)
  BY <1>1
<1>3. h[i] \in Seq(Symbols) /\ h[i + 1] \in Seq(Symbols)
  BY <1>2, StreamType
<1>4. h[i] = Encode(sent[i]) \o h[i + 1]
  BY DEF Stream
<1> DEFINE p == sent[i]
           m == h[i + 1]
<1>5. p \in Packets /\ m \in Seq(Symbols)
  BY <1>1, <1>3
<1> HIDE DEF p, m
<1>6. /\ Len(Encode(p) \o m) = Len(Encode(p)) + Len(m)
      /\ Len(Headers(p, m)) < Len(Encode(p) \o m)
      /\ Len(Body(p, m)) <= Len(Headers(p, m))
      /\ Len(p.content) + Len(m) < Len(Body(p, m))
      /\ Len(p.content) \in Nat /\ Len(m) \in Nat
  BY <1>5, Lengths
<1>7. Headers(p, m) \in Seq(Symbols) /\ Body(p, m) \in Seq(Symbols)
      /\ Encode(p) \o m \in Seq(Symbols)
  BY <1>3, <1>4, <1>5, RestSymbols DEF p, m
<1>8. Len(Headers(p, m)) \in Nat /\ Len(Body(p, m)) \in Nat /\ Len(Encode(p) \o m) \in Nat
  BY <1>7, LenProperties
<1>9. Len(m) < Len(Encode(p) \o m)
  BY <1>6, <1>8
<1> QED BY <1>4, <1>6, <1>8, <1>9 DEF p, m

(* Packets are received while less is left of the stream than follows them.*)
Whole(h) == {n \in 1..Len(sent) : Len(wire) <= Len(h[n + 1])}
LEMMA ReceivedIs ==
    ASSUME TypeOK, NEW h, Stream(h)
    PROVE  Received = [n \in Whole(h) |-> Seen(sent[n])]
<1> DEFINE N == Len(sent)
           Counts(f) == f = [n \in 0..N |->
                               IF n = 0 THEN 0 ELSE f[n - 1] + Len(Encode(sent[n]))]
           length == CHOOSE f : Counts(f)
<1>1. N \in Nat /\ sent \in Seq(Packets)
  BY DEF TypeOK
<1>2. \A i \in 1..N : /\ Len(h[i]) \in Nat /\ Len(h[i + 1]) \in Nat
                      /\ Len(h[i]) = Len(Encode(sent[i])) + Len(h[i + 1])
  BY Shorter
<1>3. \A i \in 1..N : Len(Encode(sent[i])) \in Nat
  <2> SUFFICES ASSUME NEW i \in 1..N PROVE Len(Encode(sent[i])) \in Nat
    OBVIOUS
  <2>1. sent[i] \in Packets
    BY <1>1
  <2> QED BY <2>1, PacketSymbols, LenProperties
<1>4. Counts([n \in 0..N |-> Len(h[1]) - Len(h[n + 1])])
  <2> DEFINE f == [n \in 0..N |-> Len(h[1]) - Len(h[n + 1])]
  <2>1. ASSUME NEW n \in 0..N
        PROVE  f[n] = IF n = 0 THEN 0 ELSE f[n - 1] + Len(Encode(sent[n]))
    <3>1. CASE n = 0
      <4>1. 1 \in 1..(N + 1) /\ n + 1 = 1
        BY <1>1, <3>1
      <4>2. Len(h[1]) \in Nat
        BY <4>1, StreamType, LenProperties
      <4> QED BY <3>1, <4>1, <4>2
    <3>2. CASE n # 0
      <4>1. n \in 1..N /\ n - 1 \in 0..N /\ (n - 1) + 1 = n /\ 1 \in 1..N
        BY <1>1, <3>2
      <4>2. f[n] = Len(h[1]) - Len(h[n + 1]) /\ f[n - 1] = Len(h[1]) - Len(h[n])
        BY <4>1
      <4>3. Len(h[n]) = Len(Encode(sent[n])) + Len(h[n + 1])
            /\ Len(Encode(sent[n])) \in Nat /\ Len(h[n + 1]) \in Nat /\ Len(h[1]) \in Nat
        BY <1>2, <1>3, <4>1
      <4> HIDE DEF f
      <4>4. f[n] = f[n - 1] + Len(Encode(sent[n]))
        BY <4>2, <4>3
      <4> QED BY <3>2, <4>4
    <3> QED BY <3>1, <3>2
  <2> QED BY <2>1
<1>5. Counts(length)
  <2> HIDE DEF Counts
  <2> QED BY <1>4
<1>6. /\ length[0] = 0
      /\ \A n \in 1..N : length[n] = length[n - 1] + Len(Encode(sent[n]))
  <2> HIDE DEF length
  <2>1. \A n \in 0..N : length[n] = IF n = 0 THEN 0 ELSE length[n - 1] + Len(Encode(sent[n]))
    BY <1>5
  <2> QED BY <1>1, <2>1
<1>7. Received = [n \in {n \in 1..N : length[n] <= length[N] - Len(wire)} |->
                    [type |-> sent[n].type, content |-> sent[n].content]]
  BY DEF Received
<1> HIDE DEF length, Counts
<1>8. Len(h[1]) \in Nat
  <2>1. 1 \in 1..(N + 1)
    BY <1>1
  <2> QED BY <2>1, StreamType, LenProperties
<1> DEFINE before(n) == Len(h[1]) - Len(h[n + 1])
           Same == {n \in Nat : n \in 0..N => length[n] = before(n)}
<1>9. 0 \in Same
  <2>1. 0 + 1 = 1
    OBVIOUS
  <2> QED BY <1>6, <1>8, <2>1
<1>10. \A n \in Nat : n \in Same => n + 1 \in Same
  <2> HIDE DEF before
  <2> SUFFICES ASSUME NEW n \in Nat, n \in Same, n + 1 \in 0..N
               PROVE  length[n + 1] = before(n + 1)
    OBVIOUS
  <2>1. n + 1 \in 1..N /\ n \in 0..N /\ (n + 1) - 1 = n
    BY <1>1
  <2>2. length[n] = before(n)
    BY <2>1
  <2> HIDE DEF Same
  <2>3. length[n + 1] = length[n] + Len(Encode(sent[n + 1]))
    BY <1>6, <2>1
  <2>4. /\ Len(h[n + 1]) \in Nat /\ Len(h[(n + 1) + 1]) \in Nat
        /\ Len(h[n + 1]) = Len(Encode(sent[n + 1])) + Len(h[(n + 1) + 1])
        /\ Len(Encode(sent[n + 1])) \in Nat
    BY <1>2, <1>3, <2>1
  <2> QED BY <1>8, <2>2, <2>3, <2>4 DEF before
<1>11. \A n \in 0..N : length[n] = before(n)
  <2>1. \A n \in Nat : n \in Same
    <3> HIDE DEF Same
    <3> QED BY <1>9, <1>10, Induction
  <2> HIDE DEF before
  <2> QED BY <1>1, <2>1
<1>12. length[N] = Len(h[1])
  <2>1. N \in 0..N /\ h[N + 1] = <<>> /\ Len(<<>>) = 0
    BY <1>1 DEF Stream
  <2>2. before(N) = Len(h[1]) - 0
    BY <2>1
  <2> HIDE DEF before
  <2>3. length[N] = before(N)
    BY <1>11, <2>1
  <2> QED BY <1>8, <2>2, <2>3
<1>13. {n \in 1..N : length[n] <= length[N] - Len(wire)} = Whole(h)
  <2>1. ASSUME NEW n \in 1..N
        PROVE  length[n] <= length[N] - Len(wire) <=> Len(wire) <= Len(h[n + 1])
    <3>1. n \in 0..N /\ Len(h[n + 1]) \in Nat /\ Len(wire) \in Nat
      BY <1>1, <1>2 DEF TypeOK
    <3>2. length[n] = Len(h[1]) - Len(h[n + 1])
      BY <1>11, <3>1
    <3> QED BY <1>8, <1>12, <3>1, <3>2
  <2> QED BY <2>1 DEF Whole
<1> QED BY <1>7, <1>13 DEF Seen

(* The packets received are the first ones sent. *)
LEMMA WholeIs ==
    ASSUME TypeOK, NEW h, Stream(h)
    PROVE  \E r \in 0..Len(sent) : Whole(h) = 1..r
<1> DEFINE N == Len(sent)
           W == Whole(h)
<1>1. N \in Nat /\ Len(wire) \in Nat
  BY DEF TypeOK
<1>2. W \in SUBSET (1..N)
  BY DEF Whole
<1>3. ASSUME NEW n \in W, n > 1 PROVE n - 1 \in W
  <2>1. n \in 1..N /\ Len(wire) <= Len(h[n + 1])
    BY <1>3 DEF Whole
  <2>2. n - 1 \in 1..N /\ (n - 1) + 1 = n
    BY <1>1, <1>3, <2>1
  <2>3. Len(h[n]) \in Nat /\ Len(h[n + 1]) \in Nat /\ Len(h[n + 1]) < Len(h[n])
    BY <2>1, Shorter
  <2>4. Len(wire) <= Len(h[n])
    BY <1>1, <2>1, <2>3
  <2> QED BY <2>2, <2>4 DEF Whole
<1> HIDE DEF N, W
<1>4. \E r \in 0..N : W = 1..r
  BY <1>1, <1>2, <1>3, Interval
<1> QED BY <1>4 DEF N, W

(* What is left to parse ends the current packet, or the one before it. *)
LEMMA LeftIs ==
    ASSUME TypeOK, Handled, NEW h, Stream(h), Position(h)
    PROVE  /\ Len(Rest) <= Len(h[Len(handled) + 1])
           /\ Len(handled) < Len(sent) => Len(h[Len(handled) + 2]) < Len(Rest)
<1> DEFINE k == Len(handled)
           N == Len(sent)
           p == sent[k + 1]
           m == h[k + 2]
<1>1. k \in Nat /\ N \in Nat /\ k <= N /\ k + 1 \in 1..(N + 1)
  BY DEF TypeOK, Handled
<1>2. Rest \in Seq(Symbols) /\ Len(Rest) \in Nat
  <2>1. Rest \in Seq(Symbols)
    BY BufferedIs, ConcatProperties DEF Rest, TypeOK
  <2> QED BY <2>1, LenProperties
<1>3. Len(h[k + 1]) \in Nat
  BY <1>1, StreamType, LenProperties
<1>4. CASE k = N
  <2>1. Rest = h[k + 1]
    BY <1>1, <1>4 DEF Position, AtType
  <2> QED BY <1>1, <1>3, <1>4, <2>1
<1>5. CASE k < N
  <2>1. p \in Packets /\ m \in Seq(Symbols) /\ h[k + 1] = Encode(p) \o m
    BY <1>5, Current
  <2>2. AtType(h[k + 1]) \/ AtHeaders(p, m) \/ AtBlank(p, m) \/ AtContent(p, m)
    BY DEF Position
  <2> DEFINE r == Rest
             e == Encode(p) \o m
             t == Headers(p, m)
             b == Body(p, m)
             c == p.content
  <2>3. t \in Seq(Symbols) /\ b \in Seq(Symbols) /\ c \in Seq(Symbols)
    BY <2>1, RestSymbols, PacketSymbols
  <2>4. /\ Len(t) < Len(e) /\ Len(b) <= Len(t) /\ Len(c) + Len(m) < Len(b)
        /\ Len(c) \in Nat /\ Len(m) \in Nat
    BY <2>1, Lengths
  <2>5. /\ Len(t) \in Nat /\ Len(b) \in Nat /\ Len(e) \in Nat /\ Len(r) \in Nat
    BY <1>2, <1>3, <2>1, <2>3, LenProperties
  <2>6. r = e \/ r = t \/ r = b \/ AtContent(p, m)
    BY <2>1, <2>2 DEF AtType, AtHeaders, AtBlank
  <2>7. ASSUME AtContent(p, m)
        PROVE  Len(r) <= Len(c) + Len(m) /\ Len(m) < Len(r)
    <3>1. m_content \o Rest = c \o m /\ Len(m_content) < Len(c)
      BY <2>7 DEF AtContent
    <3>2. m_content \in Seq(Symbols) /\ Len(m_content) \in Nat
      BY DEF TypeOK
    <3>3. Len(m_content \o Rest) = Len(m_content) + Len(Rest)
      BY <1>2, <3>2, ConcatProperties
    <3> HIDE DEF m, c
    <3>4. Len(c \o m) = Len(c) + Len(m)
      BY <2>1, <2>3, ConcatProperties
    <3> QED BY <1>2, <2>4, <3>1, <3>2, <3>3, <3>4
  <2>8. Len(r) <= Len(e) /\ Len(m) < Len(r)
    <3> HIDE DEF r, e, t, b, c, p, m
    <3> QED BY <2>4, <2>5, <2>6, <2>7
  <2> QED BY <2>1, <2>8
<1> QED BY <1>1, <1>4, <1>5

(* In every state that follows the stream, what is handled is what was     *)
(* received, but for what process(0) still has to look at.                 *)
LEMMA InOrder ==
    ASSUME TypeOK, Progress, Handled, NEW h, Stream(h), Position(h)
    PROVE  IsPrefix(handled, Received) /\ (pc = "wait" => handled = Received)
<1> DEFINE k == Len(handled)
           N == Len(sent)
<1>1. k \in Nat /\ N \in Nat /\ k <= N /\ Len(wire) \in Nat
  BY DEF TypeOK, Handled
<1>2. PICK r \in 0..N : Whole(h) = 1..r
  BY WholeIs
<1>3. Received = [n \in 1..r |-> Seen(sent[n])]
  BY <1>2, ReceivedIs
<1>4. Received \in Seq([type : Types, content : Seq(Symbols)])
  <2>1. \A n \in 1..r : Seen(sent[n]) \in [type : Types, content : Seq(Symbols)]
    <3> SUFFICES ASSUME NEW n \in 1..r
                 PROVE  Seen(sent[n]) \in [type : Types, content : Seq(Symbols)]
      OBVIOUS
    <3>1. sent[n] \in Packets
      BY <1>1 DEF TypeOK
    <3>2. sent[n].content \in Seq(Symbols)
      BY <3>1, PacketSymbols
    <3> QED BY <3>1, <3>2 DEF Seen, Types
  <2>2. r \in Nat
    BY <1>1
  <2> QED BY <1>3, <2>1, <2>2
<1>5. Len(Received) = r /\ \A n \in 1..r : Received[n] = Seen(sent[n])
  <2>1. r \in Nat
    BY <1>1
  <2>2. DOMAIN Received = 1..r /\ \A n \in 1..r : Received[n] = Seen(sent[n])
    BY <1>3
  <2>3. Len(Received) \in Nat /\ DOMAIN Received = 1..Len(Received)
    BY <1>4, LenProperties
  <2> QED BY <2>1, <2>2, <2>3
<1> DEFINE A == [type : Types \cup {"HBT"}, content : Seq(Symbols)]
<1>6. handled \in Seq(A) /\ Received \in Seq(A)
  <2>1. [type : Types, content : Seq(Symbols)] \subseteq A
    OBVIOUS
  <2>2. Received \in Seq(A)
    BY <1>4, <2>1, SeqMonotonic
  <2> QED BY <2>2 DEF TypeOK
<1> HIDE DEF A
<1>7. /\ Len(Rest) <= Len(h[k + 1])
      /\ k < N => Len(h[k + 2]) < Len(Rest)
  BY LeftIs
<1>8. Len(Rest) = Len(Buffered) + Len(wire) /\ Len(Buffered) \in Nat
  BY BufferedIs, ConcatProperties, LenProperties DEF Rest, TypeOK
<1>9. k <= r
  <2>1. CASE k = 0
    BY <1>1, <2>1
  <2>2. CASE k # 0
    <3>1. k \in 1..N
      BY <1>1, <2>2
    <3>2. Len(h[k + 1]) \in Nat
      BY <3>1, Shorter
    <3>3. k \in Whole(h)
      BY <1>1, <1>7, <1>8, <3>1, <3>2 DEF Whole
    <3> QED BY <1>2, <3>3
  <2> QED BY <2>1, <2>2
<1>10. \A i \in 1..k : handled[i] = Received[i]
  <2>1. \A i \in 1..k : i \in 1..r
    BY <1>1, <1>9
  <2> QED BY <1>5, <2>1 DEF Handled
<1>11. IsPrefix(handled, Received)
  <2>1. k \in 0..Len(handled) /\ k \in 0..Len(Received)
    BY <1>1, <1>5, <1>9
  <2> DEFINE a == SubSeq(handled, 1, k)
             b == SubSeq(Received, 1, k)
  <2>2. a \in Seq(A) /\ Len(a) = k /\ \A i \in 1..k : a[i] = handled[i]
    BY <1>6, <2>1, Parts
  <2>3. b \in Seq(A) /\ Len(b) = k /\ \A i \in 1..k : b[i] = Received[i]
    BY <1>6, <2>1, Parts
  <2> HIDE DEF a, b
  <2>4. \A i \in 1..k : a[i] = b[i]
    BY <1>10, <2>2, <2>3
  <2>5. a = b
    BY <2>2, <2>3, <2>4, SeqEqual
  <2> QED BY <1>1, <1>5, <1>9, <2>5 DEF IsPrefix, a, b
<1>12. ASSUME pc = "wait" PROVE handled = Received
  <2>1. Rest = wire
    <3>1. m_checked_idx >= m_read_idx
      BY <1>12 DEF Progress, TypeOK, m_read_idx
    <3> QED BY <3>1, RestIs
  <2>2. r <= k
    <3> SUFFICES ASSUME r > k PROVE FALSE
      BY <1>1
    <3>1. k + 1 \in 1..N /\ k + 1 \in 1..r /\ (k + 1) + 1 = k + 2
      BY <1>1
    <3>2. k + 1 \in Whole(h)
      BY <1>2, <3>1
    <3>3. Len(wire) <= Len(h[k + 2])
      BY <3>1, <3>2 DEF Whole
    <3>4. Len(h[k + 2]) \in Nat
      BY <3>1, Shorter
    <3> QED BY <1>1, <1>7, <2>1, <3>1, <3>3, <3>4
  <2>3. k = Len(Received)
    BY <1>1, <1>5, <1>9, <2>2
  <2> QED BY <1>6, <1>10, <2>3, SeqEqual
<1> QED BY <1>11, <1>12

(* However the stream is cut and however many packets lie in the buffer at *)
(* once: as long as no line was cut and no stale length used, do_request() *)
(* gets each packet once, in order, with its own content, and no later     *)
(* than in the process(0) that got its last byte.                          *)
THEOREM PacketsCorrect == Spec => []PacketsHandled
<1>1. Sound /\ Parsed => PacketsHandled
  <2> SUFFICES ASSUME Sound, Parsed, clean
               PROVE  IsPrefix(handled, Received) /\ (pc = "wait" => handled = Received)
    BY DEF PacketsHandled
  <2>1. TypeOK /\ Progress /\ Handled
    BY DEF Sound, Parsed
  <2>2. PICK h : Stream(h) /\ Position(h)
    BY DEF Parsed
  <2> QED BY <2>1, <2>2, InOrder
<1> QED BY <1>1, SoundInvariant, ParsedInvariant, PTL
=============================================================================
