---------------------------- MODULE PacketParser ----------------------------
(***************************************************************************)
(* How requestProcess cuts one client's byte stream into packets: read(),  *)
(* process(0) with its clean-up, process_read() and the parse functions.   *)
(* TCP delivers the stream in pieces of any size; packets can be cut       *)
(* anywhere, and several can lie in the buffer at once.                    *)
(*                                                                         *)
(* A symbol is a type word, a length header, a content byte, CR, LF, or    *)
(* what process() leaves of a line it garbles.  The indices are those of   *)
(* the code, counted in symbols; m_read_idx is Len(m_read_buf), and        *)
(* m_content_len_have_read is Len(m_content).  What other threads do with  *)
(* the buffer meanwhile is ConnectionIO's subject.                         *)
(***************************************************************************)
EXTENDS Integers, Sequences, SequencesExt

CONSTANTS READ_BUFFER_SIZE,
          Packets,      \* the packets the client may send
          MaxPackets    \* bound: packets it sends

Sym(kind, value) == [kind |-> kind, value |-> value]
CR == Sym("cr", 0)
LF == Sym("lf", 0)
NUL == Sym("nul", 0)
Junk == Sym("junk", 0)
Word(t) == Sym(t, 0)
Length(n) == Sym("length", n)
Eol == <<CR, LF>>

(* The format of a packet, as the server's own writer makes it; a packet   *)
(* without content may come without the length header.                     *)
Encode(p) == <<Word(p.type)>> \o Eol
             \o (IF p.named THEN <<Length(Len(p.content))>> \o Eol ELSE <<>>)
             \o Eol \o p.content

(* A word is no other symbol, and a packet without a length has no content.*)
ASSUME ParserAssumption ==
    /\ READ_BUFFER_SIZE \in Nat \ {0} /\ MaxPackets \in Nat
    /\ \A p \in Packets :
          /\ p.type \notin {"cr", "lf", "nul", "junk", "length"}
          /\ p.named \in BOOLEAN /\ (~p.named => p.content = <<>>)
          /\ p.content \in Seq(ToSet(p.content))
          /\ \A x \in ToSet(p.content) : x.kind = "length" => x.value \in Nat

VARIABLES sent, wire,            \* packets sent, symbols not received yet
          m_read_buf, m_checked_idx, m_start_line,
          m_check_state, m_method, m_content_length, m_content,
          pc,                    \* "wait": between two process(0); then in it
          read_ret,              \* process()'s variable
          handled,               \* history: what do_request was called with
          stale,    \* history: m_content_length is an earlier packet's
          clean     \* history: no line was cut, no stale length was used

vars == <<sent, wire, m_read_buf, m_checked_idx, m_start_line, m_check_state,
          m_method, m_content_length, m_content, pc, read_ret, handled, stale,
          clean>>
client == <<sent, wire>>
packet == <<m_check_state, m_method, m_content_length, m_content>>
ghost == <<handled, stale, clean>>

m_read_idx == Len(m_read_buf)

Init == /\ sent = <<>> /\ wire = <<>>
        /\ m_read_buf = <<>> /\ m_checked_idx = 0 /\ m_start_line = 0
        /\ m_check_state = "TYPELINE" /\ m_method = "HBT"
        /\ m_content_length = 0 /\ m_content = <<>>
        /\ pc = "wait" /\ read_ret = "unset"
        /\ handled = <<>> /\ stale = FALSE /\ clean = TRUE

Send(p) == /\ Len(sent) < MaxPackets
           /\ sent' = Append(sent, p) /\ wire' = wire \o Encode(p)
           /\ UNCHANGED <<m_read_buf, m_checked_idx, m_start_line, packet, pc,
                          read_ret, ghost>>

(* Mutant of read: recv() is given the buffer's size, not what is left. *)
ReadPastEnd(n) == /\ pc = "wait"
                  /\ n <= Len(wire) /\ m_read_idx < READ_BUFFER_SIZE
                  /\ m_read_buf' = m_read_buf \o SubSeq(wire, 1, n)
                  /\ wire' = SubSeq(wire, n + 1, Len(wire))
                  /\ pc' = "loop" /\ read_ret' = "unset"
                  /\ UNCHANGED <<sent, m_checked_idx, m_start_line, packet, ghost>>

(* One recv() of n symbols, then process(0). *)
read(n) == /\ pc = "wait"
           /\ n <= Len(wire) /\ m_read_idx + n <= READ_BUFFER_SIZE
           /\ m_read_buf' = m_read_buf \o SubSeq(wire, 1, n)
           /\ wire' = SubSeq(wire, n + 1, Len(wire))
           /\ pc' = "loop" /\ read_ret' = "unset"
           /\ UNCHANGED <<sent, m_checked_idx, m_start_line, packet, ghost>>

(* read() returns true for a full buffer as well, and receives nothing. *)
ReadFull == /\ pc = "wait" /\ wire # <<>>
            /\ m_read_idx >= READ_BUFFER_SIZE
            /\ pc' = "loop" /\ read_ret' = "unset"
            /\ UNCHANGED <<client, m_read_buf, m_checked_idx, m_start_line,
                           packet, ghost>>

-----------------------------------------------------------------------------
(* parse_line(): the first CR or LF from m_checked_idx on decides; text is *)
(* what get_line() then points to, next the index after the line.          *)
At(i) == m_read_buf[i + 1]
Ends == {i \in m_checked_idx..(m_read_idx - 1) : At(i) \in {CR, LF}}
First == CHOOSE i \in Ends : \A j \in Ends : i <= j

CrLf == At(First) = CR /\ First + 1 < m_read_idx /\ At(First + 1) = LF
LateLf == At(First) = LF /\ First > 1 /\ At(First - 1) = CR

LineOk == Ends # {} /\ (CrLf \/ LateLf)
LineEnd == IF At(First) = CR THEN First + 2 ELSE First + 1
text == SubSeq(m_read_buf, m_start_line + 1, LineEnd - 2)

NextLine == m_checked_idx' = LineEnd /\ m_start_line' = LineEnd

(* Mutant of NextPacket: the content read so far is not forgotten. *)
NextPacketKeeps == /\ m_check_state' = "TYPELINE" /\ UNCHANGED m_content
                   /\ pc' = "loop" /\ read_ret' = "done"

(* process() after a packet: the length and the method are kept. *)
NextPacket == /\ m_check_state' = "TYPELINE" /\ m_content' = <<>>
              /\ pc' = "loop" /\ read_ret' = "done"

parse_type_line ==
    /\ pc = "line" /\ m_check_state = "TYPELINE" /\ LineOk
    /\ NextLine
    /\ \E t \in {p.type : p \in Packets} :
          /\ text = <<Word(t)>>
          /\ m_method' = t /\ m_check_state' = "HEADER"
    /\ stale' = (m_content_length # 0)
    /\ UNCHANGED <<client, m_read_buf, m_content_length, m_content, pc, read_ret,
                   handled, clean>>

(* An unknown type: BAD_REQUEST. *)
BadType ==
    /\ pc = "line" /\ m_check_state = "TYPELINE" /\ LineOk
    /\ \A t \in {p.type : p \in Packets} : text # <<Word(t)>>
    /\ NextLine /\ NextPacket
    /\ UNCHANGED <<client, m_read_buf, m_method, m_content_length, ghost>>

IsBlank(s) == s # <<>> => s[1] = NUL

(* parse_headers(): a length, anything else that is not blank, the blank   *)
(* line before a content and the blank line that ends the packet.          *)
LengthHeader ==
    /\ pc = "line" /\ m_check_state = "HEADER" /\ LineOk
    /\ Len(text) = 1 /\ text[1].kind = "length"
    /\ NextLine
    /\ m_content_length' = text[1].value
    /\ stale' = FALSE
    /\ UNCHANGED <<client, m_read_buf, m_check_state, m_method, m_content, pc,
                   read_ret, handled, clean>>

OtherHeader ==
    /\ pc = "line" /\ m_check_state = "HEADER" /\ LineOk
    /\ ~IsBlank(text)
    /\ ~(Len(text) = 1 /\ text[1].kind = "length")
    /\ NextLine
    /\ UNCHANGED <<client, m_read_buf, packet, pc, read_ret, ghost>>

HeadersEnd ==
    /\ pc = "line" /\ m_check_state = "HEADER" /\ LineOk
    /\ IsBlank(text) /\ m_content_length # 0
    /\ NextLine
    /\ m_check_state' = "CONTENT"
    /\ clean' = (clean /\ ~stale)
    /\ UNCHANGED <<client, m_read_buf, m_method, m_content_length, m_content, pc,
                   read_ret, handled, stale>>

do_request(content) ==
    handled' = Append(handled, [type |-> m_method, content |-> content])

NoContent ==
    /\ pc = "line" /\ m_check_state = "HEADER" /\ LineOk
    /\ IsBlank(text) /\ m_content_length = 0
    /\ NextLine /\ do_request(<<>>) /\ NextPacket
    /\ UNCHANGED <<client, m_read_buf, m_method, m_content_length, stale, clean>>

Buffered == SubSeq(m_read_buf, m_checked_idx + 1, m_read_idx)

(* Mutant of Missing: the part that came earlier is not counted. *)
MissingAll == m_content_length

Missing == m_content_length - Len(m_content)

(* parse_content() with the rest of the content in the buffer. *)
ContentEnds ==
    /\ pc = "line" /\ m_check_state = "CONTENT"
    /\ Len(Buffered) >= Missing
    /\ do_request(m_content \o SubSeq(Buffered, 1, Missing))
    /\ m_checked_idx' = m_checked_idx + Missing
    /\ m_start_line' = m_checked_idx + Missing
    /\ NextPacket
    /\ UNCHANGED <<client, m_read_buf, m_method, m_content_length, stale, clean>>

(* parse_content() with less: it takes what there is, process_read()       *)
(* returns NO_REQUEST and process() empties the buffer.                    *)
ContentContinues ==
    /\ pc = "line" /\ m_check_state = "CONTENT"
    /\ Len(Buffered) < Missing
    /\ m_content' = m_content \o Buffered
    /\ m_read_buf' = <<>> /\ m_checked_idx' = 0 /\ m_start_line' = 0
    /\ pc' = "wait" /\ read_ret' = "NO_REQUEST"
    /\ UNCHANGED <<client, m_check_state, m_method, m_content_length, ghost>>

(* What "m_read_buf[p1] = p2" leaves of a broken line of n bytes that      *)
(* began at index s: the bytes s, s + 1, ... modulo 256.  The first is     *)
(* taken for a terminator if it is 0, the last for a CR if it is 13.       *)
Garbled(s, n) ==
    IF n = 0 THEN {<<>>}
    ELSE {[i \in 1..n |-> IF i = 1 /\ first = NUL THEN NUL
                          ELSE IF i = n THEN last ELSE Junk] :
             first \in IF s = 0 THEN {NUL} ELSE {NUL, Junk},
             last \in {Junk, CR}}

Broken == m_read_idx - m_start_line

(* process_read() finds no whole line (LINE_OPEN, or LINE_BAD, which is    *)
(* handled the same): process() keeps the line and waits for more.         *)
Incomplete ==
    /\ pc = "line" /\ m_check_state # "CONTENT" /\ ~LineOk
    /\ m_read_buf' \in Garbled(m_start_line, Broken)
    /\ m_checked_idx' = Broken /\ m_start_line' = 0
    /\ pc' = "wait" /\ read_ret' = "NO_REQUEST"
    /\ clean' = (clean /\ Broken = 0)
    /\ UNCHANGED <<client, packet, handled, stale>>

NextRequest == /\ pc = "loop" /\ m_checked_idx < m_read_idx
               /\ pc' = "line"
               /\ UNCHANGED <<client, m_read_buf, m_checked_idx, m_start_line,
                              packet, read_ret, ghost>>

init_read == /\ m_check_state' = "TYPELINE" /\ m_method' = "HBT"
             /\ m_start_line' = 0 /\ m_checked_idx' = 0
             /\ m_content_length' = 0 /\ m_content' = <<>>
             /\ m_read_buf' = <<>>

(* The end of process(0).  If its loop was never entered, read_ret was not *)
(* written and may hold NO_REQUEST or not.                                 *)
LoopEnds == /\ pc = "loop" /\ m_checked_idx >= m_read_idx
            /\ pc' = "wait"
            /\ \/ init_read
               \/ read_ret = "unset"
                  /\ UNCHANGED <<m_read_buf, m_checked_idx, m_start_line, packet>>
            /\ UNCHANGED <<client, read_ret, ghost>>

process == \/ NextRequest \/ LoopEnds \/ Incomplete
           \/ parse_type_line \/ BadType \/ LengthHeader \/ OtherHeader
           \/ HeadersEnd \/ NoContent \/ ContentEnds \/ ContentContinues

Next == \/ \E p \in Packets : Send(p)
        \/ \E n \in 1..READ_BUFFER_SIZE : read(n)
        \/ ReadFull \/ process

Spec == Init /\ [][Next]_vars

-----------------------------------------------------------------------------
Symbols == {CR, LF, NUL, Junk} \cup {Word(p.type) : p \in Packets}
           \cup {Length(Len(p.content)) : p \in Packets}
           \cup UNION {ToSet(p.content) : p \in Packets}
Types == {p.type : p \in Packets}

TypeOK == /\ sent \in Seq(Packets) /\ wire \in Seq(Symbols)
          /\ m_read_buf \in Seq(Symbols) /\ m_read_idx <= READ_BUFFER_SIZE
          /\ m_start_line \in 0..m_checked_idx /\ m_checked_idx \in 0..m_read_idx
          /\ m_check_state \in {"TYPELINE", "HEADER", "CONTENT"}
          /\ m_method \in Types \cup {"HBT"} /\ m_content_length \in Nat
          /\ m_content \in Seq(Symbols)
          /\ pc \in {"wait", "loop", "line"}
          /\ read_ret \in {"unset", "NO_REQUEST", "done"}
          /\ handled \in Seq([type : Types \cup {"HBT"}, content : Seq(Symbols)])
          /\ stale \in BOOLEAN /\ clean \in BOOLEAN

(* The packets whose last byte has been received, as do_request sees them. *)
Received ==
    LET length[n \in 0..Len(sent)] ==
            IF n = 0 THEN 0 ELSE length[n - 1] + Len(Encode(sent[n]))
        taken == length[Len(sent)] - Len(wire)
        whole == {n \in 1..Len(sent) : length[n] <= taken}
    IN [n \in whole |-> [type |-> sent[n].type, content |-> sent[n].content]]

(* Wherever the stream was cut, and however many packets lay in the buffer *)
(* at once: unless a line was cut in two or a packet without a length was  *)
(* read after one with it, each packet is handled once, in order, with its *)
(* own content, and no later than the process(0) that got its last byte.   *)
PacketsHandled ==
    clean => /\ IsPrefix(handled, Received)
             /\ pc = "wait" => handled = Received

(* parse_content() never copies past the m_content_length bytes it has     *)
(* allocated, and hands on no packet with fewer, also when the content     *)
(* comes in pieces, and also after lines were garbled.                     *)
ContentFits ==
    [][/\ Len(m_content') <= m_content_length'
       /\ handled' # handled =>
              Len(Last(handled').content) = m_content_length]_vars

(* "The broken line is kept": a packet that names its length is handled    *)
(* even if it arrives in pieces.                                           *)
BrokenLineKept == pc = "wait" => handled = Received
=============================================================================
