--------------------------- MODULE ControlStream ----------------------------
(***************************************************************************)
(* Lines out of a TCP stream: feed_bytes, called for every segment of a    *)
(* link's or of a pending connection with the buffer that it kept since    *)
(* the last one.                                                           *)
(***************************************************************************)
EXTENDS Integers, Sequences

CONSTANTS
    Cap,                \* RXBUF_CAP
    Others, CR, LF,     \* the characters
    MaxSegment,         \* bound: characters of a segment
    MaxLine             \* bound: characters that a line has before its LF

ConstantsOK ==
    /\ Cap \in Nat /\ Cap >= 3
    /\ CR # LF /\ CR \notin Others /\ LF \notin Others

VARIABLES
    rxbuf,              \* the first rxlen characters
    line,               \* what the remote has written since its last LF
    given               \* the lines that the last segment gave to the callback,
                        \* each with the text it stands for

vars == <<rxbuf, line, given>>

Chars == Others \cup {CR, LF}
Texts(n) == UNION {[1..k -> Chars] : k \in 0..n}
Segments == Texts(MaxSegment) \ {<<>>}

Init == rxbuf = <<>> /\ line = <<>> /\ given = {}

-----------------------------------------------------------------------------
\* Fault: the line's end is taken at what is stored, LF or not.
LineOfBuffer(buf) == IF buf[Len(buf)] = LF THEN SubSeq(buf, 1, Len(buf) - 1) ELSE buf

\* The line in a buffer when its LF has come: without the last character, and
\* without a CR before it
LineOf(buf) ==
    LET L == Len(buf) - 1
    IN  IF L > 0 /\ buf[L] = CR THEN SubSeq(buf, 1, L - 1) ELSE SubSeq(buf, 1, L)

\* One round of feed_bytes' loop
Byte(s, c) ==
    LET buf == IF Len(s.rxbuf) < Cap - 1 THEN Append(s.rxbuf, c) ELSE s.rxbuf
    IN  IF c # LF THEN [s EXCEPT !.rxbuf = buf, !.line = Append(@, c)]
        ELSE [rxbuf |-> <<>>, line |-> <<>>,
              given |-> s.given \cup {[text |-> s.line, line |-> LineOf(buf)]}]

\* on_link_tcp_readable, on_pending_readable: feed_bytes on a segment
Segment(data) ==
    LET after[i \in 0..Len(data)] ==
            IF i = 0 THEN [rxbuf |-> rxbuf, line |-> line, given |-> {}]
            ELSE Byte(after[i - 1], data[i])
        s == after[Len(data)]
    IN  /\ Len(s.line) <= MaxLine
        /\ rxbuf' = s.rxbuf /\ line' = s.line /\ given' = s.given

Next == \E data \in Segments : Segment(data)

Spec == Init /\ [][Next]_vars

-----------------------------------------------------------------------------
(* Properties *)

\* Where the stream is cut in segments makes no difference: the buffer holds
\* what was written since the last LF, as far as there is room for it, and
\* after a line that was too long the next one starts clean.
BufferIsLine ==
    rxbuf = SubSeq(line, 1, IF Len(line) < Cap - 1 THEN Len(line) ELSE Cap - 1)

WithoutCR(text) ==
    IF text # <<>> /\ text[Len(text)] = CR THEN SubSeq(text, 1, Len(text) - 1) ELSE text

\* A line that fits with its LF reaches the callback whole, without one CR at
\* its end; of a longer one a beginning does, never a piece of two lines, and
\* the terminating 0 is inside the buffer.
LinesWhole ==
    \A g \in given :
        /\ Len(g.text) <= Cap - 2 => g.line = WithoutCR(g.text)
        /\ Len(g.line) <= Len(g.text) /\ g.line = SubSeq(g.text, 1, Len(g.line))
        /\ Len(g.line) <= Cap - 2
=============================================================================
