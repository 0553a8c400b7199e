---------------------------- MODULE TrafficProofs ----------------------------
(***************************************************************************)
(* The properties of what goes over the network while a link is up, for    *)
(* every value of the constants: lines out of segments, the bursts of      *)
(* calls to a peer, digests of messages in pieces, and with the theorems   *)
(* about Keepalive and RtpClock those of MCTraffic, which composes the     *)
(* five.                                                                   *)
(***************************************************************************)
EXTENDS MCTraffic, SequenceTheorems, WellFoundedInduction, TLAPS

KP == INSTANCE KeepaliveProofs

TP == INSTANCE RtpClockProofs WITH
    Slot <- 6, Jitter <- 2, Idle <- 14, clock <- r_clock, net <- r_net

LP == INSTANCE RtpClockProofs WITH
    Slot <- 4, Jitter <- 5, Idle <- 11, clock <- r_clock, net <- r_net

-----------------------------------------------------------------------------
(* ControlStream: lines out of segments *)

\* Induction over the numbers, for a set of them
LEMMA AllNaturals ==
    ASSUME NEW N \in SUBSET Nat, 0 \in N, \A n \in N : n + 1 \in N
    PROVE  N = Nat
<1> DEFINE Less == {ss \in Nat \X Nat : ss[1] < ss[2]}
<1> SUFFICES ASSUME Nat \ N # {} PROVE FALSE
  OBVIOUS
<1>1. IsWellFoundedOn(Less, Nat)
  BY NatLessThanWellFounded DEF OpToRel
<1> HIDE DEF Less
<1>2. PICK x \in Nat \ N : \A y \in Nat \ N : ~(<<y, x>> \in Less)
  BY <1>1, WFMin
<1>3. x - 1 \in N
  <2>1. x - 1 \in Nat
    BY <1>2
  <2>2. <<x - 1, x>> \in Less
    <3>1. <<x - 1, x>> \in Nat \X Nat /\ x - 1 < x
      BY <1>2, <2>1
    <3> QED
      BY <3>1, Zenon DEF Less
  <2> QED
    BY <1>2, <2>1, <2>2
<1>4. x - 1 + 1 = x
  BY <1>2
<1> QED
  BY <1>2, <1>3, <1>4

\* A line as the callback gets it
Whole(g) ==
    /\ Len(g.text) <= Cap - 2 => g.line = C!WithoutCR(g.text)
    /\ Len(g.line) <= Len(g.text) /\ g.line = SubSeq(g.text, 1, Len(g.line))
    /\ Len(g.line) <= Cap - 2

Stored(text) == SubSeq(text, 1, IF Len(text) < Cap - 1 THEN Len(text) ELSE Cap - 1)

Lines == [text : Seq(C!Chars), line : Seq(C!Chars)]

\* What feed_bytes has between two characters
Good(s) ==
    /\ s \in [rxbuf : Seq(C!Chars), line : Seq(C!Chars), given : SUBSET Lines]
    /\ s.rxbuf = Stored(s.line)
    /\ \A g \in s.given : Whole(g)

\* The variables of ControlStream are such a state.
StreamInv == Good([rxbuf |-> rxbuf, line |-> line, given |-> given])

\* What fits in the receive buffer of a line.
LEMMA StoredTypes ==
    ASSUME C!ConstantsOK, NEW t \in Seq(C!Chars)
    PROVE  /\ Stored(t) \in Seq(C!Chars)
           /\ Len(t) < Cap - 1 => Stored(t) = t
           /\ Len(t) >= Cap - 1 => Len(Stored(t)) = Cap - 1
           /\ \A i \in 1..Len(Stored(t)) : i \in 1..Len(t) /\ Stored(t)[i] = t[i]
<1>1. Cap \in Nat /\ Cap >= 3 /\ Len(t) \in Nat
  BY LenProperties DEF C!ConstantsOK
<1>2. CASE Len(t) < Cap - 1
  <2>1. Stored(t) = t
    BY <1>2, SubSeqFull DEF Stored
  <2> QED
    BY <1>1, <1>2, <2>1
<1>3. CASE Len(t) >= Cap - 1
  <2> DEFINE n == Cap - 1
  <2>1. Stored(t) = SubSeq(t, 1, n) /\ n \in Nat /\ 1 <= n /\ n <= Len(t)
    BY <1>1, <1>3 DEF Stored
  <2>2. \A i \in 1..n : t[i] \in C!Chars
    BY <1>1, <2>1, ElementOfSeq
  <2>3. /\ SubSeq(t, 1, n) \in Seq(C!Chars) /\ Len(SubSeq(t, 1, n)) = n
        /\ \A i \in 1..n : SubSeq(t, 1, n)[i] = t[i]
    <3> HIDE DEF n
    <3>1. /\ SubSeq(t, 1, n) \in Seq(C!Chars)
          /\ Len(SubSeq(t, 1, n)) = (IF 1 <= n THEN n - 1 + 1 ELSE 0)
          /\ \A i \in 1..(n - 1 + 1) : SubSeq(t, 1, n)[i] = t[1 + i - 1]
      BY <2>1, <2>2, SubSeqProperties
    <3> QED
      BY <2>1, <3>1
  <2> QED
    BY <1>1, <1>3, <2>1, <2>3
<1> QED
  BY <1>1, <1>2, <1>3

\* A beginning of a sequence, by its characters
LEMMA Beginning ==
    ASSUME NEW t \in Seq(C!Chars), NEW n \in 0..Len(t)
    PROVE  /\ SubSeq(t, 1, n) \in Seq(C!Chars) /\ Len(SubSeq(t, 1, n)) = n
           /\ \A i \in 1..n : SubSeq(t, 1, n)[i] = t[i]
           /\ \A b \in Seq(C!Chars) :
                Len(b) = n /\ (\A i \in 1..n : b[i] = t[i]) => b = SubSeq(t, 1, n)
<1>1. Len(t) \in Nat
  BY LenProperties
<1>2. \A i \in 1..n : t[i] \in C!Chars
  BY <1>1, ElementOfSeq
<1>3. /\ SubSeq(t, 1, n) \in Seq(C!Chars)
      /\ Len(SubSeq(t, 1, n)) = (IF 1 <= n THEN n - 1 + 1 ELSE 0)
      /\ \A i \in 1..(n - 1 + 1) : SubSeq(t, 1, n)[i] = t[1 + i - 1]
  BY <1>1, <1>2, SubSeqProperties
<1>4. Len(SubSeq(t, 1, n)) = n /\ \A i \in 1..n : SubSeq(t, 1, n)[i] = t[i]
  BY <1>1, <1>3
<1>5. ASSUME NEW b \in Seq(C!Chars), Len(b) = n, \A i \in 1..n : b[i] = t[i]
      PROVE  b = SubSeq(t, 1, n)
  BY <1>3, <1>4, <1>5, SeqEqual
<1> QED
  BY <1>3, <1>4, <1>5

\* A character that is not the LF is stored where there is room.
LEMMA StoredGrows ==
    ASSUME C!ConstantsOK, NEW t \in Seq(C!Chars), NEW c \in C!Chars
    PROVE  Stored(Append(t, c)) =
             IF Len(Stored(t)) < Cap - 1 THEN Append(Stored(t), c) ELSE Stored(t)
<1> DEFINE u == Append(t, c)
<1>1. Cap \in Nat /\ Cap >= 3 /\ Len(t) \in Nat
  BY LenProperties DEF C!ConstantsOK
<1>2. /\ u \in Seq(C!Chars) /\ Len(u) = Len(t) + 1 /\ \A i \in 1..Len(t) : u[i] = t[i]
  BY <1>1, AppendProperties
<1> HIDE DEF u
<1>3. CASE Len(t) < Cap - 1
  <2>1. Stored(t) = t
    BY <1>3, StoredTypes
  <2>2. Stored(u) = u
    <3>1. CASE Len(u) < Cap - 1
      BY <1>2, <3>1, StoredTypes
    <3>2. CASE Len(u) = Cap - 1
      BY <1>1, <1>2, <3>2, SubSeqFull DEF Stored
    <3> QED
      BY <1>1, <1>2, <1>3, <3>1, <3>2
  <2> QED
    BY <1>3, <2>1, <2>2 DEF u
<1>4. CASE Len(t) >= Cap - 1
  <2>1. Len(Stored(t)) = Cap - 1 /\ Stored(t) \in Seq(C!Chars)
    BY <1>4, StoredTypes
  <2>2. Stored(u) = SubSeq(u, 1, Cap - 1) /\ Cap - 1 \in 0..Len(u)
    BY <1>1, <1>2, <1>4 DEF Stored
  <2>3. \A i \in 1..(Cap - 1) : Stored(t)[i] = u[i]
    BY <1>2, <2>1, StoredTypes
  <2>4. Stored(t) = SubSeq(u, 1, Cap - 1)
    BY <1>2, <2>1, <2>2, <2>3, Beginning
  <2> QED
    BY <1>1, <2>1, <2>2, <2>4 DEF u
<1> QED
  BY <1>1, <1>3, <1>4

\* The line that the callback gets at an LF
LEMMA LineIsWhole ==
    ASSUME C!ConstantsOK, NEW t \in Seq(C!Chars)
    PROVE  LET buf == IF Len(Stored(t)) < Cap - 1 THEN Append(Stored(t), LF) ELSE Stored(t)
               g == [text |-> t, line |-> C!LineOf(buf)]
           IN  g \in Lines /\ Whole(g)
<1> DEFINE buf == IF Len(Stored(t)) < Cap - 1 THEN Append(Stored(t), LF) ELSE Stored(t)
           L == Len(buf) - 1
           n == IF L > 0 /\ buf[L] = CR THEN L - 1 ELSE L
           g == [text |-> t, line |-> C!LineOf(buf)]
<1>1. Cap \in Nat /\ Cap >= 3 /\ Len(t) \in Nat /\ LF \in C!Chars
  BY LenProperties DEF C!ConstantsOK, C!Chars
<1>2. /\ buf \in Seq(C!Chars) /\ L \in Nat /\ L <= Len(t) /\ L <= Cap - 2
      /\ \A i \in 1..L : buf[i] = t[i]
      /\ Len(t) <= Cap - 2 => L = Len(t)
  <2>1. CASE Len(t) < Cap - 1
    <3>1. Stored(t) = t /\ buf = Append(t, LF)
      BY <2>1, StoredTypes
    <3>2. /\ buf \in Seq(C!Chars) /\ Len(buf) = Len(t) + 1
          /\ \A i \in 1..Len(t) : buf[i] = t[i]
      BY <1>1, <3>1, AppendProperties
    <3> HIDE DEF buf
    <3> QED
      BY <1>1, <2>1, <3>2
  <2>2. CASE Len(t) >= Cap - 1
    <3>1. Len(Stored(t)) = Cap - 1 /\ buf = Stored(t) /\ buf \in Seq(C!Chars)
      BY <1>1, <2>2, StoredTypes
    <3>2. \A i \in 1..Len(Stored(t)) : Stored(t)[i] = t[i]
      BY StoredTypes
    <3> HIDE DEF buf
    <3> QED
      BY <1>1, <2>2, <3>1, <3>2
  <2> QED
    BY <1>1, <2>1, <2>2
<1> HIDE DEF buf
<1>3. C!LineOf(buf) = SubSeq(buf, 1, n) /\ n \in 0..L
  BY <1>2 DEF C!LineOf
<1>4. n \in 0..Len(buf) /\ n \in 0..Len(t) /\ n <= Cap - 2
  BY <1>1, <1>2, <1>3
<1>5. SubSeq(buf, 1, n) = SubSeq(t, 1, n) /\ SubSeq(t, 1, n) \in Seq(C!Chars)
      /\ Len(SubSeq(t, 1, n)) = n
  <2> HIDE DEF n
  <2>1. /\ SubSeq(buf, 1, n) \in Seq(C!Chars) /\ Len(SubSeq(buf, 1, n)) = n
        /\ \A i \in 1..n : SubSeq(buf, 1, n)[i] = buf[i]
    BY <1>2, <1>4, Beginning
  <2>2. \A i \in 1..n : SubSeq(buf, 1, n)[i] = t[i]
    <3> HIDE DEF L
    <3> QED
      BY <1>2, <1>3, <2>1
  <2> QED
    BY <1>4, <2>1, <2>2, Beginning
<1>6. Len(t) <= Cap - 2 => SubSeq(t, 1, n) = C!WithoutCR(t)
  <2> SUFFICES ASSUME Len(t) <= Cap - 2 PROVE SubSeq(t, 1, n) = C!WithoutCR(t)
    OBVIOUS
  <2>1. L = Len(t)
    BY <1>2
  <2>2. L > 0 => buf[L] = t[L]
    <3> HIDE DEF L
    <3> QED
      BY <1>2
  <2>3. t # <<>> <=> L > 0
    BY <1>1, <2>1, EmptySeq
  <2> HIDE DEF L
  <2>4. CASE L > 0 /\ buf[L] = CR
    BY <2>1, <2>2, <2>3, <2>4 DEF C!WithoutCR
  <2>5. CASE ~(L > 0 /\ buf[L] = CR)
    <3>1. n = Len(t)
      BY <2>1, <2>5
    <3>2. C!WithoutCR(t) = t
      BY <2>1, <2>2, <2>3, <2>5 DEF C!WithoutCR
    <3> QED
      BY <3>1, <3>2, SubSeqFull
  <2> QED
    BY <2>4, <2>5
<1> HIDE DEF n
<1>7. g \in Lines /\ g.text = t /\ g.line = SubSeq(t, 1, n)
  BY <1>3, <1>5 DEF Lines
<1> HIDE DEF g
<1>8. Whole(g)
  BY <1>4, <1>5, <1>6, <1>7 DEF Whole
<1> QED
  BY <1>7, <1>8 DEF g, buf

\* One round of the loop
LEMMA ByteKeeps ==
    ASSUME C!ConstantsOK, NEW s, Good(s), NEW c \in C!Chars
    PROVE  Good(C!Byte(s, c))
<1> DEFINE buf == IF Len(s.rxbuf) < Cap - 1 THEN Append(s.rxbuf, c) ELSE s.rxbuf
<1>1. /\ s \in [rxbuf : Seq(C!Chars), line : Seq(C!Chars), given : SUBSET Lines]
      /\ s.rxbuf \in Seq(C!Chars) /\ s.line \in Seq(C!Chars) /\ s.given \subseteq Lines
      /\ s.rxbuf = Stored(s.line) /\ \A g \in s.given : Whole(g)
  BY DEF Good
<1>2. CASE c # LF
  <2>1. C!Byte(s, c) = [s EXCEPT !.rxbuf = buf, !.line = Append(@, c)]
    BY <1>2 DEF C!Byte
  <2>2. buf = Stored(Append(s.line, c))
    BY <1>1, StoredGrows
  <2>3. Append(s.line, c) \in Seq(C!Chars)
    BY <1>1, AppendProperties
  <2>4. buf \in Seq(C!Chars)
    BY <2>2, <2>3, StoredTypes
  <2> HIDE DEF buf
  <2>5. /\ C!Byte(s, c) \in [rxbuf : Seq(C!Chars), line : Seq(C!Chars), given : SUBSET Lines]
        /\ C!Byte(s, c).rxbuf = buf /\ C!Byte(s, c).line = Append(s.line, c)
        /\ C!Byte(s, c).given = s.given
    BY <1>1, <2>1, <2>3, <2>4
  <2> QED
    BY <1>1, <2>2, <2>5 DEF Good
<1>3. CASE c = LF
  <2> DEFINE g == [text |-> s.line, line |-> C!LineOf(buf)]
  <2>1. C!Byte(s, c) = [rxbuf |-> <<>>, line |-> <<>>, given |-> s.given \cup {g}]
    BY <1>3 DEF C!Byte
  <2>2. g \in Lines /\ Whole(g)
    BY <1>1, <1>3, LineIsWhole
  <2> HIDE DEF g
  <2>3. <<>> \in Seq(C!Chars) /\ Stored(<<>>) = <<>>
    <3>1. <<>> \in Seq(C!Chars) /\ Len(<<>>) = 0
      BY EmptySeq
    <3>2. 0 < Cap - 1
      BY DEF C!ConstantsOK
    <3> QED
      BY <3>1, <3>2, StoredTypes
  <2>4. /\ C!Byte(s, c) \in [rxbuf : Seq(C!Chars), line : Seq(C!Chars), given : SUBSET Lines]
        /\ C!Byte(s, c).rxbuf = <<>> /\ C!Byte(s, c).line = <<>>
        /\ C!Byte(s, c).given = s.given \cup {g}
    BY <1>1, <2>1, <2>2, <2>3
  <2> QED
    BY <1>1, <2>2, <2>3, <2>4 DEF Good
<1> QED
  BY <1>2, <1>3

\* The rounds of the loop, from s0 on
Rounds(f, s0, data, n) ==
    f = [i \in 0..n |-> IF i = 0 THEN s0 ELSE C!Byte(f[i - 1], data[i])]

\* A function whose value at each number is computed from the one before exists.
LEMMA RoundsExist ==
    ASSUME NEW s0, NEW data, NEW n \in Nat
    PROVE  \E f : Rounds(f, s0, data, n)
<1> DEFINE After(f, k) == f = [i \in 0..k |-> IF i = 0 THEN s0 ELSE C!Byte(f[i - 1], data[i])]
           N == {k \in Nat : \E f : After(f, k)}
<1>1. 0 \in N
  <2> DEFINE f == [i \in 0..0 |-> s0]
  <2>1. After(f, 0)
    <3>1. \A i \in 0..0 : i = 0
      OBVIOUS
    <3> QED
      BY <3>1
  <2> HIDE DEF After, f
  <2> QED
    BY <2>1
<1>2. ASSUME NEW k \in N PROVE k + 1 \in N
  <2>1. k \in Nat
    OBVIOUS
  <2>2. PICK f : After(f, k)
    OBVIOUS
  <2> DEFINE g == [i \in 0..(k + 1) |-> IF i = k + 1 THEN C!Byte(f[k], data[k + 1]) ELSE f[i]]
  <2>3. \A i \in 0..k : f[i] = IF i = 0 THEN s0 ELSE C!Byte(f[i - 1], data[i])
    BY <2>2
  <2>4. /\ g = [i \in 0..(k + 1) |-> g[i]] /\ g[k + 1] = C!Byte(f[k], data[k + 1])
        /\ \A i \in 0..k : g[i] = f[i]
    BY <2>1
  <2> HIDE DEF g
  <2>5. ASSUME NEW i \in 0..(k + 1)
        PROVE  g[i] = IF i = 0 THEN s0 ELSE C!Byte(g[i - 1], data[i])
    <3>1. CASE i = k + 1
      <4>1. k \in 0..k /\ i # 0 /\ i - 1 = k
        BY <2>1, <3>1
      <4> QED
        BY <2>4, <3>1, <4>1
    <3>2. CASE i = 0
      <4>1. 0 \in 0..k
        BY <2>1
      <4> QED
        BY <2>3, <2>4, <3>2, <4>1
    <3>3. CASE i \in 1..k
      <4>1. i \in 0..k /\ i - 1 \in 0..k /\ i # 0
        BY <2>1, <3>3
      <4> QED
        BY <2>3, <2>4, <4>1
    <3> QED
      BY <2>1, <3>1, <3>2, <3>3
  <2>6. After(g, k + 1)
    BY <2>4, <2>5
  <2> HIDE DEF After
  <2> QED
    BY <2>1, <2>6
<1> HIDE DEF After
<1>3. N = Nat
  <2> HIDE DEF N
  <2>1. N \in SUBSET Nat
    BY DEF N
  <2> QED
    BY <1>1, <1>2, <2>1, AllNaturals
<1>4. \E f : After(f, n)
  BY <1>3
<1> QED
  BY <1>4 DEF After, Rounds

\* feed_bytes on a segment
LEMMA SegmentKeeps ==
    ASSUME C!ConstantsOK, StreamInv, NEW data \in C!Segments, C!Segment(data)
    PROVE  StreamInv'
<1> DEFINE s0 == [rxbuf |-> rxbuf, line |-> line, given |-> {}]
           n == Len(data)
           after == CHOOSE f : Rounds(f, s0, data, n)
<1>1. n \in Nat /\ \A i \in 1..n : data[i] \in C!Chars
  <2>1. PICK k \in 0..MaxSegment : data \in [1..k -> C!Chars]
    BY DEF C!Segments, C!Texts
  <2>2. data \in Seq(C!Chars) /\ k \in Nat /\ Len(data) = k
    BY <2>1
  <2> QED
    BY <2>1, <2>2
<1>2. rxbuf' = after[n].rxbuf /\ line' = after[n].line /\ given' = after[n].given
  BY DEF C!Segment, Rounds
<1>3. Good(s0)
  BY DEF StreamInv, Good
<1> HIDE DEF s0, n
<1>4. Rounds(after, s0, data, n)
  BY <1>1, RoundsExist
<1>5. after[0] = s0 /\ \A i \in 1..n : after[i] = C!Byte(after[i - 1], data[i])
  <2> HIDE DEF after
  <2> QED
    BY <1>1, <1>4 DEF Rounds
<1> HIDE DEF after
<1> DEFINE N == {k \in Nat : k <= n => Good(after[k])}
<1>6. 0 \in N
  BY <1>3, <1>5
<1>7. ASSUME NEW k \in N PROVE k + 1 \in N
  <2> SUFFICES ASSUME k + 1 <= n PROVE Good(after[k + 1])
    OBVIOUS
  <2>1. k \in Nat /\ Good(after[k]) /\ k + 1 \in 1..n /\ k + 1 - 1 = k
    BY <1>1
  <2>2. after[k + 1] = C!Byte(after[k], data[k + 1])
    BY <1>5, <2>1
  <2> QED
    BY <1>1, <2>1, <2>2, ByteKeeps
<1>8. Good(after[n])
  <2>1. N \in SUBSET Nat
    OBVIOUS
  <2>2. N = Nat
    <3> HIDE DEF N
    <3> QED
      BY <1>6, <1>7, <2>1, AllNaturals
  <2> QED
    BY <1>1, <2>2
<1> QED
  BY <1>2, <1>8 DEF StreamInv, Good

\* No byte has come at first.
LEMMA StreamInit == ASSUME C!ConstantsOK, C!Init PROVE StreamInv
<1>1. <<>> \in Seq(C!Chars) /\ Len(<<>>) = 0
  BY EmptySeq
<1>2. Stored(<<>>) = <<>>
  <2>1. 0 < Cap - 1
    BY DEF C!ConstantsOK
  <2> QED
    BY <1>1, <2>1, StoredTypes
<1> QED
  BY <1>1, <1>2 DEF C!Init, StreamInv, Good

\* The invariant of the stream says that lines stay whole.
LEMMA StreamShows == ASSUME StreamInv PROVE LinesWhole
<1>1. rxbuf = Stored(line) /\ \A g \in given : Whole(g)
  BY DEF StreamInv, Good
<1> QED
  BY <1>1 DEF LinesWhole, C!BufferIsLine, C!LinesWhole, Stored, Whole

-----------------------------------------------------------------------------
(* Superframe: the bursts of calls to a peer *)

\* What the peer has heard in a row, when the next burst is number q of the
\* call: a head, if one was heard, and then the bursts up to the last.
Row(h, q) ==
    \A i \in 1..Len(h) :
        LET place == q - 1 - (Len(h) - i)
        IN  IF h[i] = "head" THEN i = 1 /\ place = -1
            ELSE place >= 0 /\ h[i] = S!Embed(place % 6)

\* A row goes on through a call, and stays as it was when the call is over.
RowInv ==
    \A l \in Links : IF obp_seq_pos[l] = NoCall THEN \E q \in Nat : Row(heard[l], q)
                     ELSE Row(heard[l], obp_seq_pos[l])

\* The byte that the next frame should carry
Awaited == (last + dropped + 1) % SeqMod

\* Rows as they should be, and the next number the one awaited.
SuperframeInv == S!TypeOK /\ RowInv /\ obp_seq_ctr % SeqMod = Awaited

\* The six voice bursts of a superframe, by position.
LEMMA EmbedTypes ==
    /\ \A p \in 0..5 : S!Embed(p) \in S!Embeds /\ S!Embed(p) # "head"
    /\ \A p \in 0..5 : S!Embed(p) = "sync" <=> p = 0
    /\ S!Embeds = {S!Embed(p) : p \in 0..5}
    /\ "head" \notin S!Embeds
<1>1. /\ S!Embed(0) = "sync" /\ S!Embed(1) = "lc1" /\ S!Embed(2) = "lc2"
      /\ S!Embed(3) = "lc3" /\ S!Embed(4) = "lc4" /\ S!Embed(5) = "null"
  BY DEF S!Embed
<1>2. 0..5 = {0, 1, 2, 3, 4, 5}
  OBVIOUS
<1> QED
  BY <1>1, <1>2 DEF S!Embeds

\* Six places in a row have the six remainders.
LEMMA SixInARow ==
    ASSUME NEW q \in Nat, q >= 6, NEW p \in 0..5
    PROVE  \E j \in 0..5 : (q - 6 + j) % 6 = p
<1> DEFINE r == q % 6
<1>1. r \in 0..5
  OBVIOUS
<1>2. CASE p >= r
  <2>1. (q - 6 + (p - r)) % 6 = p /\ p - r \in 0..5
    BY <1>1, <1>2
  <2> QED
    BY <2>1
<1>3. CASE p < r
  <2>1. (q - 6 + (6 + p - r)) % 6 = p /\ 6 + p - r \in 0..5
    BY <1>1, <1>3
  <2> QED
    BY <2>1
<1> QED
  BY <1>1, <1>2, <1>3

\* Bursts in a row let a listener join within a superframe.
LEMMA RowIsLateEntry ==
    ASSUME NEW h \in Seq(S!Embeds \cup {"head"}), NEW q \in Nat, Row(h, q)
    PROVE  /\ Len(h) >= 2 /\ h[1] = "head" => h[2] = "sync"
           /\ LET six == {h[i] : i \in (Len(h) - 5)..Len(h)}
              IN  Len(h) >= 6 /\ "head" \notin six => six = S!Embeds
<1>1. Len(h) \in Nat
  BY LenProperties
<1>2. ASSUME Len(h) >= 2, h[1] = "head" PROVE h[2] = "sync"
  <2>1. q - 1 - (Len(h) - 1) = -1 /\ 1 \in 1..Len(h) /\ 2 \in 1..Len(h)
    BY <1>1, <1>2 DEF Row
  <2>2. q - 1 - (Len(h) - 2) = 0
    BY <1>1, <2>1
  <2>3. h[2] # "head"
    BY <1>1, <2>1 DEF Row
  <2>4. h[2] = S!Embed((q - 1 - (Len(h) - 2)) % 6)
    BY <2>1, <2>3 DEF Row
  <2>5. (q - 1 - (Len(h) - 2)) % 6 = 0
    BY <2>2
  <2> QED
    BY <2>4, <2>5, EmbedTypes
<1>3. ASSUME Len(h) >= 6, "head" \notin {h[i] : i \in (Len(h) - 5)..Len(h)}
      PROVE  {h[i] : i \in (Len(h) - 5)..Len(h)} = S!Embeds
  <2>1. ASSUME NEW i \in (Len(h) - 5)..Len(h)
        PROVE  /\ q - 1 - (Len(h) - i) \in Nat
               /\ h[i] = S!Embed((q - 1 - (Len(h) - i)) % 6)
    <3>1. i \in 1..Len(h) /\ h[i] # "head"
      BY <1>1, <1>3
    <3> QED
      BY <1>1, <3>1 DEF Row
  <2>2. q >= 6
    <3>1. Len(h) - 5 \in (Len(h) - 5)..Len(h)
      BY <1>1
    <3>2. q - 1 - (Len(h) - (Len(h) - 5)) \in Nat
      BY <2>1, <3>1
    <3> QED
      BY <1>1, <3>2
  <2>3. ASSUME NEW i \in (Len(h) - 5)..Len(h) PROVE h[i] \in S!Embeds
    <3>1. (q - 1 - (Len(h) - i)) % 6 \in 0..5
      BY <2>1
    <3> QED
      BY <2>1, <3>1, EmbedTypes
  <2>4. ASSUME NEW e \in S!Embeds PROVE \E i \in (Len(h) - 5)..Len(h) : h[i] = e
    <3>1. PICK p \in 0..5 : e = S!Embed(p)
      BY EmbedTypes
    <3>2. PICK j \in 0..5 : (q - 6 + j) % 6 = p
      BY <2>2, SixInARow
    <3> DEFINE i == Len(h) - 5 + j
    <3>3. i \in (Len(h) - 5)..Len(h) /\ q - 1 - (Len(h) - i) = q - 6 + j
      BY <1>1
    <3> HIDE DEF i
    <3>4. h[i] = S!Embed((q - 1 - (Len(h) - i)) % 6)
      BY <2>1, <3>3
    <3>5. h[i] = S!Embed(p)
      BY <3>2, <3>3, <3>4
    <3> QED
      BY <3>1, <3>3, <3>5
  <2> QED
    BY <2>3, <2>4
<1> QED
  BY <1>2, <1>3

\* The row grows by the next burst of the call.
LEMMA RowGrows ==
    ASSUME NEW h \in Seq(S!Embeds \cup {"head"}), NEW q \in Nat, Row(h, q)
    PROVE  Row(Append(h, S!Embed(q % 6)), q + 1)
<1> DEFINE e == S!Embed(q % 6)
           g == Append(h, e)
<1>1. e \in S!Embeds /\ e # "head" /\ Len(h) \in Nat
  BY EmbedTypes, LenProperties
<1> HIDE DEF e
<1>2. /\ Len(g) = Len(h) + 1 /\ g[Len(h) + 1] = e
      /\ \A i \in 1..Len(h) : g[i] = h[i]
  BY <1>1, AppendProperties
<1> HIDE DEF g
<1> SUFFICES ASSUME NEW i \in 1..Len(g)
             PROVE  IF g[i] = "head" THEN i = 1 /\ q + 1 - 1 - (Len(g) - i) = -1
                    ELSE /\ q + 1 - 1 - (Len(g) - i) >= 0
                         /\ g[i] = S!Embed((q + 1 - 1 - (Len(g) - i)) % 6)
  BY DEF Row, g, e
<1>3. CASE i = Len(h) + 1
  BY <1>1, <1>2, <1>3 DEF e
<1>4. CASE i \in 1..Len(h)
  <2>1. q + 1 - 1 - (Len(g) - i) = q - 1 - (Len(h) - i) /\ g[i] = h[i]
    BY <1>1, <1>2, <1>4
  <2> QED
    BY <1>4, <2>1 DEF Row
<1> QED
  BY <1>1, <1>2, <1>3, <1>4

-----------------------------------------------------------------------------
\* send_dmrd keeps the byte that the next frame should carry.
LEMMA SendDmrdKeeps ==
    ASSUME S!TypeOK, obp_seq_ctr % SeqMod = Awaited, NEW l \in Links, S!SendDmrd(l)
    PROVE  /\ obp_seq_ctr' \in Nat /\ dropped' \in Nat /\ last' \in -1..(SeqMod - 1)
           /\ obp_seq_ctr' % SeqMod = Awaited'
           /\ bound => last' = Awaited
           /\ ~bound => last' = last
<1>1. SeqMod \in Nat \ {0}
  BY TrafficAssumption DEF S!ConstantsOK
<1>2. obp_seq_ctr \in Nat /\ dropped \in Nat /\ last \in Int /\ last >= -1 /\ last <= SeqMod - 1
  BY <1>1 DEF S!TypeOK
<1>3. obp_seq_ctr' = obp_seq_ctr + 1
  BY DEF S!SendDmrd
<1>4. CASE bound
  <2>1. last' = obp_seq_ctr % SeqMod /\ dropped' = 0
    BY <1>4 DEF S!SendDmrd, S!SeqByte
  <2>2. last' \in 0..(SeqMod - 1)
    BY <1>1, <1>2, <2>1, TP!DivMod
  <2>3. last' % SeqMod = last'
    BY <1>1, <2>2, TP!ModSmall
  <2>4. (last' + 1) % SeqMod = (obp_seq_ctr + 1) % SeqMod
    <3>1. last' \in Int /\ obp_seq_ctr \in Int /\ last' % SeqMod = obp_seq_ctr % SeqMod
      BY <1>1, <1>2, <2>1, <2>2, <2>3
    <3> QED
      BY <1>1, <3>1, TP!ModSucc
  <2>5. Awaited' = (last' + 1) % SeqMod
    BY <2>1, <2>2 DEF Awaited
  <2> QED
    BY <1>1, <1>2, <1>3, <1>4, <2>1, <2>2, <2>4, <2>5
<1>5. CASE ~bound
  <2>1. last' = last /\ dropped' = dropped + 1
    BY <1>5 DEF S!SendDmrd
  <2>2. Awaited' = ((last + dropped + 1) + 1) % SeqMod
    BY <1>2, <2>1 DEF Awaited
  <2>3. ((last + dropped + 1) + 1) % SeqMod = (obp_seq_ctr + 1) % SeqMod
    <3>1. /\ last + dropped + 1 \in Int /\ obp_seq_ctr \in Int
          /\ (last + dropped + 1) % SeqMod = obp_seq_ctr % SeqMod
      BY <1>2 DEF Awaited
    <3> QED
      BY <1>1, <3>1, TP!ModSucc
  <2> QED
    BY <1>1, <1>2, <1>3, <1>5, <2>1, <2>2, <2>3
<1> QED
  BY <1>4, <1>5

\* ... and numbers its frame as the next.
LEMMA SendIsNext ==
    ASSUME S!TypeOK, obp_seq_ctr % SeqMod = Awaited, NEW l \in Links, S!SendDmrd(l)
    PROVE  S!SeqFollows
<1>1. bound => last' = Awaited
  BY SendDmrdKeeps
<1>2. ~bound => last' = last
  BY DEF S!SendDmrd
<1> QED
  BY <1>1, <1>2 DEF S!SeqFollows, Awaited

\* What the peer of link l has heard fits its call after a step that leaves the
\* other links as they were.
LEMMA RowOfLink ==
    ASSUME S!TypeOK, RowInv, NEW l \in Links, NEW p \in Nat \cup {NoCall},
           NEW h \in Seq(S!Embeds \cup {"head"}),
           obp_seq_pos' = [obp_seq_pos EXCEPT ![l] = p], heard' = [heard EXCEPT ![l] = h],
           IF p = NoCall THEN \E q \in Nat : Row(h, q) ELSE Row(h, p)
    PROVE  /\ RowInv'
           /\ obp_seq_pos' \in [Links -> Nat \cup {NoCall}]
           /\ heard' \in [Links -> Seq(S!Embeds \cup {"head"})]
<1>1. /\ obp_seq_pos' \in [Links -> Nat \cup {NoCall}]
      /\ heard' \in [Links -> Seq(S!Embeds \cup {"head"})]
      /\ obp_seq_pos'[l] = p /\ heard'[l] = h
      /\ \A k \in Links \ {l} : obp_seq_pos'[k] = obp_seq_pos[k] /\ heard'[k] = heard[k]
  BY DEF S!TypeOK
<1> SUFFICES ASSUME NEW k \in Links
             PROVE  IF obp_seq_pos'[k] = NoCall THEN \E q \in Nat : Row(heard'[k], q)
                    ELSE Row(heard'[k], obp_seq_pos'[k])
  BY <1>1 DEF RowInv, Row
<1>2. CASE k = l
  BY <1>1, <1>2
<1>3. CASE k # l
  BY <1>1, <1>3 DEF RowInv
<1> QED
  BY <1>2, <1>3

\* Nothing heard, or a head alone, fits any place, or the first.
LEMMA ShortRows ==
    /\ <<>> \in Seq(S!Embeds \cup {"head"}) /\ <<"head">> \in Seq(S!Embeds \cup {"head"})
    /\ \A q \in Nat : Row(<<>>, q)
    /\ Row(<<"head">>, 0)
  BY DEF Row

\* A call to a peer opens with its head.
LEMMA BonKeeps ==
    ASSUME SuperframeInv, NEW l \in Links, S!Bon(l)
    PROVE  SuperframeInv' /\ S!SeqFollows
<1>1. S!TypeOK /\ RowInv /\ obp_seq_ctr % SeqMod = Awaited /\ S!SendDmrd(l)
  BY DEF SuperframeInv, S!Bon
<1>2. PICK h \in {<<>>, <<"head">>} : heard' = [heard EXCEPT ![l] = h]
  BY DEF S!Bon
<1>3. RowInv' /\ obp_seq_pos' \in [Links -> Nat \cup {NoCall}]
      /\ heard' \in [Links -> Seq(S!Embeds \cup {"head"})]
  <2>1. h \in Seq(S!Embeds \cup {"head"}) /\ Row(h, 0)
    BY ShortRows
  <2>2. obp_seq_pos' = [obp_seq_pos EXCEPT ![l] = 0]
    BY DEF S!Bon
  <2>3. IF 0 = NoCall THEN \E q \in Nat : Row(h, q) ELSE Row(h, 0)
    BY <2>1
  <2> QED
    BY <1>1, <1>2, <2>1, <2>2, <2>3, RowOfLink
<1>4. bound' = bound
  BY DEF S!Bon
<1> QED
  BY <1>1, <1>3, <1>4, SendDmrdKeeps, SendIsNext DEF SuperframeInv, S!TypeOK

\* A voice burst takes the next position and the next number.
LEMMA VoiceKeeps ==
    ASSUME SuperframeInv, NEW l \in Links, S!Voice(l)
    PROVE  SuperframeInv' /\ S!SeqFollows
<1>1. S!TypeOK /\ RowInv /\ obp_seq_ctr % SeqMod = Awaited /\ S!SendDmrd(l)
  BY DEF SuperframeInv, S!Voice
<1> DEFINE p == obp_seq_pos[l]
           g == IF bound THEN Append(heard[l], S!Embed(p % 6)) ELSE <<>>
<1>2. p \in Nat /\ heard[l] \in Seq(S!Embeds \cup {"head"}) /\ Row(heard[l], p)
  BY <1>1 DEF S!Voice, S!TypeOK, RowInv
<1>3. obp_seq_pos' = [obp_seq_pos EXCEPT ![l] = p + 1] /\ heard' = [heard EXCEPT ![l] = g]
  BY DEF S!Voice
<1>4. g \in Seq(S!Embeds \cup {"head"}) /\ Row(g, p + 1)
  <2>1. S!Embed(p % 6) \in S!Embeds \cup {"head"}
    <3>1. p % 6 \in 0..5
      BY <1>2
    <3> QED
      BY <3>1, EmbedTypes
  <2>2. /\ Append(heard[l], S!Embed(p % 6)) \in Seq(S!Embeds \cup {"head"})
        /\ Row(Append(heard[l], S!Embed(p % 6)), p + 1)
    BY <1>2, <2>1, AppendProperties, RowGrows
  <2> QED
    BY <1>2, <2>2, ShortRows
<1>5. p + 1 \in Nat
  BY <1>2
<1> HIDE DEF p, g
<1>6. IF p + 1 = NoCall THEN \E q \in Nat : Row(g, q) ELSE Row(g, p + 1)
  BY <1>4, <1>5
<1>7. RowInv' /\ obp_seq_pos' \in [Links -> Nat \cup {NoCall}]
      /\ heard' \in [Links -> Seq(S!Embeds \cup {"head"})]
  BY <1>1, <1>3, <1>4, <1>5, <1>6, RowOfLink
<1>8. bound' = bound
  BY DEF S!Voice
<1> QED
  BY <1>1, <1>7, <1>8, SendDmrdKeeps, SendIsNext DEF SuperframeInv, S!TypeOK

\* A terminator ends the call; the next one starts a superframe anew.
LEMMA CallEndsKeeps ==
    ASSUME SuperframeInv, NEW l \in Links, S!CallEnds(l)
    PROVE  SuperframeInv' /\ S!SeqFollows
<1>1. S!TypeOK /\ RowInv /\ obp_seq_ctr % SeqMod = Awaited /\ S!SendDmrd(l)
  BY DEF SuperframeInv, S!CallEnds
<1> DEFINE h == heard[l]
<1>2. /\ obp_seq_pos[l] \in Nat /\ h \in Seq(S!Embeds \cup {"head"})
      /\ Row(h, obp_seq_pos[l]) /\ heard' = [heard EXCEPT ![l] = h]
  BY <1>1 DEF S!CallEnds, S!TypeOK, RowInv
<1>3. obp_seq_pos' = [obp_seq_pos EXCEPT ![l] = NoCall] /\ bound' = bound
  BY DEF S!CallEnds
<1>4. \E q \in Nat : Row(h, q)
  BY <1>2
<1> HIDE DEF h
<1>5. RowInv' /\ obp_seq_pos' \in [Links -> Nat \cup {NoCall}]
      /\ heard' \in [Links -> Seq(S!Embeds \cup {"head"})]
  BY <1>1, <1>2, <1>3, <1>4, RowOfLink
<1> QED
  BY <1>1, <1>3, <1>5, SendDmrdKeeps, SendIsNext DEF SuperframeInv, S!TypeOK

\* Any step of the bursts keeps the invariant and the numbers in one row.
LEMMA SuperframeStep ==
    ASSUME SuperframeInv, [S!Next]_superframeVars
    PROVE  SuperframeInv' /\ [S!SeqFollows]_superframeVars
<1>1. CASE S!Toggle
  <2>1. /\ bound' = ~bound /\ obp_seq_pos' = obp_seq_pos /\ obp_seq_ctr' = obp_seq_ctr
        /\ dropped' = dropped /\ last' = last /\ heard' = heard
    BY <1>1 DEF S!Toggle
  <2>2. bound' \in BOOLEAN
    BY <2>1 DEF SuperframeInv, S!TypeOK
  <2>3. S!SeqFollows
    BY <2>1 DEF S!SeqFollows
  <2>4. RowInv'
    BY <2>1 DEF RowInv, SuperframeInv, Row
  <2>5. (obp_seq_ctr % SeqMod = Awaited)'
    BY <2>1 DEF SuperframeInv, Awaited
  <2> QED
    BY <2>1, <2>2, <2>3, <2>4, <2>5 DEF SuperframeInv, S!TypeOK
<1>2. CASE \E l \in Links : S!Bon(l) \/ S!Voice(l) \/ S!CallEnds(l)
  BY <1>2, BonKeeps, VoiceKeeps, CallEndsKeeps
<1>3. CASE UNCHANGED superframeVars
  <2>1. /\ bound' = bound /\ obp_seq_pos' = obp_seq_pos /\ obp_seq_ctr' = obp_seq_ctr
        /\ dropped' = dropped /\ last' = last /\ heard' = heard
    BY <1>3 DEF superframeVars
  <2>2. RowInv' /\ (obp_seq_ctr % SeqMod = Awaited)'
    BY <2>1 DEF RowInv, SuperframeInv, Row, Awaited
  <2> QED
    BY <1>3, <2>1, <2>2 DEF SuperframeInv, S!TypeOK
<1> QED
  BY <1>1, <1>2, <1>3 DEF S!Next

\* No call has been sent at first.
LEMMA SuperframeInit == ASSUME S!Init PROVE SuperframeInv
<1>1. SeqMod \in Nat \ {0}
  BY TrafficAssumption DEF S!ConstantsOK
<1>2. S!TypeOK
  BY <1>1, ShortRows DEF S!Init, S!TypeOK
<1>3. RowInv
  BY ShortRows DEF S!Init, RowInv
<1>4. obp_seq_ctr % SeqMod = Awaited
  BY <1>1 DEF S!Init, Awaited
<1> QED
  BY <1>2, <1>3, <1>4 DEF SuperframeInv

\* Late entry and the sync burst at the beginning follow from the row.
LEMMA SuperframeShows == ASSUME SuperframeInv PROVE LateEntry
<1> SUFFICES ASSUME NEW l \in Links
             PROVE  /\ Len(heard[l]) >= 2 /\ heard[l][1] = "head" => heard[l][2] = "sync"
                    /\ LET six == {heard[l][i] : i \in (Len(heard[l]) - 5)..Len(heard[l])}
                       IN  Len(heard[l]) >= 6 /\ "head" \notin six => six = S!Embeds
  BY DEF SuperframeInv, LateEntry, S!BeginsWithSync, S!LateEntry
<1>1. heard[l] \in Seq(S!Embeds \cup {"head"})
  BY DEF SuperframeInv, S!TypeOK
<1>2. \E q \in Nat : Row(heard[l], q)
  <2>1. obp_seq_pos[l] \in Nat \cup {NoCall}
    BY DEF SuperframeInv, S!TypeOK
  <2> QED
    BY <2>1 DEF SuperframeInv, RowInv
<1> QED
  BY <1>1, <1>2, RowIsLateEntry

-----------------------------------------------------------------------------
(* Sha: digests of messages that come in pieces *)

\* The values of n rounds, each computed by a function of the one before
Iterated(f, A, T, s0, n) ==
    f \in [0..n -> A] /\ f = [i \in 0..n |-> IF i = 0 THEN s0 ELSE T[f[i - 1]]]

LEMMA IterationExists ==
    ASSUME NEW A, NEW T \in [A -> A], NEW s0 \in A, NEW n \in Nat
    PROVE  \E f : Iterated(f, A, T, s0, n)
<1> DEFINE After(f, k) ==
             f \in [0..k -> A] /\ \A i \in 0..k : f[i] = IF i = 0 THEN s0 ELSE T[f[i - 1]]
           N == {k \in Nat : \E f : After(f, k)}
<1>1. 0 \in N
  <2> DEFINE f == [i \in 0..0 |-> s0]
  <2>1. After(f, 0)
    OBVIOUS
  <2> HIDE DEF After, f
  <2> QED
    BY <2>1
<1>2. ASSUME NEW k \in N PROVE k + 1 \in N
  <2>1. k \in Nat /\ k \in 0..k
    OBVIOUS
  <2>2. PICK f : After(f, k)
    OBVIOUS
  <2> DEFINE g == [i \in 0..(k + 1) |-> IF i = k + 1 THEN T[f[k]] ELSE f[i]]
  <2>3. /\ f \in [0..k -> A] /\ f[k] \in A
        /\ \A i \in 0..k : f[i] = IF i = 0 THEN s0 ELSE T[f[i - 1]]
    BY <2>1, <2>2
  <2>4. /\ g \in [0..(k + 1) -> A] /\ g[k + 1] = T[f[k]]
        /\ \A i \in 0..k : g[i] = f[i]
    BY <2>1, <2>3
  <2> HIDE DEF g
  <2>5. ASSUME NEW i \in 0..(k + 1)
        PROVE  g[i] = IF i = 0 THEN s0 ELSE T[g[i - 1]]
    <3>1. CASE i = k + 1
      <4>1. i # 0 /\ i - 1 = k
        BY <2>1, <3>1
      <4> QED
        BY <2>1, <2>4, <3>1, <4>1
    <3>2. CASE i = 0
      <4>1. 0 \in 0..k
        BY <2>1
      <4> QED
        BY <2>3, <2>4, <3>2, <4>1
    <3>3. CASE i \in 1..k
      <4>1. i \in 0..k /\ i - 1 \in 0..k /\ i # 0
        BY <2>1, <3>3
      <4> QED
        BY <2>3, <2>4, <4>1
    <3> QED
      BY <2>1, <3>1, <3>2, <3>3
  <2>6. After(g, k + 1)
    BY <2>4, <2>5
  <2> HIDE DEF After
  <2> QED
    BY <2>1, <2>6
<1>3. N = Nat
  <2> HIDE DEF After
  <2>1. N \in SUBSET Nat
    OBVIOUS
  <2> HIDE DEF N
  <2> QED
    BY <1>1, <1>2, <2>1, AllNaturals
<1>4. PICK f : After(f, n)
  <2> HIDE DEF After
  <2> QED
    BY <1>3
<1>5. f = [i \in 0..n |-> f[i]]
  BY <1>4
<1>6. f \in [0..n -> A] /\ f = [i \in 0..n |-> IF i = 0 THEN s0 ELSE T[f[i - 1]]]
  BY <1>4, <1>5
<1> QED
  BY <1>6 DEF Iterated

\* The quotient of a length by the block, from a length that is written with it
LEMMA Divides ==
    ASSUME Block \in Nat \ {0}, NEW q \in Nat, NEW r \in 0..(Block - 1)
    PROVE  (Block * q + r) \div Block = q /\ (Block * q + r) % Block = r
<1> DEFINE a == Block * q + r
           d == a \div Block
<1>1. a \in Int
  BY SMT
<1>2. d \in Int /\ a = Block * d + (a % Block)
  BY <1>1, TP!DivMod
<1>3. a % Block = r
  BY TP!ModUnique
<1>4. Block * d = Block * q
  <2>1. Block * d \in Int /\ Block * q \in Int
    BY <1>2, SMT
  <2> QED
    BY <1>2, <1>3, <2>1
<1>5. d = q
  BY <1>2, <1>4, SMT
<1> QED
  BY <1>3, <1>5

\* A length as blocks and a rest
LEMMA Quotient ==
    ASSUME Block \in Nat \ {0}, NEW n \in Nat
    PROVE  /\ n \div Block \in Nat /\ n % Block \in 0..(Block - 1)
           /\ Block * (n \div Block) \in 0..n
           /\ n = Block * (n \div Block) + (n % Block)
<1> DEFINE q == n \div Block
<1>1. n % Block \in 0..(Block - 1) /\ q \in Int /\ n = Block * q + (n % Block)
  BY TP!DivMod
<1>2. q >= 0
  <2>1. ASSUME q <= -1 PROVE FALSE
    <3>1. Block * q <= -Block
      BY <1>1, <2>1, SMT
    <3> QED
      BY <1>1, <3>1
  <2> QED
    BY <1>1, <2>1
<1>3. Block * q \in Nat
  BY <1>1, <1>2, SMT
<1> QED
  BY <1>1, <1>2, <1>3

\* What is cut off the end of a message that grows
LEMMA CutConcat ==
    ASSUME NEW A, NEW x \in Seq(A), NEW y \in Seq(A), NEW k \in 0..Len(x)
    PROVE  SubSeq(x \o y, k + 1, Len(x) + Len(y)) = SubSeq(x, k + 1, Len(x)) \o y
<1>1. Len(x) \in Nat /\ Len(y) \in Nat
  BY LenProperties
<1>2. /\ x \o y \in Seq(A) /\ Len(x \o y) = Len(x) + Len(y)
      /\ \A i \in 1..(Len(x) + Len(y)) : (x \o y)[i] = IF i <= Len(x) THEN x[i] ELSE y[i - Len(x)]
  BY ConcatProperties
<1> DEFINE a == SubSeq(x \o y, k + 1, Len(x) + Len(y))
           b == SubSeq(x, k + 1, Len(x))
           m == k + 1
           n == Len(x) + Len(y)
<1>3. /\ a \in Seq(A) /\ Len(a) = n - k /\ \A i \in 1..(n - k) : a[i] = (x \o y)[k + i]
  <2> DEFINE z == x \o y
  <2>1. \A i \in m..n : z[i] \in A
    BY <1>1, <1>2, ElementOfSeq
  <2>2. m \in Int /\ n \in Int /\ (IF m <= n THEN n - m + 1 ELSE 0) = n - k
        /\ \A i \in 1..(n - k) : i \in 1..(n - m + 1) /\ m + i - 1 = k + i
    BY <1>1
  <2> HIDE DEF m, n, z
  <2>3. /\ SubSeq(z, m, n) \in Seq(A)
        /\ Len(SubSeq(z, m, n)) = (IF m <= n THEN n - m + 1 ELSE 0)
        /\ \A i \in 1..(n - m + 1) : SubSeq(z, m, n)[i] = z[m + i - 1]
    BY <2>1, <2>2, SubSeqProperties
  <2>4. a = SubSeq(z, m, n)
    BY DEF m, n, z
  <2> HIDE DEF a
  <2>5. /\ a \in Seq(A) /\ Len(a) = n - k /\ \A i \in 1..(n - k) : a[i] = z[k + i]
    BY <2>2, <2>3, <2>4
  <2> QED
    BY <2>5 DEF z, n
<1>4. /\ b \in Seq(A) /\ Len(b) = Len(x) - k /\ \A i \in 1..(Len(x) - k) : b[i] = x[k + i]
  <2> DEFINE l == Len(x)
  <2>1. \A i \in m..l : x[i] \in A
    BY <1>1, ElementOfSeq
  <2>2. m \in Int /\ l \in Int /\ (IF m <= l THEN l - m + 1 ELSE 0) = l - k
        /\ \A i \in 1..(l - k) : i \in 1..(l - m + 1) /\ m + i - 1 = k + i
    BY <1>1
  <2> HIDE DEF m, l
  <2>3. /\ SubSeq(x, m, l) \in Seq(A)
        /\ Len(SubSeq(x, m, l)) = (IF m <= l THEN l - m + 1 ELSE 0)
        /\ \A i \in 1..(l - m + 1) : SubSeq(x, m, l)[i] = x[m + i - 1]
    BY <2>1, <2>2, SubSeqProperties, SMTT(30)
  <2> QED
    BY <2>2, <2>3 DEF m, l
<1> HIDE DEF a, b
<1>5. /\ b \o y \in Seq(A) /\ Len(b \o y) = Len(b) + Len(y)
      /\ \A i \in 1..(Len(b) + Len(y)) : (b \o y)[i] = IF i <= Len(b) THEN b[i] ELSE y[i - Len(b)]
  BY <1>4, ConcatProperties
<1>6. \A i \in 1..Len(a) : a[i] = (b \o y)[i]
  <2> SUFFICES ASSUME NEW i \in 1..Len(a) PROVE a[i] = (b \o y)[i]
    OBVIOUS
  <2>1. i \in 1..(n - k) /\ k + i \in 1..n /\ i \in 1..(Len(b) + Len(y))
    BY <1>1, <1>3, <1>4
  <2>2. CASE i <= Len(x) - k
    <3>1. i \in 1..(Len(x) - k) /\ k + i <= Len(x) /\ i <= Len(b)
      BY <1>1, <1>4, <2>1, <2>2
    <3>2. a[i] = (x \o y)[k + i] /\ (x \o y)[k + i] = x[k + i]
      BY <1>2, <1>3, <2>1, <3>1
    <3>3. (b \o y)[i] = b[i] /\ b[i] = x[k + i]
      BY <1>4, <1>5, <2>1, <3>1
    <3> QED
      BY <3>2, <3>3
  <2>3. CASE i > Len(x) - k
    <3>1. ~(k + i <= Len(x)) /\ ~(i <= Len(b)) /\ k + i - Len(x) = i - Len(b)
      BY <1>1, <1>4, <2>1, <2>3
    <3>2. a[i] = (x \o y)[k + i] /\ (x \o y)[k + i] = y[k + i - Len(x)]
      BY <1>2, <1>3, <2>1, <3>1
    <3>3. (b \o y)[i] = y[i - Len(b)]
      BY <1>5, <2>1, <3>1
    <3> QED
      BY <3>1, <3>2, <3>3
  <2> QED
    BY <1>1, <2>1, <2>2, <2>3
<1>7. Len(a) = Len(b \o y)
  BY <1>1, <1>3, <1>4, <1>5
<1>8. a = b \o y
  BY <1>3, <1>5, <1>6, <1>7, SeqEqual
<1> QED
  BY <1>8 DEF a, b

\* The loop of sha1_update when x was taken and r is left
Loop(x, r) == [h |-> H!Blocks(x), buf |-> H!Rest(x), rest |-> r]

\* The buffer holds what is left of the message behind its blocks.
LEMMA RestLength ==
    ASSUME Block \in Nat \ {0}, NEW A, NEW x \in Seq(A)
    PROVE  H!Rest(x) \in Seq(A) /\ Len(H!Rest(x)) = Len(x) % Block
<1> DEFINE q == Block * (Len(x) \div Block)
           a == q + 1
           b == Len(x)
<1>1. b \in Nat
  BY LenProperties
<1>2. q \in 0..b /\ b = q + (b % Block) /\ b % Block \in 0..(Block - 1)
  BY <1>1, Quotient
<1>3. H!Rest(x) = SubSeq(x, a, b)
  BY DEF H!Rest
<1> HIDE DEF q
<1>4. \A i \in a..b : x[i] \in A
  BY <1>1, <1>2, ElementOfSeq
<1>5. a \in Int /\ b \in Int /\ (IF a <= b THEN b - a + 1 ELSE 0) = b - q
  BY <1>1, <1>2
<1> HIDE DEF a, b
<1>6. /\ SubSeq(x, a, b) \in Seq(A)
      /\ Len(SubSeq(x, a, b)) = (IF a <= b THEN b - a + 1 ELSE 0)
  BY <1>4, <1>5, SubSeqProperties
<1>7. b - q = b % Block
  BY <1>1, <1>2 DEF b
<1> QED
  BY <1>3, <1>5, <1>6, <1>7 DEF b

\* The i-th block of a message stays what it is when the message grows.
LEMMA BlockStays ==
    ASSUME Block \in Nat \ {0}, NEW A, NEW x \in Seq(A), NEW y \in Seq(A),
           NEW i \in 1..(Len(x) \div Block)
    PROVE  SubSeq(x \o y, Block * (i - 1) + 1, Block * i) = SubSeq(x, Block * (i - 1) + 1, Block * i)
<1> DEFINE q == Len(x) \div Block
           a == Block * (i - 1) + 1
           b == Block * i
<1>1. Len(x) \in Nat
  BY LenProperties
<1>2. q \in Nat /\ Block * q \in 0..Len(x)
  BY <1>1, Quotient
<1>3. i \in Nat /\ i >= 1 /\ q - i \in Nat
  BY <1>2
<1>4. /\ Block * (i - 1) \in Nat /\ Block * (q - i) \in Nat
      /\ Block * q = Block * (q - i) + Block * i /\ Block * i = Block * (i - 1) + Block
  <2> HIDE DEF q
  <2>1. Block * (i - 1) \in Nat
    BY <1>3, SMT
  <2>2. Block * (q - i) \in Nat
    BY <1>3, SMT
  <2>3. Block * q = Block * (q - i) + Block * i
    BY <1>2, <1>3, SMT
  <2>4. Block * i = Block * (i - 1) + Block
    BY <1>3, SMT
  <2> QED
    BY <2>1, <2>2, <2>3, <2>4
<1> DEFINE u == Block * (i - 1)
           v == Block * (q - i)
<1>5. u \in Nat /\ v \in Nat /\ b = u + Block /\ a = u + 1 /\ v + b <= Len(x)
  BY <1>2, <1>4
<1> HIDE DEF a, b, u, v, q
<1>6. a \in 1..Len(x) /\ b \in 1..Len(x)
  BY <1>1, <1>5
<1>7. SubSeq(x \o y, a, b) = SubSeq(x, a, b)
  BY <1>6, SubSeqOfConcat1
<1> QED
  BY <1>7 DEF a, b

\* A piece that leaves the block open, and one that fills it
LEMMA PieceFits ==
    ASSUME Block \in Nat \ {0}, NEW A, NEW x \in Seq(A), NEW y \in Seq(A),
           (Len(x) % Block) + Len(y) < Block
    PROVE  H!Blocks(x \o y) = H!Blocks(x) /\ H!Rest(x \o y) = H!Rest(x) \o y
<1> DEFINE q == Len(x) \div Block
           r == Len(x) % Block
           z == x \o y
<1>1. Len(x) \in Nat /\ Len(y) \in Nat
  BY LenProperties
<1>2. z \in Seq(A) /\ Len(z) = Len(x) + Len(y)
  BY ConcatProperties
<1>3. q \in Nat /\ r \in 0..(Block - 1) /\ Block * q \in 0..Len(x) /\ Len(x) = Block * q + r
  BY <1>1, Quotient
<1>4. Len(z) \div Block = q
  <2> DEFINE t == r + Len(y)
  <2>1. t \in 0..(Block - 1)
    BY <1>1, <1>3
  <2>2. Len(z) = Block * q + t
    <3> DEFINE w == Block * q
    <3>1. w \in Int /\ Len(x) = w + r /\ r \in Int
      BY <1>3
    <3> HIDE DEF w, q, r, z
    <3>2. Len(z) = w + t
      BY <1>1, <1>2, <3>1
    <3> QED
      BY <3>2 DEF w
  <2> HIDE DEF t, q, r, z
  <2>3. (Block * q + t) \div Block = q
    BY <1>3, <2>1, Divides
  <2> QED
    BY <2>2, <2>3
<1>5. H!Blocks(z) = H!Blocks(x)
  <2>1. \A i \in 1..q :
          SubSeq(z, Block * (i - 1) + 1, Block * i) = SubSeq(x, Block * (i - 1) + 1, Block * i)
    BY BlockStays
  <2> HIDE DEF z
  <2> QED
    BY <1>4, <2>1 DEF H!Blocks
<1>6. H!Rest(z) = H!Rest(x) \o y
  <2> DEFINE k == Block * q
  <2>1. k \in 0..Len(x)
    BY <1>3
  <2>2. H!Rest(z) = SubSeq(z, k + 1, Len(x) + Len(y)) /\ H!Rest(x) = SubSeq(x, k + 1, Len(x))
    BY <1>2, <1>4 DEF H!Rest
  <2> HIDE DEF k
  <2>3. SubSeq(x \o y, k + 1, Len(x) + Len(y)) = SubSeq(x, k + 1, Len(x)) \o y
    BY <2>1, CutConcat
  <2> QED
    BY <2>2, <2>3
<1> QED
  BY <1>5, <1>6

LEMMA PieceFills ==
    ASSUME Block \in Nat \ {0}, NEW A, NEW x \in Seq(A), NEW y \in Seq(A),
           (Len(x) % Block) + Len(y) = Block
    PROVE  H!Blocks(x \o y) = Append(H!Blocks(x), H!Rest(x) \o y) /\ H!Rest(x \o y) = <<>>
<1> DEFINE q == Len(x) \div Block
           r == Len(x) % Block
           z == x \o y
           k == Block * q
<1>1. Len(x) \in Nat /\ Len(y) \in Nat
  BY LenProperties
<1>2. z \in Seq(A) /\ Len(z) = Len(x) + Len(y)
  BY ConcatProperties
<1>3. q \in Nat /\ r \in 0..(Block - 1) /\ k \in 0..Len(x) /\ Len(x) = k + r
  BY <1>1, Quotient
<1>4. Block * (q + 1) = k + Block
  BY <1>3, SMT
<1>5. Len(z) = Block * (q + 1)
  <2>1. k \in Int /\ r \in Int /\ Len(x) = k + r /\ r + Len(y) = Block
    BY <1>3
  <2> HIDE DEF k, q, r, z
  <2> QED
    BY <1>1, <1>2, <1>4, <2>1
<1>6. Len(z) \div Block = q + 1
  <2> DEFINE d == q + 1
  <2>1. d \in Nat /\ 0 \in 0..(Block - 1) /\ Len(z) = Block * d + 0
    BY <1>1, <1>2, <1>3, <1>5
  <2> HIDE DEF d
  <2>2. (Block * d + 0) \div Block = d
    BY <2>1, Divides
  <2> QED
    BY <2>1, <2>2 DEF d
<1>7. H!Rest(z) = <<>>
  <2>1. H!Rest(z) = SubSeq(z, Len(z) + 1, Len(z))
    BY <1>5, <1>6 DEF H!Rest
  <2>2. Len(z) \in Int /\ Len(z) + 1 \in Int /\ Len(z) < Len(z) + 1
    BY <1>1, <1>2
  <2> QED
    BY <2>1, <2>2, SubSeqEmpty
<1>8. SubSeq(z, k + 1, Len(x) + Len(y)) = H!Rest(x) \o y
  <2>1. H!Rest(x) = SubSeq(x, k + 1, Len(x))
    BY DEF H!Rest
  <2> HIDE DEF k
  <2>2. SubSeq(x \o y, k + 1, Len(x) + Len(y)) = SubSeq(x, k + 1, Len(x)) \o y
    BY <1>3, CutConcat
  <2> QED
    BY <2>1, <2>2
<1>9. H!Blocks(z) = Append(H!Blocks(x), H!Rest(x) \o y)
  <2> DEFINE bx == H!Blocks(x)
             bz == H!Blocks(z)
             final == H!Rest(x) \o y
             Cut(s, i) == SubSeq(s, Block * (i - 1) + 1, Block * i)
  <2>1. bx = [i \in 1..q |-> Cut(x, i)] /\ bz = [i \in 1..(q + 1) |-> Cut(z, i)]
    BY <1>6 DEF H!Blocks
  <2>2. \A i \in 1..q : Cut(z, i) = Cut(x, i)
    BY BlockStays
  <2>3. Cut(z, q + 1) = final
    <3> SUFFICES ASSUME NEW i, i = q + 1 PROVE Cut(z, i) = final
      OBVIOUS
    <3>1. Block * (i - 1) = k /\ Block * i = Len(x) + Len(y)
      <4>1. i - 1 = q
        BY <1>3
      <4> QED
        BY <1>2, <1>5, <4>1
    <3> HIDE DEF final, z, q, k
    <3> QED
      BY <1>8, <3>1, Zenon DEF final
  <2> DEFINE W == {Cut(z, i) : i \in 1..(q + 1)}
  <2> HIDE DEF bx, bz, final, Cut, q, z
  <2>4. bx \in Seq(W) /\ bz \in Seq(W) /\ final \in W /\ Len(bx) = q /\ Len(bz) = q + 1
    <3>1. q + 1 \in 1..(q + 1) /\ \A i \in 1..q : i \in 1..(q + 1)
      BY <1>3
    <3>2. bx \in [1..q -> W] /\ bz \in [1..(q + 1) -> W] /\ final \in W
      BY <2>1, <2>2, <2>3, <3>1
    <3> HIDE DEF W
    <3> QED
      BY <1>3, <3>2
  <2> HIDE DEF W
  <2> DEFINE app == Append(bx, final)
  <2>5. /\ app \in Seq(W) /\ Len(app) = q + 1
        /\ \A i \in 1..q : app[i] = bx[i]
        /\ app[q + 1] = final
    BY <2>4, AppendProperties
  <2> HIDE DEF app
  <2>6. \A i \in 1..(q + 1) : bz[i] = app[i]
    <3> HIDE DEF k
    <3>0. q \in Nat
      BY <1>3
    <3> SUFFICES ASSUME NEW i \in 1..(q + 1) PROVE bz[i] = app[i]
      OBVIOUS
    <3>1. CASE i \in 1..q
      <4>1. bz[i] = Cut(z, i) /\ bx[i] = Cut(x, i)
        BY <2>1, <3>1
      <4> QED
        BY <2>2, <2>5, <3>1, <4>1
    <3>2. CASE i = q + 1
      <4>1. bz[q + 1] = Cut(z, q + 1)
        BY <2>1, <3>0
      <4> QED
        BY <2>3, <2>5, <3>2, <4>1
    <3> QED
      BY <3>0, <3>1, <3>2
  <2>7. bz = app
    BY <2>4, <2>5, <2>6, SeqEqual
  <2> QED
    BY <2>7 DEF bx, bz, final, app
<1> QED
  BY <1>7, <1>9

\* A sequence in two pieces
LEMMA TwoPieces ==
    ASSUME NEW A, NEW r \in Seq(A), NEW k \in 0..Len(r)
    PROVE  /\ SubSeq(r, 1, k) \in Seq(A) /\ Len(SubSeq(r, 1, k)) = k
           /\ SubSeq(r, k + 1, Len(r)) \in Seq(A) /\ Len(SubSeq(r, k + 1, Len(r))) = Len(r) - k
           /\ SubSeq(r, 1, k) \o SubSeq(r, k + 1, Len(r)) = r
<1> DEFINE n == Len(r)
<1>1. n \in Nat
  BY LenProperties
<1>2. /\ SubSeq(r, 1, k) \in Seq(A)
      /\ Len(SubSeq(r, 1, k)) = (IF 1 <= k THEN k - 1 + 1 ELSE 0)
  <2>1. \A i \in 1..k : r[i] \in A
    BY <1>1, ElementOfSeq
  <2> QED
    BY <1>1, <2>1, SubSeqProperties
<1>3. SubSeq(r, k + 1, n) \in Seq(A) /\ Len(SubSeq(r, k + 1, n)) = n - k
  <2> DEFINE m == k + 1
  <2>1. \A i \in m..n : r[i] \in A
    BY <1>1, ElementOfSeq
  <2>2. m \in Int /\ n \in Int /\ (IF m <= n THEN n - m + 1 ELSE 0) = n - k
    BY <1>1
  <2> HIDE DEF m, n
  <2>3. SubSeq(r, m, n) \in Seq(A) /\ Len(SubSeq(r, m, n)) = (IF m <= n THEN n - m + 1 ELSE 0)
    BY <2>1, <2>2, SubSeqProperties
  <2> QED
    BY <2>2, <2>3 DEF m
<1>4. SubSeq(r, 1, k) \o SubSeq(r, k + 1, n) = SubSeq(r, 1, n)
  <2>1. 1 \in 1..(n + 1) /\ k \in (1 - 1)..n /\ n \in k..n
    BY <1>1
  <2> HIDE DEF n
  <2> QED
    BY <2>1, ConcatAdjacentSubSeq DEF n
<1>5. SubSeq(r, 1, n) = r
  BY SubSeqFull
<1>6. (IF 1 <= k THEN k - 1 + 1 ELSE 0) = k
  BY <1>1
<1> QED
  BY <1>2, <1>3, <1>4, <1>5, <1>6

\* A piece is moved from the front of what is left to the end of what was taken.
LEMMA PieceMoves ==
    ASSUME NEW A, NEW x \in Seq(A), NEW r \in Seq(A), NEW k \in 0..Len(r)
    PROVE  (x \o SubSeq(r, 1, k)) \o SubSeq(r, k + 1, Len(r)) = x \o r
<1> DEFINE y == SubSeq(r, 1, k)
           z == SubSeq(r, k + 1, Len(r))
<1>1. y \in Seq(A) /\ z \in Seq(A) /\ y \o z = r
  BY TwoPieces
<1>2. \A s, t \in Seq(A) : (x \o s) \o t = x \o (s \o t)
  BY ConcatAssociative, SMTT(30)
<1> HIDE DEF y, z
<1>3. (x \o y) \o z = x \o (y \o z)
  BY <1>1, <1>2, Zenon
<1> QED
  BY <1>1, <1>3 DEF y, z

\* One turn of the loop of sha1_update
LEMMA TurnTakes ==
    ASSUME H!ConstantsOK, NEW A, NEW x \in Seq(A), NEW r \in Seq(A), r # <<>>
    PROVE  \E k \in 1..Len(r) :
             H!Turn(Loop(x, r)) = Loop(x \o SubSeq(r, 1, k), SubSeq(r, k + 1, Len(r)))
<1> DEFINE k == H!Smaller(Block - Len(H!Rest(x)), Len(r))
           y == SubSeq(r, 1, k)
           z == SubSeq(r, k + 1, Len(r))
           buf == H!Rest(x) \o y
<1>1. Block \in Nat \ {0} /\ Len(x) \in Nat /\ Len(r) \in Nat \ {0}
  BY LenProperties, EmptySeq DEF H!ConstantsOK
<1>2. H!Rest(x) \in Seq(A) /\ Len(H!Rest(x)) = Len(x) % Block /\ Len(x) % Block \in 0..(Block - 1)
  BY <1>1, RestLength, Quotient
<1>3. k \in 1..Len(r) /\ (Len(x) % Block) + k <= Block
  <2> DEFINE t == Len(x) % Block
  <2>1. t \in 0..(Block - 1) /\ k = H!Smaller(Block - t, Len(r))
    BY <1>2
  <2> HIDE DEF t, k
  <2>2. k \in 1..Len(r) /\ t + k <= Block
    BY <1>1, <2>1 DEF H!Smaller
  <2> QED
    BY <2>2 DEF t
<1> HIDE DEF k
<1>4. y \in Seq(A) /\ Len(y) = k
  BY <1>1, <1>3, TwoPieces
<1>5. Len(buf) = (Len(x) % Block) + k
  BY <1>2, <1>4, ConcatProperties
<1>6. H!Turn(Loop(x, r)) =
        [h |-> IF Len(buf) = Block THEN Append(H!Blocks(x), buf) ELSE H!Blocks(x),
         buf |-> IF Len(buf) = Block THEN <<>> ELSE buf, rest |-> z]
  BY DEF H!Turn, Loop, k
<1>7. CASE Len(buf) = Block
  <2>1. H!Blocks(x \o y) = Append(H!Blocks(x), buf) /\ H!Rest(x \o y) = <<>>
    <3>1. (Len(x) % Block) + Len(y) = Block
      BY <1>4, <1>5, <1>7
    <3> HIDE DEF y
    <3> QED
      BY <1>1, <1>4, <3>1, PieceFills
  <2>2. H!Turn(Loop(x, r)) = Loop(x \o y, z)
    BY <1>6, <1>7, <2>1 DEF Loop
  <2> QED
    BY <1>3, <2>2
<1>8. CASE Len(buf) # Block
  <2>1. H!Blocks(x \o y) = H!Blocks(x) /\ H!Rest(x \o y) = buf
    <3>1. (Len(x) % Block) + Len(y) < Block
      <4> DEFINE t == Len(x) % Block
      <4>1. t \in Int /\ t + k <= Block /\ t + k # Block
        BY <1>2, <1>3, <1>5, <1>8
      <4> HIDE DEF t, y
      <4>2. t + Len(y) < Block
        BY <1>1, <1>3, <1>4, <4>1
      <4> QED
        BY <4>2 DEF t
    <3> HIDE DEF y
    <3> QED
      BY <1>1, <1>4, <3>1, PieceFits
  <2>2. H!Turn(Loop(x, r)) = Loop(x \o y, z)
    BY <1>6, <1>8, <2>1 DEF Loop
  <2> QED
    BY <1>3, <2>2
<1> QED
  BY <1>7, <1>8

\* The turns of the loop, from s0 on, and the context that it begins with
Turns(f, s0, n) == f = [i \in 0..n |-> IF i = 0 THEN s0 ELSE H!Turn(f[i - 1])]

Begun(c, p) == [h |-> c.h, buf |-> c.buf, rest |-> p]

LEMMA TurnsExist ==
    ASSUME H!ConstantsOK, NEW A, NEW m \in Seq(A), NEW p \in Seq(A), NEW n \in Nat
    PROVE  \E f : Turns(f, Loop(m, p), n)
<1> DEFINE States == {Loop(xr[1], xr[2]) : xr \in Seq(A) \X Seq(A)}
           T == [s \in States |-> H!Turn(s)]
           s0 == Loop(m, p)
<1>1. ASSUME NEW x \in Seq(A), NEW r \in Seq(A) PROVE Loop(x, r) \in States
  <2>1. <<x, r>> \in Seq(A) \X Seq(A) /\ <<x, r>>[1] = x /\ <<x, r>>[2] = r
    OBVIOUS
  <2> QED
    BY <2>1
<1>2. ASSUME NEW s \in States PROVE H!Turn(s) \in States
  <2>1. PICK x \in Seq(A), r \in Seq(A) : s = Loop(x, r)
    OBVIOUS
  <2>2. CASE r = <<>>
    <3>1. Loop(x, r).rest = r
      BY DEF Loop
    <3>2. H!Turn(s) = s
      BY <2>1, <2>2, <3>1 DEF H!Turn
    <3> QED
      BY <3>2
  <2>3. CASE r # <<>>
    <3>1. PICK k \in 1..Len(r) :
            H!Turn(s) = Loop(x \o SubSeq(r, 1, k), SubSeq(r, k + 1, Len(r)))
      BY <2>1, <2>3, TurnTakes
    <3>2. k \in 0..Len(r)
      BY LenProperties
    <3>3. SubSeq(r, 1, k) \in Seq(A) /\ SubSeq(r, k + 1, Len(r)) \in Seq(A)
      BY <3>2, TwoPieces
    <3>4. x \o SubSeq(r, 1, k) \in Seq(A)
      BY <3>3, ConcatProperties
    <3> HIDE DEF States
    <3> QED
      BY <1>1, <3>1, <3>3, <3>4
  <2> QED
    BY <2>2, <2>3
<1>3. s0 \in States
  BY <1>1
<1> HIDE DEF States, s0
<1>4. T \in [States -> States]
  BY <1>2
<1> DEFINE TT == T
<1>5. TT \in [States -> States] /\ \A s \in States : TT[s] = H!Turn(s)
  BY <1>4
<1> HIDE DEF TT
<1>6. PICK f : Iterated(f, States, TT, s0, n)
  BY <1>3, <1>5, IterationExists
<1>a. /\ f \in [0..n -> States]
      /\ f = [i \in 0..n |-> IF i = 0 THEN s0 ELSE TT[f[i - 1]]]
  BY <1>6 DEF Iterated
<1>7. \A i \in 0..n : i # 0 => TT[f[i - 1]] = H!Turn(f[i - 1])
  <2> SUFFICES ASSUME NEW i \in 0..n, i # 0 PROVE TT[f[i - 1]] = H!Turn(f[i - 1])
    OBVIOUS
  <2>1. i - 1 \in 0..n
    OBVIOUS
  <2>2. f[i - 1] \in States
    BY <1>a, <2>1
  <2> QED
    BY <1>5, <2>2
<1>8. [i \in 0..n |-> IF i = 0 THEN s0 ELSE TT[f[i - 1]]]
        = [i \in 0..n |-> IF i = 0 THEN s0 ELSE H!Turn(f[i - 1])]
  BY <1>7, Zenon
<1>9. Turns(f, s0, n)
  BY <1>a, <1>8 DEF Turns
<1> QED
  BY <1>9 DEF s0

\* sha1_update takes all that it is given, in whatever pieces.
LEMMA UpdateTakes ==
    ASSUME H!ConstantsOK, NEW A, NEW m \in Seq(A), NEW p \in Seq(A)
    PROVE  H!Update(H!Held(m), p) = H!Held(m \o p)
<1> DEFINE n == Len(p)
           s0 == Loop(m, p)
           after == CHOOSE f : Turns(f, s0, n)
           end == after[n]
<1>1. n \in Nat /\ Len(m) \in Nat
  BY LenProperties
<1>2. H!Update(H!Held(m), p) = [h |-> end.h, len |-> H!Held(m).len + 8 * n, buf |-> end.buf]
  <2>1. H!Held(m).h = H!Blocks(m) /\ H!Held(m).buf = H!Rest(m)
    BY DEF H!Held
  <2>2. Begun(H!Held(m), p) = s0
    BY <2>1 DEF Begun, Loop
  <2>3. H!Update(H!Held(m), p) =
          LET a == CHOOSE f : Turns(f, Begun(H!Held(m), p), Len(p))
          IN  [h |-> a[Len(p)].h, len |-> H!Held(m).len + 8 * Len(p), buf |-> a[Len(p)].buf]
    BY DEF H!Update, Turns, Begun
  <2> QED
    BY <2>2, <2>3
<1>3. \E f : Turns(f, s0, n)
  BY <1>1, TurnsExist
<1>4. Turns(after, s0, n)
  <2> HIDE DEF n, s0
  <2> QED
    BY <1>3
<1> HIDE DEF after
<1>5. after[0] = s0 /\ \A i \in 1..n : after[i] = H!Turn(after[i - 1])
  <2> HIDE DEF s0
  <2>1. after = [i \in 0..n |-> IF i = 0 THEN s0 ELSE H!Turn(after[i - 1])]
    BY <1>4 DEF Turns
  <2> HIDE DEF n
  <2>2. 0 \in 0..n /\ \A i \in 1..n : i \in 0..n /\ i # 0
    BY <1>1
  <2>3. \A i \in 0..n : after[i] = IF i = 0 THEN s0 ELSE H!Turn(after[i - 1])
    BY <2>1, Zenon
  <2> QED
    BY <2>2, <2>3
<1> DEFINE Reached(k) == \E x \in Seq(A), r \in Seq(A) :
             after[k] = Loop(x, r) /\ x \o r = m \o p /\ (r = <<>> \/ Len(r) <= n - k)
           N == {k \in Nat : k <= n => Reached(k)}
<1>6. 0 \in N
  BY <1>1, <1>5, SMTT(30)
<1>7. ASSUME NEW k \in N PROVE k + 1 \in N
  <2> HIDE DEF Reached
  <2> SUFFICES ASSUME k + 1 <= n PROVE Reached(k + 1)
    OBVIOUS
  <2>1. k \in Nat /\ Reached(k) /\ k + 1 \in 1..n /\ k + 1 - 1 = k
    BY <1>1
  <2> USE DEF Reached
  <2>2. after[k + 1] = H!Turn(after[k])
    BY <1>5, <2>1
  <2>3. PICK x \in Seq(A), r \in Seq(A) :
          after[k] = Loop(x, r) /\ x \o r = m \o p /\ (r = <<>> \/ Len(r) <= n - k)
    BY <2>1
  <2>4. CASE r = <<>>
    <3>1. Loop(x, r).rest = r
      BY DEF Loop
    <3>2. H!Turn(Loop(x, r)) = Loop(x, r)
      BY <2>4, <3>1 DEF H!Turn
    <3> QED
      BY <2>2, <2>3, <2>4, <3>2
  <2>5. CASE r # <<>>
    <3>1. PICK j \in 1..Len(r) :
            H!Turn(Loop(x, r)) = Loop(x \o SubSeq(r, 1, j), SubSeq(r, j + 1, Len(r)))
      BY <2>5, TurnTakes
    <3> DEFINE y == SubSeq(r, 1, j)
               z == SubSeq(r, j + 1, Len(r))
    <3>2. Len(r) \in Nat /\ j \in 0..Len(r)
      BY LenProperties
    <3>3. y \in Seq(A) /\ z \in Seq(A) /\ Len(z) = Len(r) - j /\ y \o z = r
      BY <3>2, TwoPieces
    <3>4. after[k + 1] = Loop(x \o y, z)
      BY <2>2, <2>3, <3>1
    <3> HIDE DEF y, z
    <3>5. x \o y \in Seq(A) /\ (x \o y) \o z = m \o p
      BY <2>3, <3>2, <3>3, PieceMoves, ConcatProperties DEF y, z
    <3>6. Len(z) <= n - (k + 1)
      BY <1>1, <2>1, <2>3, <2>5, <3>2, <3>3
    <3> QED
      BY <3>3, <3>4, <3>5, <3>6
  <2> QED
    BY <2>4, <2>5
<1>8. N = Nat
  <2>1. N \in SUBSET Nat
    OBVIOUS
  <2> HIDE DEF N
  <2> QED
    BY <1>6, <1>7, <2>1, AllNaturals
<1>9. after[n] = Loop(m \o p, <<>>)
  <2>1. PICK x \in Seq(A), r \in Seq(A) :
          after[n] = Loop(x, r) /\ x \o r = m \o p /\ (r = <<>> \/ Len(r) <= n - n)
    <3> HIDE DEF Reached
    <3>1. n \in N /\ n <= n
      BY <1>1, <1>8
    <3>2. Reached(n)
      BY <3>1
    <3> QED
      BY <3>2 DEF Reached
  <2>2. r = <<>>
    BY <1>1, <2>1, EmptySeq
  <2> QED
    BY <2>1, <2>2, ConcatEmptySeq
<1>10. end.h = H!Blocks(m \o p) /\ end.buf = H!Rest(m \o p)
  BY <1>9 DEF Loop
<1>11. H!Held(m).len + 8 * n = 8 * Len(m \o p)
  <2>1. Len(m \o p) = Len(m) + n /\ H!Held(m).len = 8 * Len(m)
    BY ConcatProperties DEF H!Held
  <2> HIDE DEF n
  <2> QED
    BY <1>1, <2>1
<1> HIDE DEF end, n
<1> QED
  BY <1>2, <1>10, <1>11 DEF H!Held

\* A zero more
Zeros(n) == H!Repeated(H!D(0), n)

LEMMA OneMoreZero ==
    ASSUME NEW A, H!D(0) \in A, NEW x \in Seq(A), NEW k \in Nat
    PROVE  /\ Zeros(k) \in Seq(A) /\ Len(Zeros(k)) = k
           /\ x \o Zeros(k) \in Seq(A) /\ Len(x \o Zeros(k)) = Len(x) + k
           /\ (x \o Zeros(k)) \o <<H!D(0)>> = x \o Zeros(k + 1)
           /\ x \o Zeros(0) = x
<1> DEFINE b == H!D(0)
           y == Zeros(k)
           z == Zeros(k + 1)
           one == <<b>>
<1>b. b \in A
  OBVIOUS
<1> HIDE DEF b
<1>1. /\ y \in Seq(A) /\ Len(y) = k /\ \A i \in 1..k : y[i] = b
      /\ z \in Seq(A) /\ Len(z) = k + 1 /\ \A i \in 1..(k + 1) : z[i] = b
      /\ one \in Seq(A) /\ Len(one) = 1 /\ one[1] = b
  <2>1. /\ [i \in 1..k |-> b] \in [1..k -> A]
        /\ [i \in 1..(k + 1) |-> b] \in [1..(k + 1) -> A]
    BY <1>b
  <2>2. y = [i \in 1..k |-> b] /\ z = [i \in 1..(k + 1) |-> b]
    BY DEF H!Repeated, Zeros, b
  <2> HIDE DEF y, z
  <2> QED
    BY <1>b, <2>1, <2>2
<1>2. Zeros(0) = <<>>
  <2>1. 1..0 = {}
    OBVIOUS
  <2> QED
    BY <2>1 DEF H!Repeated, Zeros, b
<1>3. x \o <<>> = x
  BY ConcatEmptySeq
<1> HIDE DEF y, z, one
<1>4. y \o one = z
  <2>1. y \o one = Append(y, b)
    BY <1>1, <1>b, AppendIsConcat DEF one
  <2>2. /\ Append(y, b) \in Seq(A) /\ Len(Append(y, b)) = Len(y) + 1
        /\ \A i \in 1..Len(y) : Append(y, b)[i] = y[i]
        /\ Append(y, b)[Len(y) + 1] = b
    BY <1>1, <1>b, AppendProperties
  <2> DEFINE a == Append(y, b)
  <2>3. /\ a \in Seq(A) /\ Len(a) = k + 1 /\ a[k + 1] = b /\ \A i \in 1..k : a[i] = b
    BY <1>1, <2>2
  <2> HIDE DEF a
  <2>4. ASSUME NEW i \in 1..(k + 1) PROVE a[i] = z[i]
    <3>1. i \in 1..k \/ i = k + 1
      OBVIOUS
    <3> QED
      BY <1>1, <2>3, <3>1
  <2>5. a = z
    BY <1>1, <2>3, <2>4, SeqEqual
  <2> QED
    BY <2>1, <2>5 DEF a
<1>5. \A s, t \in Seq(A) : (x \o s) \o t = x \o (s \o t)
  BY ConcatAssociative
<1>6. (x \o y) \o one = x \o z
  BY <1>1, <1>4, <1>5, Zenon
<1>7. x \o y \in Seq(A) /\ Len(x \o y) = Len(x) + k
  BY <1>1, ConcatProperties
<1> QED
  BY <1>1, <1>2, <1>3, <1>6, <1>7 DEF y, z, one, b

\* Behind n bytes the loop of sha1_final stops after z zeros, and not before.
StopsAfter(n, z) ==
    /\ z \in 0..(Block - 1)
    /\ \A j \in 0..z : (n + j) % Block = Block - LenBytes <=> j = z

\* The number of zeros of the padding: there is one, and it is the first with
\* which the length of the message fits exactly behind them.
LEMMA ZerosFit ==
    ASSUME H!ConstantsOK, NEW n \in Nat
    PROVE  LET z == CHOOSE z \in 0..(Block - 1) : (n + z + LenBytes) % Block = 0
           IN  StopsAfter(n, z)
<1> DEFINE Fits(z) == (n + z + LenBytes) % Block = 0
           c == CHOOSE z \in 0..(Block - 1) : Fits(z)
           a == n + LenBytes
           t == a % Block
           q == a \div Block
<1>1. Block \in Nat \ {0} /\ LenBytes \in 1..(Block - 1)
  BY DEF H!ConstantsOK
<1>2. a \in Nat /\ a >= 1
  BY <1>1
<1>3. q \in Nat /\ t \in 0..(Block - 1) /\ Block * q \in Nat /\ a = Block * q + t
  <2> HIDE DEF a
  <2> QED
    BY <1>1, <1>2, Quotient
<1>4. \E z \in 0..(Block - 1) : Fits(z)
  <2>1. CASE t = 0
    <3>1. n + 0 + LenBytes = a
      BY <1>1
    <3>2. Fits(0)
      BY <2>1, <3>1, Zenon
    <3>3. 0 \in 0..(Block - 1)
      BY <1>1
    <3> QED
      BY <3>2, <3>3, Zenon
  <2>2. CASE t # 0
    <3> DEFINE z == Block - t
               d == q + 1
    <3>1. z \in 0..(Block - 1) /\ d \in Nat
      BY <1>1, <1>3, <2>2
    <3>2. Block * d = Block * q + Block
      <4> HIDE DEF q
      <4> QED
        BY <1>1, <1>3, SMT
    <3>3. n + z + LenBytes = Block * d + 0
      <4> DEFINE w == Block * q
      <4>1. w \in Int /\ a = w + t /\ t \in Int /\ Block * d = w + Block
        BY <1>3, <3>2
      <4>2. n + z + LenBytes = a + Block - t
        <5>1. t \in Int
          BY <1>3
        <5> HIDE DEF t
        <5> QED
          BY <1>1, <5>1
      <4> HIDE DEF w, t, q, z, d, a
      <4> QED
        BY <1>1, <1>2, <4>1, <4>2
    <3> HIDE DEF d, z, t, q
    <3>4. (Block * d + 0) % Block = 0
      BY <1>1, <3>1, Divides
    <3>5. Fits(z)
      BY <3>3, <3>4
    <3> QED
      BY <3>1, <3>5
  <2> QED
    BY <2>1, <2>2
<1> HIDE DEF Fits
<1>5. c \in 0..(Block - 1) /\ Fits(c)
  BY <1>4
<1> HIDE DEF c
<1> DEFINE s == n + c + LenBytes
           e == s \div Block
<1>6. s \in Nat /\ s >= 1 /\ s % Block = 0
  BY <1>1, <1>5 DEF Fits
<1>7. e \in Nat /\ s = Block * e
  <2> HIDE DEF s
  <2>1. e \in Nat /\ s = Block * e + (s % Block) /\ Block * e \in Int
    BY <1>1, <1>6, Quotient
  <2> HIDE DEF e
  <2> QED
    BY <1>6, <2>1
<1>8. e >= 1 /\ e - 1 \in Nat
  <2>1. ASSUME e = 0 PROVE FALSE
    <3>1. Block * e = 0
      BY <1>1, <2>1
    <3> HIDE DEF s, e
    <3> QED
      BY <1>6, <1>7, <3>1
  <2> HIDE DEF e, s
  <2> QED
    BY <1>7, <2>1
<1>9. Block * (e - 1) = s - Block
  <2> HIDE DEF s, e
  <2>1. Block * (e - 1) = Block * e - Block
    BY <1>1, <1>7, SMT
  <2> QED
    BY <1>7, <2>1
<1>10. ASSUME NEW j \in 0..c PROVE (n + j) % Block = Block - LenBytes <=> j = c
  <2>1. ASSUME j = c PROVE (n + j) % Block = Block - LenBytes
    <3> DEFINE f == e - 1
               r == Block - LenBytes
    <3>1. f \in Nat /\ r \in 0..(Block - 1)
      BY <1>1, <1>8
    <3>2. Block * f = s - Block
      BY <1>9
    <3> HIDE DEF f, e
    <3>3. n + j = Block * f + r
      <4> DEFINE w == Block * f
      <4>1. w = s - Block
        BY <3>2
      <4> HIDE DEF w
      <4>2. n + j = w + r
        BY <1>1, <1>5, <2>1, <4>1
      <4> QED
        BY <4>2 DEF w
    <3> HIDE DEF r
    <3>4. (Block * f + r) % Block = r
      BY <1>1, <3>1, Divides
    <3> QED
      BY <3>3, <3>4 DEF r
  <2>2. ASSUME (n + j) % Block = Block - LenBytes, j # c PROVE FALSE
    <3> DEFINE b == n + j
               p == b \div Block
               g == e - 1 - p
    <3>1. b \in Nat
      BY <1>5
    <3>2. p \in Nat /\ Block * p \in Nat /\ b = Block * p + (b % Block)
      <4> HIDE DEF b
      <4> QED
        BY <1>1, <3>1, Quotient
    <3>3. g \in Int
      BY <1>8, <3>2
    <3>4. Block * g = Block * (e - 1) - Block * p
      <4> HIDE DEF e, p
      <4> QED
        BY <1>1, <1>7, <3>2, SMT
    <3>5. Block * g = c - j
      <4> DEFINE w == Block * p
      <4>1. w \in Int /\ b = w + (Block - LenBytes) /\ Block * g = (s - Block) - w
        BY <1>9, <2>2, <3>2, <3>4
      <4> HIDE DEF w, g, p, e
      <4>2. c - j = (s - Block) - w
        BY <1>1, <1>5, <4>1
      <4> QED
        BY <4>1, <4>2
    <3>6. c - j \in 1..(Block - 1)
      BY <1>1, <1>5, <2>2
    <3> HIDE DEF g, p, b, e, s
    <3>7. CASE g <= 0
      <4>1. Block * g <= 0
        BY <1>1, <3>3, <3>7, SMT
      <4> QED
        BY <3>5, <3>6, <4>1
    <3>8. CASE g >= 1
      <4>1. Block * g >= Block
        BY <1>1, <3>3, <3>8, SMT
      <4> QED
        BY <1>1, <3>5, <3>6, <4>1
    <3> QED
      BY <3>3, <3>7, <3>8
  <2> QED
    BY <2>1, <2>2
<1> QED
  BY <1>5, <1>10 DEF c, Fits, StopsAfter

\* The loop of sha1_final, from c on
Paddings(f, c, n) == f = [i \in 0..n |-> IF i = 0 THEN c ELSE H!PadZero(f[i - 1])]

LEMMA PaddingsExist ==
    ASSUME H!ConstantsOK, NEW A, H!D(0) \in A, NEW x \in Seq(A), NEW n \in Nat
    PROVE  \E f : Paddings(f, H!Held(x), n)
<1> DEFINE Contexts == {H!Held(m) : m \in Seq(A)}
           T == [c \in Contexts |-> H!PadZero(c)]
           c0 == H!Held(x)
           one == <<H!D(0)>>
<1>1. one \in Seq(A)
  OBVIOUS
<1> HIDE DEF one
<1>2. ASSUME NEW c \in Contexts PROVE H!PadZero(c) \in Contexts
  <2>1. PICK m \in Seq(A) : c = H!Held(m)
    OBVIOUS
  <2>2. H!Update(c, one) = H!Held(m \o one) /\ m \o one \in Seq(A)
    BY <1>1, <2>1, UpdateTakes, ConcatProperties
  <2>3. H!PadZero(c) = c \/ H!PadZero(c) = H!Update(c, one)
    BY DEF H!PadZero, one
  <2> QED
    BY <2>2, <2>3
<1>3. c0 \in Contexts
  OBVIOUS
<1> HIDE DEF Contexts, c0
<1>4. T \in [Contexts -> Contexts]
  BY <1>2
<1> DEFINE TT == T
<1>5. TT \in [Contexts -> Contexts] /\ \A c \in Contexts : TT[c] = H!PadZero(c)
  BY <1>4
<1> HIDE DEF TT
<1>6. PICK f : Iterated(f, Contexts, TT, c0, n)
  BY <1>3, <1>5, IterationExists
<1>7. /\ f \in [0..n -> Contexts]
      /\ f = [i \in 0..n |-> IF i = 0 THEN c0 ELSE TT[f[i - 1]]]
  BY <1>6 DEF Iterated
<1>8. \A i \in 0..n : i # 0 => TT[f[i - 1]] = H!PadZero(f[i - 1])
  <2> SUFFICES ASSUME NEW i \in 0..n, i # 0 PROVE TT[f[i - 1]] = H!PadZero(f[i - 1])
    OBVIOUS
  <2>1. i - 1 \in 0..n
    OBVIOUS
  <2>2. f[i - 1] \in Contexts
    BY <1>7, <2>1
  <2> QED
    BY <1>5, <2>2
<1>9. [i \in 0..n |-> IF i = 0 THEN c0 ELSE TT[f[i - 1]]]
        = [i \in 0..n |-> IF i = 0 THEN c0 ELSE H!PadZero(f[i - 1])]
  BY <1>8, Zenon
<1>10. Paddings(f, c0, n)
  BY <1>7, <1>9 DEF Paddings
<1> QED
  BY <1>10 DEF c0

\* The zeros of the padding stop where they should.
LEMMA PadZerosStop ==
    ASSUME H!ConstantsOK, NEW A, H!D(0) \in A, NEW x \in Seq(A), NEW z,
           StopsAfter(Len(x), z)
    PROVE  H!PadZeros(H!Held(x)) = H!Held(x \o Zeros(z))
<1> DEFINE zero == H!D(0)
           Z(j) == x \o Zeros(j)
           c0 == H!Held(x)
           after == CHOOSE f : Paddings(f, c0, Block)
<1>1. Block \in Nat \ {0} /\ Len(x) \in Nat /\ zero \in A
  BY LenProperties DEF H!ConstantsOK
<1>z. z \in 0..(Block - 1)
  BY DEF StopsAfter
<1>2. H!PadZeros(c0) = after[Block]
  BY DEF H!PadZeros, Paddings
<1>3. \E f : Paddings(f, c0, Block)
  BY <1>1, PaddingsExist
<1> HIDE DEF c0
<1>4. Paddings(after, c0, Block)
  BY <1>3
<1> HIDE DEF after
<1>5. after[0] = c0 /\ \A i \in 1..Block : after[i] = H!PadZero(after[i - 1])
  <2>1. after = [i \in 0..Block |-> IF i = 0 THEN c0 ELSE H!PadZero(after[i - 1])]
    BY <1>4 DEF Paddings
  <2>2. 0 \in 0..Block /\ \A i \in 1..Block : i \in 0..Block /\ i # 0
    BY <1>1
  <2>3. \A i \in 0..Block : after[i] = IF i = 0 THEN c0 ELSE H!PadZero(after[i - 1])
    BY <2>1, Zenon
  <2> QED
    BY <2>2, <2>3
<1>6. \A j \in Nat : /\ Z(j) \in Seq(A) /\ Len(Z(j)) = Len(x) + j
                     /\ Z(j) \o <<zero>> = Z(j + 1) /\ Z(0) = x
  <2> SUFFICES ASSUME NEW j \in Nat
               PROVE  /\ Z(j) \in Seq(A) /\ Len(Z(j)) = Len(x) + j
                      /\ Z(j) \o <<zero>> = Z(j + 1) /\ Z(0) = x
    OBVIOUS
  <2>1. Z(j) \in Seq(A) /\ Len(Z(j)) = Len(x) + j
    BY <1>1, OneMoreZero
  <2>2. Z(j) \o <<zero>> = Z(j + 1)
    BY <1>1, OneMoreZero, ZenonT(30)
  <2>3. Z(0) = x
    BY <1>1, OneMoreZero
  <2> QED
    BY <2>1, <2>2, <2>3
<1> HIDE DEF Z, zero
<1>7. ASSUME NEW j \in 0..z
      PROVE  H!PadZero(H!Held(Z(j))) = IF j = z THEN H!Held(Z(j)) ELSE H!Held(Z(j + 1))
  <2>1. Z(j) \in Seq(A) /\ Len(Z(j)) = Len(x) + j /\ Z(j) \o <<zero>> = Z(j + 1)
    <3>1. j \in Nat
      OBVIOUS
    <3> QED
      BY <1>6, <3>1, Zenon
  <2> DEFINE y == Z(j)
  <2> HIDE DEF y
  <2>2. Len(H!Rest(y)) = (Len(x) + j) % Block
    <3>1. y \in Seq(A) /\ Len(y) = Len(x) + j
      BY <2>1 DEF y
    <3>2. Len(H!Rest(y)) = Len(y) % Block
      BY <1>1, <3>1, RestLength
    <3> QED
      BY <3>1, <3>2
  <2>3. H!Held(y).buf = H!Rest(y)
    BY DEF H!Held
  <2>4. Len(H!Held(y).buf) = Block - LenBytes <=> j = z
    BY <2>2, <2>3 DEF StopsAfter
  <2>5. H!Update(H!Held(y), <<zero>>) = H!Held(Z(j + 1))
    <3> DEFINE one == <<zero>>
    <3>1. one \in Seq(A) /\ y \in Seq(A) /\ y \o one = Z(j + 1)
      BY <1>1, <2>1 DEF y
    <3> HIDE DEF one
    <3>2. H!Update(H!Held(y), one) = H!Held(y \o one)
      BY <3>1, UpdateTakes
    <3> QED
      BY <3>1, <3>2 DEF one
  <2>6. H!PadZero(H!Held(y)) = IF j = z THEN H!Held(y) ELSE H!Held(Z(j + 1))
    BY <2>4, <2>5 DEF H!PadZero, zero
  <2> QED
    BY <2>6 DEF y
<1> DEFINE N == {k \in Nat : k <= Block =>
             after[k] = IF k < z THEN H!Held(Z(k)) ELSE H!Held(Z(z))}
<1>8. 0 \in N
  <2>1. after[0] = H!Held(Z(0))
    BY <1>5, <1>6 DEF c0
  <2>2. 0 < z \/ z = 0
    BY <1>z
  <2> QED
    BY <2>1, <2>2
<1>9. ASSUME NEW k \in N PROVE k + 1 \in N
  <2> SUFFICES ASSUME k + 1 <= Block
               PROVE  after[k + 1] = IF k + 1 < z THEN H!Held(Z(k + 1)) ELSE H!Held(Z(z))
    OBVIOUS
  <2>1. k \in Nat /\ k + 1 \in 1..Block /\ k + 1 - 1 = k /\ k <= Block
    BY <1>1
  <2>2. after[k] = IF k < z THEN H!Held(Z(k)) ELSE H!Held(Z(z))
    BY <2>1
  <2>3. after[k + 1] = H!PadZero(after[k])
    BY <1>5, <2>1
  <2> HIDE DEF N
  <2>4. CASE k < z
    <3>1. k \in 0..z /\ k # z
      BY <1>z, <2>1, <2>4
    <3>2. after[k + 1] = H!Held(Z(k + 1))
      BY <1>7, <2>2, <2>3, <2>4, <3>1
    <3>3. k + 1 < z \/ k + 1 = z
      BY <1>z, <2>1, <2>4
    <3> QED
      BY <3>2, <3>3
  <2>5. CASE ~(k < z)
    <3>1. z \in 0..z /\ ~(k + 1 < z)
      BY <1>z, <2>1, <2>5
    <3>2. H!PadZero(H!Held(Z(z))) = H!Held(Z(z))
      BY <1>7, <3>1
    <3> QED
      BY <2>2, <2>3, <2>5, <3>1, <3>2
  <2> QED
    BY <2>4, <2>5
<1>10. N = Nat
  <2>1. N \in SUBSET Nat
    OBVIOUS
  <2> HIDE DEF N
  <2> QED
    BY <1>8, <1>9, <2>1, AllNaturals
<1>11. after[Block] = H!Held(Z(z))
  <2>1. Block \in N /\ Block <= Block /\ ~(Block < z)
    BY <1>1, <1>z, <1>10
  <2> QED
    BY <2>1
<1> QED
  BY <1>2, <1>11 DEF Z, zero, c0

\* A function from 1..n is a sequence of its values.
Values(s, n) == {s[i] : i \in 1..n}

LEMMA SequenceOfValues ==
    ASSUME NEW n \in Nat, NEW s, s = [i \in 1..n |-> s[i]]
    PROVE  s \in Seq(Values(s, n)) /\ Len(s) = n
<1>1. s \in [1..n -> Values(s, n)]
  <2>1. \A i \in 1..n : s[i] \in Values(s, n)
    BY DEF Values
  <2> QED
    BY <2>1
<1> QED
  BY <1>1

\* sha1_final makes of a context the hash of the whole message.
LEMMA FinalIsWhole ==
    ASSUME H!ConstantsOK, NEW A, NEW m \in Seq(A)
    PROVE  H!Final(H!Held(m)) = H!WholeHash(m)
<1> DEFINE lb == H!LengthBytes(8 * Len(m))
           one == <<H!D(128)>>
           U == A \cup {H!D(0), H!D(128)} \cup Values(lb, LenBytes)
           x == m \o one
           z == CHOOSE z \in 0..(Block - 1) : (Len(m) + 1 + z + LenBytes) % Block = 0
           zs == Zeros(z)
<1>1. LenBytes \in Nat /\ Len(m) \in Nat /\ Len(m) + 1 \in Nat
  BY LenProperties DEF H!ConstantsOK
<1>2. lb \in Seq(Values(lb, LenBytes))
  <2>1. lb = [i \in 1..LenBytes |-> lb[i]]
    BY DEF H!LengthBytes
  <2> HIDE DEF lb
  <2> QED
    BY <1>1, <2>1, SequenceOfValues
<1> HIDE DEF lb
<1>3. H!D(0) \in U /\ H!D(128) \in U /\ A \subseteq U /\ Values(lb, LenBytes) \subseteq U
  OBVIOUS
<1> HIDE DEF U
<1>4. m \in Seq(U) /\ lb \in Seq(U)
  BY <1>2, <1>3, SeqMonotonic
<1>5. one \in Seq(U) /\ Len(one) = 1
  BY <1>3
<1> HIDE DEF one
<1>6. x \in Seq(U) /\ Len(x) = Len(m) + 1
  <2>1. m \o one \in Seq(U) /\ Len(m \o one) = Len(m) + Len(one)
    BY <1>4, <1>5, ConcatProperties, Zenon
  <2> QED
    BY <1>5, <2>1
<1>7. H!Update(H!Held(m), one) = H!Held(x)
  BY <1>4, <1>5, UpdateTakes
<1> HIDE DEF x
<1>8. StopsAfter(Len(x), z)
  <2> DEFINE n == Len(m) + 1
  <2>1. n \in Nat /\ Len(x) = n
    BY <1>1, <1>6
  <2>2. z = CHOOSE w \in 0..(Block - 1) : (n + w + LenBytes) % Block = 0
    OBVIOUS
  <2> HIDE DEF n, z
  <2> QED
    BY <2>1, <2>2, ZerosFit
<1> HIDE DEF z
<1>9. H!PadZeros(H!Held(x)) = H!Held(x \o zs)
  BY <1>3, <1>6, <1>8, PadZerosStop
<1>10. x \o zs \in Seq(U)
  <2>1. z \in Nat
    BY <1>8 DEF StopsAfter
  <2> QED
    BY <1>3, <1>6, <2>1, OneMoreZero
<1> DEFINE y == x \o zs
<1>11. H!Update(H!Held(y), lb) = H!Held(y \o lb)
  <2> HIDE DEF zs
  <2> HIDE DEF y
  <2> QED
    BY <1>4, <1>10, UpdateTakes DEF y
<1>12. H!Held(y \o lb).h = H!Blocks(y \o lb) /\ H!Held(m).len = 8 * Len(m)
  BY DEF H!Held
<1>13. H!Padded(m) = y \o lb
  BY DEF H!Padded, Zeros, y, x, z, zs, lb, one
<1>14. H!Final(H!Held(m)) = H!Digest(H!Blocks(y \o lb))
  <2>1. H!PadZeros(H!Update(H!Held(m), one)) = H!Held(y)
    BY <1>7, <1>9
  <2>2. H!LengthBytes(H!Held(m).len) = lb
    BY <1>12 DEF lb
  <2> HIDE DEF y
  <2> QED
    BY <1>11, <1>12, <2>1, <2>2 DEF H!Final, one
<1> QED
  BY <1>13, <1>14 DEF H!WholeHash

\* A fresh context
LEMMA FreshIsEmpty ==
    ASSUME H!ConstantsOK
    PROVE  H!ShaInit = H!Held(<<>>)
<1>1. Block \in Nat \ {0} /\ Len(<<>>) = 0
  BY DEF H!ConstantsOK
<1>2. 0 \div Block = 0
  <2> DEFINE q == 0
  <2>1. q \in Nat /\ 0 \in 0..(Block - 1) /\ Block * q + 0 = 0
    BY <1>1
  <2> HIDE DEF q
  <2>2. (Block * q + 0) \div Block = q
    BY <1>1, <2>1, Divides
  <2> QED
    BY <2>1, <2>2 DEF q
<1>3. H!Blocks(<<>>) = <<>>
  <2>1. 1..0 = {}
    OBVIOUS
  <2>2. H!Blocks(<<>>) = [i \in 1..0 |-> SubSeq(<<>>, Block * (i - 1) + 1, Block * i)]
    BY <1>1, <1>2 DEF H!Blocks
  <2> QED
    BY <2>1, <2>2
<1>4. H!Rest(<<>>) = <<>>
  <2>1. H!Rest(<<>>) = SubSeq(<<>>, Block * 0 + 1, 0)
    BY <1>1, <1>2 DEF H!Rest
  <2>2. Block * 0 + 1 = 1
    BY <1>1
  <2>3. SubSeq(<<>>, 1, 0) = <<>>
    BY SubSeqEmpty
  <2> QED
    BY <2>1, <2>2, <2>3
<1> QED
  BY <1>1, <1>3, <1>4 DEF H!ShaInit, H!Held

\* sha1
LEMMA ShaIsWhole ==
    ASSUME H!ConstantsOK, NEW A, NEW m \in Seq(A)
    PROVE  H!Update(H!ShaInit, m) = H!Held(m) /\ H!Sha(m) = H!WholeHash(m)
<1>1. <<>> \in Seq(A) /\ <<>> \o m = m
  BY EmptySeq, ConcatEmptySeq
<1>2. H!Update(H!Held(<<>>), m) = H!Held(<<>> \o m)
  BY <1>1, UpdateTakes
<1>3. H!Update(H!ShaInit, m) = H!Held(m)
  BY <1>1, <1>2, FreshIsEmpty
<1> QED
  BY <1>3, FinalIsWhole DEF H!Sha

\* A hash is a sequence of bytes.
LEMMA HashLength ==
    ASSUME H!ConstantsOK, NEW m
    PROVE  /\ H!WholeHash(m) \in Seq(Values(H!WholeHash(m), DigestBytes))
           /\ Len(H!WholeHash(m)) = DigestBytes
<1>1. DigestBytes \in Nat
  BY DEF H!ConstantsOK
<1> DEFINE s == H!WholeHash(m)
<1>2. s = [i \in 1..DigestBytes |-> s[i]]
  BY DEF H!WholeHash, H!Digest
<1> HIDE DEF s
<1>3. s \in Seq(Values(s, DigestBytes)) /\ Len(s) = DigestBytes
  BY <1>1, <1>2, SequenceOfValues
<1> QED
  BY <1>3 DEF s

\* A block and a message given one after the other
LEMMA TwoUpdates ==
    ASSUME H!ConstantsOK, NEW p, p = [i \in 1..Block |-> p[i]], NEW A, NEW m \in Seq(A)
    PROVE  H!Final(H!Update(H!Update(H!ShaInit, p), m)) = H!WholeHash(p \o m)
<1> DEFINE P == Values(p, Block)
           U == A \cup P
<1>1. p \in Seq(P)
  <2>1. Block \in Nat
    BY DEF H!ConstantsOK
  <2> QED
    BY <2>1, SequenceOfValues
<1>2. A \subseteq U /\ P \subseteq U
  OBVIOUS
<1> HIDE DEF U, P
<1>3. p \in Seq(U) /\ m \in Seq(U)
  BY <1>1, <1>2, SeqMonotonic
<1>4. H!Update(H!ShaInit, p) = H!Held(p)
  BY <1>3, ShaIsWhole
<1>5. H!Update(H!Held(p), m) = H!Held(p \o m)
  BY <1>3, UpdateTakes
<1>6. p \o m \in Seq(U)
  BY <1>3, ConcatProperties
<1> QED
  BY <1>4, <1>5, <1>6, FinalIsWhole

\* hmac_sha1
LEMMA HmacIsConstruction ==
    ASSUME H!ConstantsOK, NEW A, NEW k \in Seq(A), NEW m \in Seq(A)
    PROVE  LET short == IF Len(k) > Block THEN H!WholeHash(k) ELSE k
               pad == short \o H!Repeated(H!D(0), Block - Len(short))
               inner == H!WholeHash([i \in 1..Block |-> H!Ipad(pad[i])] \o m)
           IN  H!Hmac(k, m) = H!WholeHash([i \in 1..Block |-> H!Opad(pad[i])] \o inner)
<1> DEFINE short == IF Len(k) > Block THEN H!WholeHash(k) ELSE k
           pad == short \o H!Repeated(H!D(0), Block - Len(short))
           ip == [i \in 1..Block |-> H!Ipad(pad[i])]
           op == [i \in 1..Block |-> H!Opad(pad[i])]
           inner == H!WholeHash(ip \o m)
<1>1. H!HmacKey(k) = pad
  <2>1. CASE Len(k) > Block
    <3>1. H!Sha(k) = short /\ Len(short) = DigestBytes
      BY <2>1, ShaIsWhole, HashLength
    <3>2. H!HmacKey(k) = H!Sha(k) \o H!Repeated(H!D(0), Block - DigestBytes)
      BY <2>1 DEF H!HmacKey
    <3> HIDE DEF short
    <3> QED
      BY <3>1, <3>2
  <2>2. CASE ~(Len(k) > Block)
    BY <2>2 DEF H!HmacKey
  <2> QED
    BY <2>1, <2>2
<1> HIDE DEF pad
<1>2. ip = [i \in 1..Block |-> ip[i]] /\ op = [i \in 1..Block |-> op[i]]
  OBVIOUS
<1>3. H!Hmac(k, m) = H!Final(H!Update(H!Update(H!ShaInit, op),
                       H!Final(H!Update(H!Update(H!ShaInit, ip), m))))
  BY <1>1 DEF H!Hmac
<1> HIDE DEF ip, op
<1>4. H!Final(H!Update(H!Update(H!ShaInit, ip), m)) = inner
  BY <1>2, TwoUpdates
<1> DEFINE W == Values(inner, DigestBytes)
<1>5. inner \in Seq(W)
  BY HashLength
<1> HIDE DEF inner, W
<1>6. H!Final(H!Update(H!Update(H!ShaInit, op), inner)) = H!WholeHash(op \o inner)
  BY <1>2, <1>5, TwoUpdates
<1> QED
  BY <1>3, <1>4, <1>6 DEF inner, ip, op, pad

\* The context has been given the message, all of which is data.
DigestInv ==
    /\ msg \in Seq({H!D(n) : n \in Nat}) /\ key \in Seq({H!D(n) : n \in Nat})
    /\ ctx = H!Held(msg)

\* Nothing has been given at first.
LEMMA DigestInit == ASSUME H!ConstantsOK, H!Init PROVE DigestInv
<1>1. <<>> \in Seq({H!D(n) : n \in Nat})
  BY EmptySeq
<1> QED
  BY <1>1, FreshIsEmpty DEF H!Init, DigestInv

\* The context keeps up with what it is given.
LEMMA DigestKeeps == ASSUME H!ConstantsOK, DigestInv, H!Next PROVE DigestInv'
<1> DEFINE Data == {H!D(n) : n \in Nat}
<1>1. msg \in Seq(Data) /\ key \in Seq(Data) /\ ctx = H!Held(msg) /\ \A n \in Nat : H!D(n) \in Data
  BY DEF DigestInv
<1>2. CASE \E n \in 0..(2 * Block + 1) : H!Give(n)
  <2>1. PICK n \in 0..(2 * Block + 1) : H!Give(n)
    BY <1>2
  <2> DEFINE p == [i \in 1..n |-> H!D(Len(msg) + i)]
  <2>2. msg' = msg \o p /\ ctx' = H!Update(ctx, p) /\ key' = key
    BY <2>1 DEF H!Give
  <2>3. p \in Seq(Data)
    <3>1. n \in Nat /\ Len(msg) \in Nat
      BY <1>1, LenProperties
    <3>2. \A i \in 1..n : Len(msg) + i \in Nat
      BY <3>1
    <3> HIDE DEF Data
    <3>3. \A i \in 1..n : H!D(Len(msg) + i) \in Data
      BY <1>1, <3>2
    <3>4. p \in [1..n -> Data]
      BY <3>3
    <3> HIDE DEF p
    <3> QED
      BY <3>1, <3>4
  <2> HIDE DEF p, Data
  <2>4. msg \o p \in Seq(Data) /\ H!Update(H!Held(msg), p) = H!Held(msg \o p)
    BY <1>1, <2>3, UpdateTakes, ConcatProperties
  <2>5. H!Held(msg)' = H!Held(msg \o p)
    BY <2>2 DEF H!Held, H!Blocks, H!Rest
  <2> QED
    BY <1>1, <2>2, <2>4, <2>5 DEF DigestInv, Data
<1>3. CASE H!Finish
  BY <1>1, <1>3 DEF H!Finish, DigestInv, H!Held, H!Blocks, H!Rest
<1>4. CASE H!LongerKey
  <2>1. /\ key' = Append(key, H!D(Len(key))) /\ msg' = <<>> /\ ctx' = H!ShaInit
    BY <1>4 DEF H!LongerKey
  <2>2. H!D(Len(key)) \in Data
    <3>1. Len(key) \in Nat
      BY <1>1, LenProperties
    <3> QED
      BY <3>1
  <2> HIDE DEF Data
  <2>3. key' \in Seq(Data) /\ <<>> \in Seq(Data)
    BY <1>1, <2>1, <2>2, AppendProperties, EmptySeq
  <2>4. H!Held(msg)' = H!Held(<<>>)
    BY <2>1 DEF H!Held, H!Blocks, H!Rest
  <2> QED
    BY <2>1, <2>3, <2>4, FreshIsEmpty DEF DigestInv, Data
<1> QED
  BY <1>2, <1>3, <1>4 DEF H!Next

\* The invariant gives what the module states of its digests.
LEMMA DigestShows ==
    ASSUME H!ConstantsOK, DigestInv
    PROVE  H!NothingLost /\ H!HashesAgree /\ H!HmacAgrees
<1> DEFINE Data == {H!D(n) : n \in Nat}
<1>1. msg \in Seq(Data) /\ key \in Seq(Data) /\ ctx = H!Held(msg)
  BY DEF DigestInv
<1> HIDE DEF Data
<1>2. H!NothingLost
  BY <1>1 DEF H!NothingLost
<1>3. H!HashesAgree
  BY <1>1, FinalIsWhole DEF H!HashesAgree
<1>4. H!HmacAgrees
  BY <1>1, HmacIsConstruction DEF H!HmacAgrees
<1> QED
  BY <1>2, <1>3, <1>4

-----------------------------------------------------------------------------
(* MCTraffic: the parts together *)

\* The theorems are about the modules that MCTraffic composes.
LEMMA KeepaliveSame ==
    /\ K!ConstantsOK <=> KP!ConstantsOK
    /\ K!TypeOK <=> KP!TypeOK
    /\ K!Init <=> KP!Init
    /\ K!Next <=> KP!Next
    /\ KP!vars = keepaliveVars
    /\ K!AlarmMeant <=> KP!AlarmMeant
    /\ K!DeadNoticed <=> KP!DeadNoticed
    /\ K!EchoesEnd <=> KP!EchoesEnd
<1>1. /\ \A b, to, s : K!Put(b, to, s) = KP!Put(b, to, s)
      /\ \A b, m : K!Take(b, m) = KP!Take(b, m)
      /\ \A b : (K!IsABag(b) <=> KP!IsABag(b)) /\ K!BagToSet(b) = KP!BagToSet(b)
      /\ K!EmptyBag = KP!EmptyBag
  BY DEF K!Put, KP!Put, K!Take, KP!Take, K!(+), KP!(+), K!(-), KP!(-), K!SetToBag,
     KP!SetToBag, K!IsABag, KP!IsABag, K!BagToSet, KP!BagToSet, K!EmptyBag, KP!EmptyBag
<1>2. /\ K!ConstantsOK <=> KP!ConstantsOK
      /\ KP!vars = keepaliveVars
      /\ K!AlarmMeant <=> KP!AlarmMeant
      /\ K!DeadNoticed <=> KP!DeadNoticed
  BY DEF K!ConstantsOK, KP!ConstantsOK, KP!vars, keepaliveVars, K!AlarmMeant, KP!AlarmMeant,
     K!DeadNoticed, KP!DeadNoticed, K!Us, KP!Us, K!Far, KP!Far, K!Down, KP!Down
<1>3. /\ K!TypeOK <=> KP!TypeOK
      /\ K!Init <=> KP!Init
      /\ K!EchoesEnd <=> KP!EchoesEnd
  BY <1>1 DEF K!TypeOK, KP!TypeOK, K!Init, KP!Init, K!EchoesEnd, KP!EchoesEnd, K!Datagrams,
     KP!Datagrams, K!Ends, KP!Ends, K!Us, KP!Us, K!Far, KP!Far, K!Down, KP!Down
<1>4. K!Next <=> KP!Next
  BY <1>1 DEF
     K!Next, KP!Next, K!LinkUp, KP!LinkUp, K!ArmWatchdog, KP!ArmWatchdog, K!FarVanishes,
     KP!FarVanishes, K!CloseSeen, KP!CloseSeen, K!Leave, KP!Leave, K!KeepaliveCb,
     KP!KeepaliveCb, K!Expired, KP!Expired, K!FarOriginates, KP!FarOriginates,
     K!TimePasses, KP!TimePasses, K!KeepaliveArrives, KP!KeepaliveArrives, K!Known,
     KP!Known, K!FarReceives, KP!FarReceives, K!Lose, KP!Lose, K!Ends, KP!Ends, K!Us,
     KP!Us, K!Far, KP!Far, K!Down, KP!Down
<1> QED
  BY <1>1, <1>2, <1>3, <1>4

\* The first clock of MCTraffic is the one the theorems are about.
LEMMA TimelySame ==
    /\ Timely!ConstantsOK <=> TP!ConstantsOK
    /\ Timely!TypeOK <=> TP!TypeOK
    /\ Timely!Init <=> TP!Init
    /\ Timely!Next <=> TP!Next
    /\ TP!vars = rtpVars
    /\ Timely!GapsAgree <=> TP!GapsAgree
    /\ Timely!PlaceFromFirst <=> TP!PlaceFromFirst
    /\ Timely!TotalCounts <=> TP!TotalCounts
<1>1. /\ Timely!ConstantsOK <=> TP!ConstantsOK
      /\ Timely!TypeOK <=> TP!TypeOK
      /\ Timely!Init <=> TP!Init
      /\ TP!vars = rtpVars
  BY DEF rtpVars, Timely!ConstantsOK, TP!ConstantsOK, Timely!Messages, TP!Messages,
     Timely!CallStates, TP!CallStates, Timely!Packets, TP!Packets,
     Timely!TypeOK, TP!TypeOK, Timely!Init, TP!Init, TP!vars
<1>2. /\ Timely!Send <=> TP!Send
      /\ Timely!TimePasses <=> TP!TimePasses
      /\ Timely!IdleTimeout <=> TP!IdleTimeout
  BY DEF Timely!Due, TP!Due, Timely!Send, TP!Send, Timely!TimePasses, TP!TimePasses,
     Timely!Total, TP!Total, Timely!IdleTimeout, TP!IdleTimeout
<1>3. ASSUME NEW m
      PROVE  Timely!Burst(m) <=> TP!Burst(m)
  BY DEF Timely!SlotIndex, TP!SlotIndex, Timely!Timestamp, TP!Timestamp, Timely!Burst,
     TP!Burst
<1>4. ASSUME NEW m
      PROVE  /\ Timely!Lose(m) <=> TP!Lose(m)
             /\ Timely!Arrive(m) <=> TP!Arrive(m)
  BY <1>3 DEF Timely!Lose, TP!Lose, Timely!Head, TP!Head, Timely!Total, TP!Total,
     Timely!Term, TP!Term, Timely!Arrive, TP!Arrive
<1>5. Timely!Next <=> TP!Next
  BY <1>2, <1>4 DEF Timely!Next, TP!Next
<1>6. Timely!GapsAgree <=> TP!GapsAgree
  BY DEF Timely!GapsAgree, TP!GapsAgree
<1>7. Timely!PlaceFromFirst <=> TP!PlaceFromFirst
  BY DEF Timely!PlaceFromFirst, TP!PlaceFromFirst
<1>8. Timely!TotalCounts <=> TP!TotalCounts
  BY DEF Timely!TotalCounts, TP!TotalCounts, Timely!Cardinality, TP!Cardinality
<1> QED
  BY <1>1, <1>5, <1>6, <1>7, <1>8

\* So is the second one.
LEMMA LateSame ==
    /\ Late!ConstantsOK <=> LP!ConstantsOK
    /\ Timely!TypeOK <=> LP!TypeOK
    /\ Timely!Init <=> LP!Init
    /\ Late!Next <=> LP!Next
    /\ LP!vars = rtpVars
    /\ Timely!GapsAgree <=> LP!GapsAgree
    /\ Late!PlaceFromFirst <=> LP!PlaceFromFirst
  BY DEF rtpVars,
     Late!ConstantsOK, LP!ConstantsOK, Late!Messages, LP!Messages, Late!CallStates,
     LP!CallStates, Late!Packets, LP!Packets, Late!TypeOK, LP!TypeOK, Late!Init,
     LP!Init, Late!Due, LP!Due, Late!Send, LP!Send, Late!Lose, LP!Lose, Late!TimePasses,
     LP!TimePasses, Late!SlotIndex, LP!SlotIndex, Late!Timestamp, LP!Timestamp,
     Late!Head, LP!Head, Late!Burst, LP!Burst, Late!Total, LP!Total, Late!Term, LP!Term,
     Late!IdleTimeout, LP!IdleTimeout, Late!Arrive, LP!Arrive, Late!Next, LP!Next,
     Late!vars, LP!vars, Late!GapsAgree, LP!GapsAgree, Late!PlaceFromFirst,
     LP!PlaceFromFirst, Late!TotalCounts, LP!TotalCounts,
     Timely!TypeOK, Timely!Messages, Timely!CallStates, Timely!Packets, Timely!Init,
     Timely!GapsAgree

\* The invariants of the five parts; RtpClock's is that of the clock in use.
TrafficInv ==
    /\ KP!IInv /\ StreamInv /\ SuperframeInv /\ DigestInv
    /\ part # "late" => TP!IInv
    /\ part = "late" => LP!IInv

\* The five parts start in their invariants.
LEMMA TrafficInit == ASSUME Init PROVE TrafficInv
<1>1. /\ KP!ConstantsOK /\ TP!ConstantsOK /\ LP!ConstantsOK
      /\ C!ConstantsOK /\ H!ConstantsOK
  BY TrafficAssumption, KeepaliveSame, TimelySame, LateSame
<1>2. KP!Init /\ C!Init /\ TP!Init /\ LP!Init /\ S!Init /\ H!Init
  BY KeepaliveSame, TimelySame, LateSame DEF Init
<1> QED
  BY <1>1, <1>2, KP!IInvInit, TP!InitHolds, LP!InitHolds, StreamInit, SuperframeInit, DigestInit
  DEF TrafficInv

\* In every step one part takes a step of its own and the others rest.
LEMMA PartsStep ==
    ASSUME [Next]_vars
    PROVE  /\ [KP!Next]_(KP!vars) /\ [C!Next]_controlVars /\ [S!Next]_superframeVars
           /\ [H!Next]_digestVars /\ part' = part
           /\ part # "late" => [TP!Next]_(TP!vars)
           /\ part = "late" => [LP!Next]_(LP!vars)
<1> USE DEF KP!vars, TP!vars, LP!vars, keepaliveVars, controlVars, rtpVars, superframeVars,
     digestVars
<1>1. CASE UNCHANGED vars
  BY <1>1 DEF vars
<1>2. CASE part = "keepalive" /\ K!Next
           /\ UNCHANGED <<part, controlVars, rtpVars, superframeVars, digestVars>>
  BY <1>2, KeepaliveSame
<1>3. CASE part = "control" /\ C!Next
           /\ UNCHANGED <<part, keepaliveVars, rtpVars, superframeVars, digestVars>>
  BY <1>3
<1>4. CASE part = "timely" /\ Timely!Next
           /\ UNCHANGED <<part, keepaliveVars, controlVars, superframeVars, digestVars>>
  BY <1>4, TimelySame
<1>5. CASE part = "late" /\ Late!Next
           /\ UNCHANGED <<part, keepaliveVars, controlVars, superframeVars, digestVars>>
  BY <1>5, LateSame
<1>6. CASE part = "superframe" /\ S!Next
           /\ UNCHANGED <<part, keepaliveVars, controlVars, rtpVars, digestVars>>
  BY <1>6
<1>7. CASE part = "digest" /\ H!Next
           /\ UNCHANGED <<part, keepaliveVars, controlVars, rtpVars, superframeVars>>
  BY <1>7
<1> QED
  BY <1>1, <1>2, <1>3, <1>4, <1>5, <1>6, <1>7 DEF Next

\* A segment, or nothing, keeps the stream's invariant.
LEMMA StreamStep ==
    ASSUME StreamInv, [C!Next]_controlVars
    PROVE  StreamInv'
<1>1. CASE UNCHANGED controlVars
  BY <1>1 DEF controlVars, StreamInv, Good
<1>2. CASE C!Next
  BY <1>2, TrafficAssumption, SegmentKeeps DEF C!Next
<1> QED
  BY <1>1, <1>2

\* A message goes on, or rests.
LEMMA DigestStep ==
    ASSUME DigestInv, [H!Next]_digestVars
    PROVE  DigestInv'
<1>1. CASE UNCHANGED digestVars
  BY <1>1 DEF digestVars, DigestInv, H!Held, H!Blocks, H!Rest
<1>2. CASE H!Next
  BY <1>2, TrafficAssumption, DigestKeeps
<1> QED
  BY <1>1, <1>2

\* A step of one part keeps the invariants of all five.
LEMMA TrafficStep == ASSUME TrafficInv, [Next]_vars PROVE TrafficInv'
<1>1. KP!ConstantsOK /\ TP!ConstantsOK /\ LP!ConstantsOK
  BY TrafficAssumption, KeepaliveSame, TimelySame, LateSame
<1>2. KP!IInv'
  BY <1>1, PartsStep, KP!IInvStep DEF TrafficInv
<1>3. StreamInv' /\ SuperframeInv' /\ DigestInv'
  BY PartsStep, StreamStep, SuperframeStep, DigestStep DEF TrafficInv
<1>4. part' # "late" => TP!IInv'
  BY <1>1, PartsStep, TP!StepKeeps DEF TrafficInv
<1>5. part' = "late" => LP!IInv'
  BY <1>1, PartsStep, LP!StepKeeps DEF TrafficInv
<1> QED
  BY <1>2, <1>3, <1>4, <1>5 DEF TrafficInv

\* The inductive invariants of the parts hold together.
THEOREM Invariance == Spec => []TrafficInv
  BY TrafficInit, TrafficStep, PTL DEF Spec

\* keepalive_cb is neither too early nor too late.
THEOREM WatchdogIsExact == Spec => WatchdogExact
<1>1. KP!ConstantsOK
  BY TrafficAssumption, KeepaliveSame
<1>2. TrafficInv /\ [Next]_vars => [K!AlarmMeant]_keepaliveVars
  BY <1>1, PartsStep, KP!AlarmStep, KeepaliveSame DEF TrafficInv
<1>3. TrafficInv => K!DeadNoticed
  <2>1. KP!IInv => KP!BasicInv
    BY DEF KP!IInv
  <2> QED
    BY <1>1, <2>1, KP!BasicShows, KeepaliveSame DEF TrafficInv
<1> QED
  BY <1>2, <1>3, Invariance, PTL DEF Spec, WatchdogExact

\* Reflections end with the connection (on_voice_readable).
THEOREM EchoesStop == Spec => []EchoesEnd
<1>1. TrafficInv => EchoesEnd
  <2>1. KP!IInv => KP!TypeOK /\ KP!EchoesEnd
    BY DEF KP!IInv, KP!BasicInv
  <2> QED
    BY <2>1, KeepaliveSame DEF TrafficInv, EchoesEnd
<1> QED
  BY <1>1, Invariance, PTL

\* feed_bytes hands on whole lines however the stream is cut.
THEOREM LinesStayWhole == Spec => []LinesWhole
<1>1. TrafficInv => LinesWhole
  BY StreamShows DEF TrafficInv
<1> QED
  BY <1>1, Invariance, PTL

\* Numbers, timestamps and total of a call are in step with its bursts.
THEOREM NumbersStayInStep == Spec => []NumbersInStep
<1>1. TrafficInv => NumbersInStep
  <2>1. TP!ConstantsOK /\ LP!ConstantsOK
    BY TrafficAssumption, TimelySame, LateSame
  <2>2. TP!IInv => TP!TypeOK /\ TP!GapsAgree /\ TP!PlaceFromFirst /\ TP!TotalCounts
    BY <2>1, TP!InvariantShows DEF TP!IInv
  <2>3. LP!IInv => LP!TypeOK /\ LP!GapsAgree /\ LP!PlaceFromFirst
    BY <2>1, LP!InvariantShows DEF LP!IInv
  <2> QED
    BY <2>2, <2>3, TimelySame, LateSame DEF TrafficInv, NumbersInStep
<1> QED
  BY <1>1, Invariance, PTL

\* All frames to a peer are numbered in one row (send_dmrd).
THEOREM FramesInOneRow == Spec => SeqInOneRow
<1>1. TrafficInv /\ [Next]_vars => [S!SeqFollows]_superframeVars
  BY PartsStep, SuperframeStep DEF TrafficInv
<1> QED
  BY <1>1, Invariance, PTL DEF Spec, SeqInOneRow

\* A stream begins with the sync burst, and six bursts in a row carry the whole
\* link control (translator_cccc_bon, build_embed).
THEOREM LateEntryWorks == Spec => []LateEntry
<1>1. TrafficInv => LateEntry
  BY SuperframeShows DEF TrafficInv
<1> QED
  BY <1>1, Invariance, PTL

\* However sha1_update is given a message, its hash is that of the whole, and
\* hmac_sha1 is the construction of RFC 2104, for blocks, messages and keys of
\* any length.
THEOREM DigestsAreRight == Spec => []DigestsRight
<1>1. TrafficInv => DigestsRight
  BY TrafficAssumption, DigestShows DEF TrafficInv, DigestsRight
<1> QED
  BY <1>1, Invariance, PTL
=============================================================================
