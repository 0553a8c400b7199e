--------------------------- MODULE RtpClockProofs ---------------------------
(***************************************************************************)
(* The numbers of the packets of a call to the CC-CC side, for every slot  *)
(* length, jitter and number of bursts.  Head and burst each arrive at     *)
(* most the jitter after they were sent, so the distance of a number from  *)
(* the place of its burst lies in a window that is the same for the whole  *)
(* call (Pending, CallInv); two packets in a row are less than a round     *)
(* apart, because an idle call ends before that (PacketInv), so the 16     *)
(* bits of the number lose nothing of the gap.                             *)
(***************************************************************************)
EXTENDS RtpClock, FiniteSetTheorems, TLAPS

-----------------------------------------------------------------------------
(* Remainders *)

\* Quotient and remainder, as the later lemmas need them.
LEMMA DivMod ==
    ASSUME NEW a \in Int, NEW m \in Nat \ {0}
    PROVE  /\ a % m \in 0..(m - 1) /\ a \div m \in Int
           /\ a = m * (a \div m) + (a % m)
  BY SMT

\* A number written as m times something plus a remainder has that remainder.
LEMMA ModUnique ==
    ASSUME NEW m \in Nat \ {0}, NEW k \in Int, NEW r \in 0..(m - 1)
    PROVE  (m * k + r) % m = r
<1> DEFINE a == m * k + r
           d == a \div m
           t == d - k
<1>1. a \in Int
  BY SMT
<1>2. a % m \in 0..(m - 1) /\ d \in Int /\ a = m * d + (a % m)
  BY <1>1, DivMod
<1>3. t \in Int /\ m * t = m * d - m * k
  BY <1>2, SMT
<1>4. m * t = r - (a % m)
  BY <1>1, <1>2, <1>3, SMT
<1>5. t = 0
  <2>1. CASE t >= 1
    <3>1. m * t >= m
      BY <1>3, <2>1, SMT
    <3> QED
      BY <1>2, <1>4, <3>1
  <2>2. CASE t <= -1
    <3>1. m * t <= -m
      BY <1>3, <2>2, SMT
    <3> QED
      BY <1>2, <1>4, <3>1
  <2> QED
    BY <1>3, <2>1, <2>2
<1>6. m * t = 0
  BY <1>5
<1> QED
  BY <1>2, <1>4, <1>6

\* Numbers that differ by a multiple of m have the same remainder.
LEMMA ModSame ==
    ASSUME NEW m \in Nat \ {0}, NEW a \in Int, NEW b \in Int, NEW k \in Int, a = b + m * k
    PROVE  a % m = b % m
<1>1. b % m \in 0..(m - 1) /\ b \div m \in Int /\ b = m * (b \div m) + (b % m)
  BY DivMod
<1>2. (b \div m) + k \in Int /\ m * ((b \div m) + k) = m * (b \div m) + m * k
  BY <1>1, SMT
<1>3. a = m * ((b \div m) + k) + (b % m)
  <2>1. m * (b \div m) \in Int /\ m * k \in Int /\ m * ((b \div m) + k) \in Int
    BY <1>1, <1>2, SMT
  <2> QED
    BY <1>1, <1>2, <2>1
<1> QED
  BY <1>1, <1>2, <1>3, ModUnique

\* The remainder of a successor depends on the remainder alone.
LEMMA ModSucc ==
    ASSUME NEW m \in Nat \ {0}, NEW a \in Int, NEW b \in Int, a % m = b % m
    PROVE  (a + 1) % m = (b + 1) % m
<1> DEFINE k == (a \div m) - (b \div m)
<1>1. /\ a \div m \in Int /\ a = m * (a \div m) + (a % m)
      /\ b \div m \in Int /\ b = m * (b \div m) + (b % m) /\ a % m \in 0..(m - 1)
  BY DivMod
<1>2. k \in Int /\ m * k = m * (a \div m) - m * (b \div m)
  BY <1>1, SMT
<1>3. m * (a \div m) \in Int /\ m * (b \div m) \in Int /\ m * k \in Int
  BY <1>1, <1>2, SMT
<1>4. a + 1 = (b + 1) + m * k
  BY <1>1, <1>2, <1>3
<1> DEFINE c == a + 1
           d == b + 1
<1>5. c \in Int /\ d \in Int /\ c = d + m * k
  BY <1>4
<1> HIDE DEF k, c, d
<1>6. c % m = d % m
  BY <1>2, <1>5, ModSame
<1> QED
  BY <1>6 DEF c, d

\* A number below m is its own remainder.
LEMMA ModSmall == ASSUME NEW m \in Nat \ {0}, NEW r \in 0..(m - 1) PROVE r % m = r
<1>1. m * 0 = 0
  BY SMT
<1> DEFINE k == 0
<1>2. k \in Int /\ m * k + r = r
  BY <1>1
<1> HIDE DEF k
<1>3. (m * k + r) % m = r
  BY <1>2, ModUnique
<1> QED
  BY <1>2, <1>3

\* The remainder of a difference is that of the difference of the remainders.
LEMMA ModMinus ==
    ASSUME NEW m \in Nat \ {0}, NEW a \in Int, NEW b \in Int
    PROVE  ((a % m) - (b % m)) % m = (a - b) % m
<1> DEFINE p == a \div m
           q == b \div m
           r == a % m
           s == b % m
           c == r - s
           d == a - b
           k == q - p
<1>1. p \in Int /\ q \in Int /\ r \in Int /\ s \in Int /\ a = m * p + r /\ b = m * q + s
  BY DivMod
<1>2. k \in Int /\ m * k = m * q - m * p /\ m * p \in Int /\ m * q \in Int
  BY <1>1, SMT
<1> HIDE DEF p, q, r, s, k
<1>3. c \in Int /\ d \in Int /\ c = d + m * k
  BY <1>1, <1>2
<1> HIDE DEF c, d
<1>4. c % m = d % m
  BY <1>2, <1>3, ModSame
<1> QED
  BY <1>4 DEF c, d, r, s

-----------------------------------------------------------------------------
(* Slots and the numbers made from them *)

\* Rounding to slots: no further off than half a slot
LEMMA SlotBounds ==
    ASSUME ConstantsOK, NEW t \in Nat
    PROVE  /\ SlotIndex(t) \in Nat
           /\ 2 * Slot * SlotIndex(t) \in Nat
           /\ 2 * Slot * SlotIndex(t) <= 2 * t + Slot
           /\ 2 * t + Slot < 2 * Slot * SlotIndex(t) + 2 * Slot
<1> DEFINE m == 2 * Slot
           a == 2 * t + Slot
           s == a \div m
<1>1. m \in Nat /\ m > 0 /\ a \in Nat /\ Slot \in Nat
  BY DEF ConstantsOK
<1> HIDE DEF m, a
<1>2. s \in Int /\ a % m \in 0..(m - 1) /\ a = m * s + (a % m)
  BY <1>1, DivMod
<1>3. s \in Nat /\ m * s \in Nat
  <2>1. m * s \in Int
    BY <1>1, <1>2, SMT
  <2>2. CASE s < 0
    <3>1. m * s = -m - m * (-(s + 1)) /\ -(s + 1) \in Nat
      BY <1>1, <1>2, <2>2, SMT
    <3>2. m * (-(s + 1)) \in Nat
      BY <1>1, <3>1, SMT
    <3> QED
      BY <1>1, <1>2, <3>1, <3>2
  <2>3. CASE s >= 0
    <3>1. m * s >= 0
      BY <1>1, <1>2, <2>3, SMT
    <3> QED
      BY <1>2, <2>1, <2>3, <3>1
  <2> QED
    BY <1>2, <2>2, <2>3
<1> HIDE DEF s
<1>4. m * s <= a /\ a < m * s + m
  BY <1>1, <1>2, <1>3
<1>5. SlotIndex(t) = s
  BY DEF SlotIndex, a, m, s
<1> QED
  BY <1>1, <1>3, <1>4, <1>5 DEF a, m

\* In a silence that the call survives the slot grows, by less than a round.
LEMMA SlotsGrow ==
    ASSUME ConstantsOK, NEW t \in Nat, NEW u \in Nat, t <= u, u <= t + Idle
    PROVE  SlotIndex(u) - SlotIndex(t) \in 0..(SeqMod - 1)
<1> DEFINE x == SlotIndex(t)
           y == SlotIndex(u)
           m == 2 * Slot
<1>1. /\ x \in Nat /\ m * x \in Nat /\ m * x <= 2 * t + Slot /\ 2 * t + Slot < m * x + m
      /\ y \in Nat /\ m * y \in Nat /\ m * y <= 2 * u + Slot /\ 2 * u + Slot < m * y + m
  BY SlotBounds
<1>2. /\ Slot \in Nat /\ Slot > 0 /\ m \in Nat /\ m > 0 /\ SeqMod \in Nat /\ Idle \in Nat
      /\ Idle + Slot < Slot * SeqMod
  BY DEF ConstantsOK
<1>3. m * SeqMod = 2 * (Slot * SeqMod) /\ Slot * SeqMod \in Nat
  BY <1>2, SMT
<1> HIDE DEF x, y
<1>4. m * y < m * x + m * SeqMod /\ m * x < m * y + m
  BY <1>1, <1>2, <1>3
<1> HIDE DEF m
<1>5. y - x < SeqMod
  <2> SUFFICES ASSUME y - x - SeqMod \in Nat PROVE FALSE
    BY <1>1, <1>2
  <2>1. m * (y - x - SeqMod) = m * y - m * x - m * SeqMod
    BY <1>1, <1>2, SMT
  <2>2. m * (y - x - SeqMod) \in Nat /\ m * SeqMod \in Nat
    BY <1>2, SMT
  <2> QED
    BY <1>1, <1>4, <2>1, <2>2
<1>6. y - x >= 0
  <2> SUFFICES ASSUME x - y - 1 \in Nat PROVE FALSE
    BY <1>1
  <2>1. m * (x - y - 1) = m * x - m * y - m
    BY <1>1, <1>2, SMT
  <2>2. m * (x - y - 1) \in Nat
    BY <1>2, SMT
  <2> QED
    BY <1>1, <1>2, <1>4, <2>1, <2>2
<1> QED
  BY <1>1, <1>2, <1>5, <1>6 DEF x, y

\* The fields of a packet of the slot
Numbered(p) == p.seq = p.slot % SeqMod /\ p.ts = Timestamp(p.slot)

\* Two packets less than a round apart have the same gap in both fields.
LEMMA SameGap ==
    ASSUME ConstantsOK, NEW x \in Nat, NEW y \in Nat, y - x \in 0..(SeqMod - 1)
    PROVE  LET gap == ((y % SeqMod) - (x % SeqMod)) % SeqMod
           IN  (Timestamp(y) - Timestamp(x)) % TsMod = (Step * gap) % TsMod
<1>1. SeqMod \in Nat \ {0} /\ TsMod \in Nat \ {0} /\ Step \in Nat
  <2>1. Step * SeqMod > 0 /\ Step * SeqMod \in Nat
    BY SMT DEF ConstantsOK
  <2> QED
    BY <2>1 DEF ConstantsOK
<1>2. ((y % SeqMod) - (x % SeqMod)) % SeqMod = y - x
  <2>1. ((y % SeqMod) - (x % SeqMod)) % SeqMod = (y - x) % SeqMod
    <3>1. x \in Int /\ y \in Int
      OBVIOUS
    <3> QED
      BY <1>1, <3>1, ModMinus
  <2> DEFINE z == y - x
  <2>2. z \in 0..(SeqMod - 1)
    OBVIOUS
  <2> HIDE DEF z
  <2>3. z % SeqMod = z
    BY <1>1, <2>2, ModSmall
  <2> QED
    BY <2>1, <2>3 DEF z
<1> DEFINE a == Step * y
           b == Step * x
<1>3. a \in Int /\ b \in Int /\ Step * (y - x) = a - b
  BY <1>1, SMT
<1> HIDE DEF a, b
<1>4. ((a % TsMod) - (b % TsMod)) % TsMod = (a - b) % TsMod
  BY <1>1, <1>3, ModMinus
<1>5. (Timestamp(y) - Timestamp(x)) % TsMod = (Step * (y - x)) % TsMod
  BY <1>3, <1>4 DEF Timestamp, a, b
<1> QED
  BY <1>2, <1>5

-----------------------------------------------------------------------------
(* The inductive invariant *)

\* What is on its way left at its place in the stream and arrives in time.
Pending ==
    \A m \in net : /\ m.at = m.n * Slot /\ m.n < next
                  /\ m.at <= clock /\ clock <= m.at + Jitter

\* Before the head has arrived or is lost there is no call and no packet.
HeadFirst ==
    next = 0 \/ (\E m \in net : m.n = 0) =>
        /\ call = NoCall /\ out.last = NoPacket /\ out.prev = NoPacket
        /\ sent = {} /\ total = 0

\* How far a packet's slot is from the place of its burst, in a call that began
\* at the time start: a window as wide as the jitter and a slot.
Window(p, start) ==
    LET off == 2 * Slot * (p.slot - p.n)
    IN  -(2 * start) - Slot < off /\ off <= 2 * Jitter - 2 * start + Slot

\* A call began at most a Jitter after the stream, is not idle for long, and its
\* cc_seq is the slot of its last packet, which no burst sent is beyond.
CallInv ==
    call # NoCall =>
        /\ call.start <= Jitter /\ call.start <= call.last_activity
        /\ call.last_activity <= clock /\ clock <= call.last_activity + Idle
        /\ total = 0
        /\ IF call.cc_sent_first
           THEN /\ call.cc_seq = SlotIndex(call.last_activity - call.start)
                /\ Numbered(out.last) /\ out.last.slot = call.cc_seq
                /\ out.first \in Packets /\ Window(out.first, call.start)
                /\ 2 * Jitter < Slot => \A n \in sent : n <= call.cc_seq
           ELSE out.last = NoPacket /\ out.prev = NoPacket /\ sent = {}

\* Two packets in a row are less than a round apart.
PacketInv ==
    out.prev # NoPacket =>
        /\ out.prev.slot \in Nat /\ out.last.slot \in Nat
        /\ Numbered(out.prev) /\ Numbered(out.last)
        /\ out.last.slot - out.prev.slot \in 0..(SeqMod - 1)

IInv ==
    TypeOK /\ Pending /\ HeadFirst /\ CallInv /\ PacketInv /\ PlaceFromFirst /\ TotalCounts

\* No call is in progress at first.
LEMMA InitHolds == ASSUME ConstantsOK, Init PROVE IInv
<1>1. TypeOK
  BY DEF Init, TypeOK, ConstantsOK
<1> QED
  BY <1>1, FS_EmptySet DEF Init, IInv, Pending, HeadFirst, CallInv, PacketInv, PlaceFromFirst,
     TotalCounts

\* The far end sends its next packet on its clock.
LEMMA SendKeeps == ASSUME ConstantsOK, IInv, Send PROVE IInv'
<1> USE DEF IInv
<1> DEFINE m == [n |-> next, at |-> clock]
<1>1. /\ next <= Bursts + 1 /\ clock = next * Slot /\ net' = net \cup {m} /\ next' = next + 1
      /\ clock' = clock /\ call' = call /\ out' = out /\ sent' = sent /\ total' = total
  BY DEF Send, Due
<1>2. next \in Nat /\ next <= Bursts + 2 /\ clock \in Nat /\ Bursts \in Nat /\ Jitter \in Nat
  BY DEF TypeOK, ConstantsOK
<1>3. m \in Messages /\ m.n = next /\ m.at = clock
  BY <1>1, <1>2 DEF Messages
<1> HIDE DEF m
<1>4. TypeOK'
  BY <1>1, <1>2, <1>3 DEF TypeOK
<1>5. Pending'
  <2> SUFFICES ASSUME NEW k \in net'
               PROVE  k.at = k.n * Slot /\ k.n < next' /\ k.at <= clock /\ clock <= k.at + Jitter
    BY <1>1 DEF Pending
  <2>1. CASE k = m
    BY <1>1, <1>2, <1>3, <2>1
  <2>2. CASE k \in net
    <3>1. k.n \in Int
      BY <2>2 DEF TypeOK, Messages
    <3> QED
      BY <1>1, <1>2, <2>2, <3>1 DEF Pending
  <2> QED
    BY <1>1, <2>1, <2>2
<1>6. HeadFirst'
  BY <1>1, <1>2, <1>3 DEF HeadFirst
<1>7. CallInv' /\ PacketInv' /\ PlaceFromFirst' /\ TotalCounts'
  BY <1>1 DEF CallInv, PacketInv, PlaceFromFirst, TotalCounts
<1> QED
  BY <1>4, <1>5, <1>6, <1>7

\* A packet lost leaves a gap the slot will show.
LEMMA LoseKeeps == ASSUME ConstantsOK, IInv, NEW m \in net, Lose(m) PROVE IInv'
<1> USE DEF IInv
<1>1. /\ net' \subseteq net /\ clock' = clock /\ next' = next
      /\ call' = call /\ out' = out /\ sent' = sent /\ total' = total
  BY DEF Lose
<1>2. TypeOK'
  BY <1>1 DEF TypeOK
<1>3. Pending' /\ HeadFirst'
  BY <1>1 DEF Pending, HeadFirst
<1>4. CallInv' /\ PacketInv' /\ PlaceFromFirst' /\ TotalCounts'
  BY <1>1 DEF CallInv, PacketInv, PlaceFromFirst, TotalCounts
<1> QED
  BY <1>2, <1>3, <1>4

\* No packet is later than the jitter allows.
LEMMA TimePassesKeeps == ASSUME ConstantsOK, IInv, TimePasses PROVE IInv'
<1> USE DEF IInv
<1>1. /\ \A m \in net : clock < m.at + Jitter
      /\ call # NoCall => clock < call.last_activity + Idle
      /\ clock' = clock + 1 /\ net' = net /\ next' = next
      /\ call' = call /\ out' = out /\ sent' = sent /\ total' = total
  BY DEF TimePasses
<1>2. clock \in Nat /\ Jitter \in Nat /\ Idle \in Nat /\ \A m \in net : m.at \in Nat
  BY DEF TypeOK, ConstantsOK, Messages
<1>3. TypeOK'
  BY <1>1, <1>2 DEF TypeOK
<1>4. Pending' /\ HeadFirst'
  BY <1>1, <1>2 DEF Pending, HeadFirst
<1>5. CallInv'
  <2>1. call # NoCall => call.last_activity \in Nat /\ call.start \in Nat
    BY DEF TypeOK, CallStates
  <2> QED
    BY <1>1, <1>2, <2>1 DEF CallInv
<1>6. PacketInv' /\ PlaceFromFirst' /\ TotalCounts'
  BY <1>1 DEF PacketInv, PlaceFromFirst, TotalCounts
<1> QED
  BY <1>3, <1>4, <1>5, <1>6

\* The first packet of a call: the slot clock starts.
LEMMA HeadKeeps == ASSUME ConstantsOK, IInv, NEW m \in net, Arrive(m), Head(m) PROVE IInv'
<1> USE DEF IInv
<1>1. /\ m.n = 0 /\ net' = net \ {m} /\ clock' = clock /\ next' = next
      /\ call' = [start |-> clock, last_activity |-> clock, cc_sent_first |-> FALSE, cc_seq |-> 0]
      /\ out' = out /\ sent' = sent /\ total' = total
  BY DEF Arrive, Head
<1>2. out.last = NoPacket /\ out.prev = NoPacket /\ sent = {} /\ total = 0
  BY <1>1 DEF HeadFirst
<1>3. /\ clock \in Nat /\ Jitter \in Nat /\ Idle \in Nat /\ Slot \in Nat
      /\ net \subseteq Messages /\ next \in Nat
  BY DEF TypeOK, ConstantsOK
<1>4. m.at = 0 /\ clock <= Jitter /\ next # 0
  <2>1. m.at = 0 * Slot /\ m.n < next /\ clock <= m.at + Jitter
    BY <1>1 DEF Pending
  <2>2. 0 * Slot = 0
    BY <1>3, SMT
  <2> QED
    BY <1>1, <1>3, <2>1, <2>2
<1>5. TypeOK'
  <2>1. call' \in CallStates
    BY <1>1, <1>3 DEF CallStates
  <2> QED
    BY <1>1, <2>1 DEF TypeOK
<1>6. Pending'
  BY <1>1 DEF Pending
<1>7. HeadFirst'
  <2>1. ASSUME NEW k \in net', k.n = 0 PROVE FALSE
    <3>1. k \in net /\ k # m /\ k.at = 0 * Slot
      BY <1>1, <2>1 DEF Pending
    <3>2. 0 * Slot = 0
      BY <1>3, SMT
    <3>3. k.at = m.at /\ k.n = m.n
      BY <1>1, <1>4, <2>1, <3>1, <3>2
    <3> QED
      BY <1>3, <3>1, <3>3 DEF Messages
  <2> QED
    BY <1>1, <1>4, <2>1 DEF HeadFirst
<1>8. CallInv'
  <2>1. /\ call'.start = clock /\ call'.last_activity = clock /\ call'.cc_sent_first = FALSE
    BY <1>1
  <2> QED
    BY <1>1, <1>2, <1>3, <1>4, <2>1 DEF CallInv
<1>9. PacketInv' /\ PlaceFromFirst' /\ TotalCounts'
  BY <1>1, <1>2, FS_EmptySet DEF PacketInv, PlaceFromFirst, TotalCounts
<1> QED
  BY <1>5, <1>6, <1>7, <1>8, <1>9

\* The slot of a burst that arrives in time is in the window.
LEMMA InWindow ==
    ASSUME ConstantsOK, NEW n \in Nat, NEW t \in Nat, NEW start \in Nat,
           n * Slot <= t + start, t + start <= n * Slot + Jitter
    PROVE  LET off == 2 * Slot * (SlotIndex(t) - n)
           IN  -(2 * start) - Slot < off /\ off <= 2 * Jitter - 2 * start + Slot
<1> DEFINE s == SlotIndex(t)
           at == n * Slot
<1>1. /\ s \in Nat /\ 2 * Slot * s \in Nat /\ 2 * Slot * s <= 2 * t + Slot
      /\ 2 * t + Slot < 2 * Slot * s + 2 * Slot
  BY SlotBounds
<1>2. Slot \in Nat /\ Slot > 0 /\ Jitter \in Nat
  BY DEF ConstantsOK
<1>3. at \in Nat /\ at <= t + start /\ t + start <= at + Jitter
  BY <1>2, SMT
<1> HIDE DEF s
<1>4. 2 * Slot * (s - n) = 2 * Slot * s - 2 * at
  BY <1>1, <1>2, SMT
<1> HIDE DEF at
<1>5. -(2 * start) - Slot < 2 * Slot * (s - n) /\ 2 * Slot * (s - n) <= 2 * Jitter - 2 * start + Slot
  BY <1>1, <1>2, <1>3, <1>4
<1> QED
  BY <1>5 DEF s

\* With delays below half a slot the window holds no number but 0.
LEMMA WindowOfOne ==
    ASSUME ConstantsOK, 2 * Jitter < Slot, NEW start \in Nat, start <= Jitter, NEW d \in Int,
           -(2 * start) - Slot < 2 * Slot * d, 2 * Slot * d <= 2 * Jitter - 2 * start + Slot
    PROVE  d = 0
<1>1. Slot \in Nat /\ Slot > 0 /\ Jitter \in Nat
  BY DEF ConstantsOK
<1>2. CASE d >= 1
  <2>1. 2 * Slot * d = 2 * Slot + 2 * Slot * (d - 1) /\ 2 * Slot * (d - 1) >= 0
    BY <1>1, <1>2, SMT
  <2>2. 2 * Slot * (d - 1) \in Int
    BY <1>1, SMT
  <2> QED
    BY <1>1, <2>1, <2>2
<1>3. CASE d <= -1
  <2>1. 2 * Slot * d = -(2 * Slot) - 2 * Slot * (-d - 1) /\ 2 * Slot * (-d - 1) >= 0
    BY <1>1, <1>3, SMT
  <2>2. 2 * Slot * (-d - 1) \in Int
    BY <1>1, SMT
  <2> QED
    BY <1>1, <2>1, <2>2
<1> QED
  BY <1>2, <1>3

\* Two numbers of the window are less than its width apart.
LEMMA WindowWidth ==
    ASSUME ConstantsOK, NEW start \in Nat, NEW d \in Int, NEW e \in Int,
           -(2 * start) - Slot < 2 * Slot * d, 2 * Slot * e <= 2 * Jitter - 2 * start + Slot
    PROVE  Slot * (e - d) < Jitter + Slot
<1>1. Slot \in Nat /\ Slot > 0 /\ Jitter \in Nat
  BY DEF ConstantsOK
<1> DEFINE x == Slot * d
           y == Slot * e
<1>2. /\ x \in Int /\ y \in Int /\ Slot * (e - d) = y - x
      /\ 2 * Slot * d = 2 * x /\ 2 * Slot * e = 2 * y
  BY <1>1, SMT
<1> HIDE DEF x, y
<1> QED
  BY <1>1, <1>2

\* A burst of the call gets the slot nearest to its arrival.
LEMMA BurstKeeps ==
    ASSUME ConstantsOK, IInv, NEW m \in net, Arrive(m), Burst(m), call # NoCall
    PROVE  IInv'
<1> USE DEF IInv
<1> DEFINE t == clock - call.start
           slot == SlotIndex(t)
           p == [slot |-> slot, seq |-> slot % SeqMod, ts |-> Timestamp(slot),
                 marker |-> ~call.cc_sent_first, n |-> m.n]
<1>1. /\ m.n \in 1..Bursts /\ net' = net \ {m} /\ clock' = clock /\ next' = next
      /\ call' = [call EXCEPT !.last_activity = clock, !.cc_sent_first = TRUE, !.cc_seq = slot]
      /\ out' = [first |-> IF p.marker THEN p ELSE out.first, prev |-> out.last, last |-> p]
      /\ sent' = sent \cup {m.n} /\ total' = total
  BY DEF Arrive, Burst
<1>2. /\ clock \in Nat /\ Jitter \in Nat /\ Idle \in Nat /\ Slot \in Nat /\ Bursts \in Nat
      /\ net \subseteq Messages /\ next \in Nat
      /\ SeqMod \in Nat \ {0} /\ Step \in Nat
  BY DEF TypeOK, ConstantsOK
<1>3. TsMod \in Nat \ {0}
  <2>1. Step * SeqMod > 0 /\ Step * SeqMod \in Nat
    BY SMT DEF ConstantsOK
  <2> QED
    BY <2>1 DEF ConstantsOK
<1>4. call \in CallStates /\ call.start \in Nat /\ call.last_activity \in Nat /\ call.cc_seq \in Nat
      /\ call.cc_sent_first \in BOOLEAN
  BY DEF TypeOK, CallStates
<1>5. /\ call.start <= Jitter /\ call.start <= call.last_activity
      /\ call.last_activity <= clock /\ clock <= call.last_activity + Idle /\ total = 0
  BY DEF CallInv
<1>6. t \in Nat /\ slot \in Nat
  <2>1. t \in Nat
    BY <1>2, <1>4, <1>5
  <2> HIDE DEF t
  <2> QED
    BY <2>1, SlotBounds
<1>7. /\ p \in Packets /\ p.slot = slot /\ p.seq = slot % SeqMod /\ p.ts = Timestamp(slot)
      /\ p.n = m.n /\ p.marker = ~call.cc_sent_first /\ Numbered(p)
  <2> HIDE DEF slot
  <2>1. slot % SeqMod \in 0..(SeqMod - 1)
    BY <1>2, <1>6, DivMod
  <2>2. Timestamp(slot) \in 0..(TsMod - 1)
    <3>1. Step * slot \in Int
      BY <1>2, <1>6, SMT
    <3> QED
      BY <1>3, <3>1, DivMod DEF Timestamp
  <2> QED
    BY <1>1, <1>2, <1>4, <1>6, <2>1, <2>2 DEF Packets, Numbered
<1> HIDE DEF p
<1>8. /\ out'.last = p /\ out'.prev = out.last
      /\ out'.first = IF p.marker THEN p ELSE out.first
      /\ call'.start = call.start /\ call'.last_activity = clock
      /\ call'.cc_sent_first = TRUE /\ call'.cc_seq = slot /\ call' \in CallStates
  BY <1>1, <1>2, <1>4, <1>6 DEF CallStates
<1>9. TypeOK'
  BY <1>1, <1>7, <1>8 DEF TypeOK
<1>10. Pending' /\ HeadFirst'
  BY <1>1 DEF Pending, HeadFirst
<1>11. call.cc_sent_first =>
         /\ Numbered(out.last) /\ out.last.slot = call.cc_seq
         /\ slot - call.cc_seq \in 0..(SeqMod - 1)
  <2> SUFFICES ASSUME call.cc_sent_first
               PROVE  /\ Numbered(out.last) /\ out.last.slot = call.cc_seq
                      /\ slot - call.cc_seq \in 0..(SeqMod - 1)
    OBVIOUS
  <2> DEFINE s == call.last_activity - call.start
  <2>1. /\ Numbered(out.last) /\ out.last.slot = call.cc_seq
        /\ call.cc_seq = SlotIndex(s)
    BY DEF CallInv
  <2>2. s \in Nat /\ s <= t /\ t <= s + Idle
    BY <1>2, <1>4, <1>5
  <2> HIDE DEF s, t
  <2>3. SlotIndex(t) - SlotIndex(s) \in 0..(SeqMod - 1)
    BY <1>6, <2>2, SlotsGrow
  <2> QED
    BY <2>1, <2>3
<1>12. Window(p, call.start)
  <2> DEFINE at == m.n * Slot
             n == m.n
             start == call.start
  <2>1. at = m.at /\ m.at \in Nat /\ n \in Nat /\ m.at <= clock /\ clock <= m.at + Jitter
    BY <1>1, <1>2 DEF Pending, Messages
  <2>2. start \in Nat /\ at <= t + start /\ t + start <= at + Jitter
    BY <1>2, <1>4, <1>5, <2>1
  <2> HIDE DEF t, n, start
  <2>3. n * Slot <= t + start /\ t + start <= n * Slot + Jitter
    BY <2>2 DEF n
  <2>4. LET off == 2 * Slot * (slot - n)
        IN  -(2 * start) - Slot < off /\ off <= 2 * Jitter - 2 * start + Slot
    BY <1>6, <2>1, <2>2, <2>3, InWindow
  <2> HIDE DEF slot
  <2> QED
    BY <1>7, <2>4 DEF Window, n, start
<1>13. out'.first \in Packets /\ Window(out'.first, call.start)
  <2>1. CASE p.marker
    BY <1>7, <1>8, <1>12, <2>1
  <2>2. CASE ~p.marker
    <3>1. call.cc_sent_first
      BY <1>4, <1>7, <2>2
    <3>2. out.first \in Packets /\ Window(out.first, call.start)
      BY <3>1 DEF CallInv
    <3> QED
      BY <1>8, <2>2, <3>2
  <2> QED
    BY <2>1, <2>2
<1>14. PlaceFromFirst'
  <2> DEFINE q == out'.first
             d == q.slot - q.n
             e == p.slot - p.n
             start == call.start
  <2>1. /\ d \in Int /\ e \in Int /\ start \in Nat /\ start <= Jitter
        /\ q.slot \in Nat /\ q.n \in Nat /\ p.slot \in Nat /\ p.n \in Nat
    BY <1>4, <1>5, <1>7, <1>13 DEF Packets
  <2>2. /\ -(2 * start) - Slot < 2 * Slot * d /\ 2 * Slot * d <= 2 * Jitter - 2 * start + Slot
        /\ -(2 * start) - Slot < 2 * Slot * e /\ 2 * Slot * e <= 2 * Jitter - 2 * start + Slot
    BY <1>12, <1>13 DEF Window
  <2>3. /\ (p.slot - q.slot) - (p.n - q.n) = e - d
        /\ -((p.slot - q.slot) - (p.n - q.n)) = d - e
    BY <2>1
  <2> HIDE DEF d, e, start
  <2>4. Slot * (e - d) < Jitter + Slot /\ Slot * (d - e) < Jitter + Slot
    BY <2>1, <2>2, WindowWidth
  <2>5. 2 * Jitter < Slot => e - d = 0
    <3> SUFFICES ASSUME 2 * Jitter < Slot PROVE e - d = 0
      OBVIOUS
    <3>1. d = 0 /\ e = 0
      BY <2>1, <2>2, WindowOfOne
    <3> QED
      BY <3>1
  <2> HIDE DEF q
  <2>6. out'.last = p /\ out'.first = q
    BY <1>8 DEF q
  <2> QED
    BY <2>3, <2>4, <2>5, <2>6 DEF PlaceFromFirst
<1>15. 2 * Jitter < Slot => m.n = slot
  <2> SUFFICES ASSUME 2 * Jitter < Slot PROVE m.n = slot
    OBVIOUS
  <2> DEFINE e == p.slot - p.n
             start == call.start
  <2>1. e \in Int /\ start \in Nat /\ start <= Jitter /\ p.slot \in Nat /\ p.n \in Nat
    BY <1>4, <1>5, <1>7 DEF Packets
  <2>2. -(2 * start) - Slot < 2 * Slot * e /\ 2 * Slot * e <= 2 * Jitter - 2 * start + Slot
    BY <1>12 DEF Window
  <2> HIDE DEF e, start
  <2>3. e = 0
    BY <2>1, <2>2, WindowOfOne
  <2> HIDE DEF slot
  <2> QED
    BY <1>7, <2>1, <2>3 DEF e
<1>16. CallInv'
  <2>1. 2 * Jitter < Slot => \A n \in sent' : n <= slot
    <3> SUFFICES ASSUME 2 * Jitter < Slot, NEW n \in sent PROVE n <= slot
      BY <1>1, <1>6, <1>15
    <3>1. call.cc_sent_first /\ n <= call.cc_seq
      BY DEF CallInv
    <3>2. n \in Int
      BY DEF TypeOK
    <3> HIDE DEF slot
    <3> QED
      BY <1>2, <1>4, <1>6, <1>11, <3>1, <3>2
  <2>2. call'.cc_seq = SlotIndex(call'.last_activity - call'.start)
    BY <1>8
  <2> HIDE DEF slot
  <2>3. 2 * Jitter < Slot => \A n \in sent' : n <= call'.cc_seq
    BY <1>8, <2>1
  <2>4. Numbered(out'.last) /\ out'.last.slot = call'.cc_seq
    BY <1>7, <1>8
  <2>5. /\ call'.start <= Jitter /\ call'.start <= call'.last_activity
        /\ call'.last_activity <= clock' /\ clock' <= call'.last_activity + Idle /\ total' = 0
    BY <1>1, <1>2, <1>4, <1>5, <1>8
  <2>6. out'.first \in Packets /\ Window(out'.first, call'.start)
    BY <1>8, <1>13
  <2> QED
    BY <1>8, <2>2, <2>3, <2>4, <2>5, <2>6 DEF CallInv, Numbered, Window
<1>17. PacketInv'
  <2> SUFFICES ASSUME out.last # NoPacket
               PROVE  /\ out.last.slot \in Nat /\ p.slot \in Nat
                      /\ Numbered(out.last) /\ Numbered(p)
                      /\ p.slot - out.last.slot \in 0..(SeqMod - 1)
    BY <1>8 DEF PacketInv, Numbered
  <2>1. call.cc_sent_first
    BY DEF CallInv
  <2> HIDE DEF slot
  <2> QED
    BY <1>4, <1>6, <1>7, <1>11, <2>1
<1>18. TotalCounts'
  <2>1. call' # NoCall
    BY <1>8 DEF ConstantsOK
  <2> QED
    BY <2>1 DEF TotalCounts
<1> QED
  BY <1>9, <1>10, <1>16, <1>17, <1>18, <1>14

\* There are no more positive numbers up to s than s.
LEMMA UpTo ==
    ASSUME NEW s \in Nat, NEW S, S \subseteq 1..Bursts, \A n \in S : n <= s
    PROVE  Cardinality(S) \in Nat /\ Cardinality(S) <= s
<1>1. 1 \in Int /\ s \in Int /\ Cardinality(1..s) = (IF 1 > s THEN 0 ELSE s - 1 + 1)
  BY FS_Interval
<1>2. S \subseteq 1..s /\ IsFiniteSet(1..s)
  BY <1>1, FS_Interval
<1>3. IsFiniteSet(S) /\ Cardinality(S) <= Cardinality(1..s)
  BY <1>2, FS_Subset
<1>4. Cardinality(S) \in Nat
  BY <1>3, FS_CardinalityType
<1> QED
  BY <1>1, <1>3, <1>4

\* The call ends: the total of its B-off.
LEMMA EndKeeps ==
    ASSUME ConstantsOK, IInv, call' = NoCall, out' = out, sent' = sent, clock' = clock,
           next' = next, net' \subseteq net,
           total' = IF call = NoCall THEN total ELSE Total(call)
    PROVE  IInv'
<1> USE DEF IInv
<1>1. call # NoCall => call.cc_seq \in Nat /\ call.cc_sent_first \in BOOLEAN
  BY DEF TypeOK, CallStates
<1>2. TypeOK'
  BY <1>1 DEF TypeOK, Total
<1>3. Pending' /\ HeadFirst' /\ CallInv' /\ PacketInv' /\ PlaceFromFirst'
  BY DEF Pending, HeadFirst, CallInv, PacketInv, PlaceFromFirst, Numbered
<1>4. TotalCounts'
  <2> SUFFICES ASSUME 2 * Jitter < Slot PROVE Cardinality(sent) <= total'
    BY DEF TotalCounts
  <2>1. CASE call = NoCall
    BY <2>1 DEF TotalCounts
  <2>2. CASE call # NoCall /\ ~call.cc_sent_first
    <3>1. sent = {} /\ total' = 0
      BY <2>2 DEF CallInv, Total
    <3> QED
      BY <3>1, FS_EmptySet
  <2>3. CASE call # NoCall /\ call.cc_sent_first
    <3>1. total' = call.cc_seq + 1 /\ call.cc_seq \in Nat /\ \A n \in sent : n <= call.cc_seq
      BY <1>1, <2>3 DEF CallInv, Total
    <3>2. Cardinality(sent) <= call.cc_seq /\ Cardinality(sent) \in Nat
      BY <3>1, UpTo DEF TypeOK
    <3> QED
      BY <3>1, <3>2
  <2> QED
    BY <2>1, <2>2, <2>3
<1> QED
  BY <1>2, <1>3, <1>4

\* Every step keeps the inductive invariant.
LEMMA StepKeeps == ASSUME ConstantsOK, IInv, [Next]_vars PROVE IInv'
<1>1. CASE UNCHANGED vars
  BY <1>1 DEF vars, IInv, TypeOK, Pending, HeadFirst, CallInv, PacketInv, PlaceFromFirst,
     TotalCounts, Numbered
<1>2. CASE IdleTimeout
  BY <1>2, EndKeeps DEF IdleTimeout
<1>3. ASSUME NEW m \in net, Arrive(m) PROVE IInv'
  <2>1. CASE Head(m)
    BY <1>3, <2>1, HeadKeeps
  <2>2. CASE Burst(m)
    <3>1. CASE call = NoCall
      <4>1. Lose(m)
        BY <1>3, <2>2, <3>1 DEF Arrive, Burst, Lose
      <4> QED
        BY <4>1, LoseKeeps
    <3> QED
      BY <1>3, <2>2, <3>1, BurstKeeps
  <2>3. CASE Term(m)
    BY <1>3, <2>3, EndKeeps DEF Arrive, Term
  <2> QED
    BY <1>3, <2>1, <2>2, <2>3 DEF Arrive
<1> QED
  BY <1>1, <1>2, <1>3, SendKeeps, TimePassesKeeps, LoseKeeps DEF Next

\* The gaps agree where packets in a row are less than a round apart.
LEMMA InvariantShows == ASSUME ConstantsOK, IInv PROVE GapsAgree
<1> SUFFICES ASSUME out.prev # NoPacket
             PROVE  LET gap == (out.last.seq - out.prev.seq) % SeqMod
                    IN  (out.last.ts - out.prev.ts) % TsMod = (Step * gap) % TsMod
  BY DEF GapsAgree
<1> DEFINE x == out.prev.slot
           y == out.last.slot
<1>1. /\ x \in Nat /\ y \in Nat /\ y - x \in 0..(SeqMod - 1)
      /\ out.prev.seq = x % SeqMod /\ out.last.seq = y % SeqMod
      /\ out.prev.ts = Timestamp(x) /\ out.last.ts = Timestamp(y)
  BY DEF IInv, PacketInv, Numbered
<1> HIDE DEF x, y
<1>2. LET gap == ((y % SeqMod) - (x % SeqMod)) % SeqMod
      IN  (Timestamp(y) - Timestamp(x)) % TsMod = (Step * gap) % TsMod
  BY <1>1, SameGap
<1> QED
  BY <1>1, <1>2

\* Whatever is lost, late or out of order, the numbers of a call are in step with
\* its bursts (handle_obp_voice_burst, end_obp_origin_call).
THEOREM Numbering ==
    ASSUME ConstantsOK PROVE Spec => [](TypeOK /\ GapsAgree /\ PlaceFromFirst /\ TotalCounts)
<1>1. IInv => TypeOK /\ GapsAgree /\ PlaceFromFirst /\ TotalCounts
  BY InvariantShows DEF IInv
<1> QED
  BY <1>1, InitHolds, StepKeeps, PTL DEF Spec
=============================================================================
