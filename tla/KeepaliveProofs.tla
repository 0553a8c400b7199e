-------------------------- MODULE KeepaliveProofs ---------------------------
(***************************************************************************)
(* The watchdog of a link, for every interval, limit, delay and number of  *)
(* losses.  It counts datagrams: the silence that makes it give a link up  *)
(* spans so many keepalives that more of them than may be lost would have  *)
(* to be missing.  Tally counts those a far end sends of its own accord;   *)
(* Reflections counts, for every moment, those that were to come back.     *)
(***************************************************************************)
EXTENDS Keepalive, FiniteSetTheorems, FunctionTheorems, TLAPS

-----------------------------------------------------------------------------
(* Bags of datagrams *)

\* One more datagram
LEMMA BagPut ==
    ASSUME NEW b, IsABag(b), NEW m
    PROVE  /\ IsABag(b (+) SetToBag({m}))
           /\ BagToSet(b (+) SetToBag({m})) = BagToSet(b) \cup {m}
<1> DEFINE s == SetToBag({m})
           g == b (+) s
<1>1. DOMAIN s = {m} /\ s[m] = 1 /\ DOMAIN g = DOMAIN b \cup {m}
  BY DEF SetToBag, (+)
<1>2. ASSUME NEW e \in DOMAIN g PROVE g[e] \in {n \in Nat : n > 0}
  <2>1. g[e] = (IF e \in DOMAIN b THEN b[e] ELSE 0) + (IF e \in DOMAIN s THEN s[e] ELSE 0)
    BY DEF (+)
  <2>2. \A d \in DOMAIN b : b[d] \in Nat /\ b[d] > 0
    BY DEF IsABag
  <2> QED
    BY <1>1, <2>1, <2>2
<1>3. g = [e \in DOMAIN g |-> g[e]]
  BY DEF (+)
<1> QED
  BY <1>1, <1>2, <1>3 DEF IsABag, BagToSet

\* One datagram less: a copy may be left.
LEMMA BagTake ==
    ASSUME NEW b, IsABag(b), NEW m
    PROVE  /\ IsABag(b (-) SetToBag({m}))
           /\ BagToSet(b (-) SetToBag({m})) \subseteq BagToSet(b)
           /\ BagToSet(b) \ {m} \subseteq BagToSet(b (-) SetToBag({m}))
<1> DEFINE s == SetToBag({m})
           B == [e \in DOMAIN b |-> IF e \in DOMAIN s THEN b[e] - s[e] ELSE b[e]]
           g == b (-) s
<1>1. DOMAIN s = {m} /\ s[m] = 1 /\ g = [e \in {d \in DOMAIN B : B[d] > 0} |-> B[e]]
  BY DEF SetToBag, (-)
<1>2. \A d \in DOMAIN b : b[d] \in Nat /\ b[d] > 0
  BY DEF IsABag
<1>3. \A d \in DOMAIN b : B[d] \in Int /\ (d # m => B[d] = b[d])
  BY <1>1, <1>2
<1>4. DOMAIN g = {d \in DOMAIN b : B[d] > 0} /\ \A e \in DOMAIN g : g[e] = B[e]
  BY <1>1
<1> HIDE DEF g, B
<1>5. \A e \in DOMAIN g : g[e] \in {n \in Nat : n > 0}
  BY <1>3, <1>4
<1>6. g \in [DOMAIN g -> {n \in Nat : n > 0}]
  BY <1>1, <1>5
<1>7. DOMAIN g \subseteq DOMAIN b /\ DOMAIN b \ {m} \subseteq DOMAIN g
  BY <1>2, <1>3, <1>4
<1> QED
  BY <1>6, <1>7 DEF IsABag, BagToSet, g

-----------------------------------------------------------------------------
(* The inductive invariant *)

\* Datagrams arrive in time.
Flights == \A m \in BagToSet(net) : m.at <= clock /\ clock <= m.at + Delay

PastTimes == last_keepalive_recv <= clock /\ \A e \in Ends : left[e] <= clock

\* The timers of the two ends: neither is late, ours asks again before the
\* timeout and an interval have passed, and the far end's is at most a Delay
\* ahead of a handshake.
Timers ==
    /\ \A e \in Ends : conn[e] # Down => clock <= due[e]
    /\ conn[Us] # Down => /\ due[Us] <= last_keepalive_recv + Timeout + Interval
                          /\ due[Us] <= clock + Interval
    /\ conn[Far] # Down => due[Far] <= clock + Interval + Delay

\* A far end that is gone sends nothing more.
FarGone ==
    conn[Us] # Down /\ conn[Far] # conn[Us] =>
        /\ conn[Far] = Down
        /\ last_keepalive_recv <= left[Far] + Delay
        /\ \A m \in BagToSet(net) : m.to = Us /\ m.ssrc = conn[Us] => m.at <= left[Far]

BasicInv == TypeOK /\ Flights /\ PastTimes /\ Timers /\ FarGone /\ EchoesEnd

-----------------------------------------------------------------------------
\* A datagram that is sent now
Now(to, s) == [to |-> to, ssrc |-> s, at |-> clock]

\* A datagram sent now is in the network, and all that was there still is.
LEMMA PutNet ==
    ASSUME NEW b, IsABag(b), NEW to, NEW s
    PROVE  IsABag(Put(b, to, s)) /\ BagToSet(Put(b, to, s)) = BagToSet(b) \cup {Now(to, s)}
  BY BagPut DEF Put, Now

\* Taking a datagram out adds none.
LEMMA TakeNet ==
    ASSUME NEW b, IsABag(b), NEW m
    PROVE  IsABag(Take(b, m)) /\ BagToSet(Take(b, m)) \subseteq BagToSet(b)
  BY BagTake DEF Take

\* What is sent now is a datagram of this time.
LEMMA NowTypes ==
    ASSUME clock \in 0..MaxTime, NEW to \in Ends, NEW s \in 1..MaxConns
    PROVE  /\ Now(to, s) \in Datagrams
           /\ Now(to, s).to = to /\ Now(to, s).ssrc = s /\ Now(to, s).at = clock
  BY DEF Now, Datagrams

\* The parts of the type invariant, as numbers
LEMMA KeepaliveTypes ==
    ASSUME ConstantsOK, TypeOK
    PROVE  /\ Interval \in Nat /\ Interval > 0 /\ Timeout \in Nat /\ Delay \in Nat /\ Delay > 0
           /\ MaxTime \in Nat /\ MaxConns \in Nat /\ MaxLosses \in Nat
           /\ clock \in Nat /\ clock <= MaxTime
           /\ last_keepalive_recv \in Nat /\ conns \in Nat /\ losses \in Nat
           /\ \A e \in Ends : conn[e] \in Nat /\ conn[e] <= MaxConns /\ due[e] \in Nat
                             /\ left[e] \in Nat
           /\ \A m \in BagToSet(net) : m \in Datagrams /\ m.to \in Ends /\ m.ssrc \in Nat
                                      /\ m.ssrc >= 1 /\ m.ssrc <= MaxConns /\ m.at \in Nat
           /\ Us \in Ends /\ Far \in Ends /\ Us # Far /\ \A e \in Ends : e = Us \/ e = Far
<1>1. \A m \in BagToSet(net) : m \in Datagrams
  BY DEF TypeOK
<1>2. \A m \in Datagrams : /\ m.to \in Ends /\ m.ssrc \in Nat /\ m.ssrc >= 1
                           /\ m.ssrc <= MaxConns /\ m.at \in Nat
  BY DEF Datagrams, ConstantsOK
<1> QED
  BY <1>1, <1>2 DEF ConstantsOK, TypeOK, Us, Far, Ends, Down

\* A connection: both keepalive timers are armed.
LEMMA LinkUpKeeps == ASSUME ConstantsOK, BasicInv, LinkUp PROVE BasicInv'
<1> USE DEF BasicInv
<1>1. PICK d \in 0..Delay : due' = [e \in Ends |-> clock + Interval + (IF e = Far THEN d ELSE 0)]
  BY DEF LinkUp
<1>2. /\ conn[Us] = Down /\ conns < MaxConns /\ conns' = conns + 1
      /\ conn' = [e \in Ends |-> conns + 1] /\ last_keepalive_recv' = clock
      /\ clock' = clock /\ kind' = kind /\ left' = left /\ net' = net /\ losses' = losses
  BY DEF LinkUp, ArmWatchdog
<1>3. /\ conn'[Us] = conns + 1 /\ conn'[Far] = conns + 1
      /\ due'[Us] = clock + Interval /\ due'[Far] = clock + Interval + d /\ d \in Nat /\ d <= Delay
  BY <1>1, <1>2, KeepaliveTypes
<1>4. TypeOK'
  <2>1. conn' \in [Ends -> 0..MaxConns]
    BY <1>2, KeepaliveTypes
  <2>2. due' \in [Ends -> 0..(MaxTime + Interval + Delay)]
    BY <1>1, KeepaliveTypes
  <2> QED
    BY <1>2, <2>1, <2>2, KeepaliveTypes DEF TypeOK
<1>5. Flights' /\ PastTimes'
  BY <1>2, KeepaliveTypes DEF Flights, PastTimes
<1>6. Timers'
  BY <1>2, <1>3, KeepaliveTypes DEF Timers
<1>7. FarGone'
  BY <1>3 DEF FarGone
<1>8. EchoesEnd'
  BY <1>2, KeepaliveTypes DEF EchoesEnd, Down
<1> QED
  BY <1>4, <1>5, <1>6, <1>7, <1>8

\* The far end is gone without closing.
LEMMA FarVanishesKeeps == ASSUME ConstantsOK, BasicInv, FarVanishes PROVE BasicInv'
<1> USE DEF BasicInv
<1>1. /\ conn[Far] # Down /\ conn' = [conn EXCEPT ![Far] = Down]
      /\ left' = [left EXCEPT ![Far] = clock] /\ UNCHANGED <<clock, kind, due, net, losses>>
      /\ UNCHANGED <<last_keepalive_recv, conns>>
  BY DEF FarVanishes, Leave
<1>2. /\ conn'[Us] = conn[Us] /\ conn'[Far] = Down /\ left'[Us] = left[Us] /\ left'[Far] = clock
  BY <1>1, KeepaliveTypes DEF TypeOK
<1>3. TypeOK'
  BY <1>1, KeepaliveTypes DEF TypeOK, Down
<1>4. Flights' /\ PastTimes' /\ Timers' /\ EchoesEnd'
  BY <1>1, <1>2, KeepaliveTypes DEF Flights, PastTimes, Timers, EchoesEnd
<1>5. FarGone'
  BY <1>1, <1>2, KeepaliveTypes DEF FarGone, Flights, PastTimes
<1> QED
  BY <1>3, <1>4, <1>5

\* A closed connection disarms the timer.
LEMMA CloseSeenKeeps == ASSUME ConstantsOK, BasicInv, CloseSeen PROVE BasicInv'
<1> USE DEF BasicInv
<1>1. /\ conn' = [conn EXCEPT ![Us] = Down]
      /\ left' = [left EXCEPT ![Us] = clock] /\ UNCHANGED <<clock, kind, due, net, losses>>
      /\ UNCHANGED <<last_keepalive_recv, conns>>
  BY DEF CloseSeen, Leave
<1>2. conn'[Us] = Down /\ conn'[Far] = conn[Far] /\ left'[Us] = clock /\ left'[Far] = left[Far]
  BY <1>1, KeepaliveTypes DEF TypeOK
<1>3. TypeOK'
  BY <1>1, KeepaliveTypes DEF TypeOK, Down
<1>4. Flights' /\ PastTimes' /\ Timers' /\ FarGone'
  BY <1>1, <1>2, KeepaliveTypes DEF Flights, PastTimes, Timers, FarGone
<1>5. EchoesEnd'
  BY <1>1, <1>2 DEF EchoesEnd, Flights
<1> QED
  BY <1>3, <1>4, <1>5

\* ka_timer_cb: a keepalive is sent, or the link is given up.
LEMMA KeepaliveCbKeeps == ASSUME ConstantsOK, BasicInv, KeepaliveCb PROVE BasicInv'
<1> USE DEF BasicInv
<1> DEFINE p == Now(Far, conn[Us])
<1>1. /\ conn[Us] # Down /\ clock = due[Us] /\ UNCHANGED <<clock, kind, losses>>
      /\ UNCHANGED <<last_keepalive_recv, conns>>
  BY DEF KeepaliveCb
<1>2. /\ IsABag(net') /\ BagToSet(net') = BagToSet(net) \cup {p}
      /\ p \in Datagrams /\ p.to = Far /\ p.ssrc = conn[Us] /\ p.at = clock
  <2>1. conn[Us] \in 1..MaxConns /\ clock \in 0..MaxTime /\ IsABag(net)
    BY <1>1, KeepaliveTypes DEF Down, TypeOK
  <2>2. net' = Put(net, Far, conn[Us])
    BY DEF KeepaliveCb
  <2> QED
    BY <2>1, <2>2, PutNet, NowTypes, KeepaliveTypes
<1> HIDE DEF p
<1>3. Flights'
  BY <1>1, <1>2, KeepaliveTypes DEF Flights
<1>4. CASE Expired
  <2>1. conn' = [conn EXCEPT ![Us] = Down] /\ left' = [left EXCEPT ![Us] = clock] /\ due' = due
    BY <1>4 DEF KeepaliveCb, Leave
  <2>2. conn'[Us] = Down /\ conn'[Far] = conn[Far] /\ left'[Us] = clock /\ left'[Far] = left[Far]
    BY <2>1, KeepaliveTypes DEF TypeOK
  <2>3. TypeOK'
    BY <1>1, <1>2, <2>1, KeepaliveTypes DEF TypeOK, Down
  <2>4. PastTimes' /\ Timers' /\ FarGone'
    BY <1>1, <2>1, <2>2, KeepaliveTypes DEF PastTimes, Timers, FarGone
  <2>5. EchoesEnd'
    BY <1>1, <1>2, <1>3, <2>2 DEF EchoesEnd, Flights
  <2> QED
    BY <1>3, <2>3, <2>4, <2>5
<1>5. CASE ~Expired
  <2>1. due' = [due EXCEPT ![Us] = clock + Interval] /\ conn' = conn /\ left' = left
    BY <1>5 DEF KeepaliveCb
  <2>2. due'[Us] = clock + Interval /\ due'[Far] = due[Far]
    BY <2>1, KeepaliveTypes DEF TypeOK
  <2>3. TypeOK'
    <3>1. due' \in [Ends -> 0..(MaxTime + Interval + Delay)]
      BY <2>1, KeepaliveTypes DEF TypeOK
    <3> QED
      BY <1>1, <1>2, <2>1, <3>1 DEF TypeOK
  <2>4. PastTimes' /\ FarGone' /\ EchoesEnd'
    BY <1>1, <1>2, <2>1, <2>2, KeepaliveTypes DEF PastTimes, FarGone, EchoesEnd
  <2>5. Timers'
    BY <1>1, <1>5, <2>1, <2>2, KeepaliveTypes DEF Timers, Expired
  <2> QED
    BY <1>3, <2>3, <2>4, <2>5
<1> QED
  BY <1>4, <1>5

\* A keepalive at this end: last_keepalive_rx moves.
LEMMA KeepaliveArrivesKeeps ==
    ASSUME ConstantsOK, BasicInv, NEW m \in BagToSet(net), m.at < clock, KeepaliveArrives(m)
    PROVE  BasicInv'
<1> USE DEF BasicInv
<1>1. m.to = Us /\ UNCHANGED <<clock, kind, conn, due, left, conns, losses>>
  BY DEF KeepaliveArrives
<1>2. IsABag(net) /\ IsABag(Take(net, m)) /\ BagToSet(Take(net, m)) \subseteq BagToSet(net)
  BY TakeNet DEF TypeOK
<1>3. CASE Known(m)
  <2> DEFINE p == Now(Far, m.ssrc)
  <2>1. last_keepalive_recv' = clock /\ m.ssrc = conn[Us]
    BY <1>3 DEF KeepaliveArrives, Known
  <2>2. /\ IsABag(net') /\ BagToSet(net') \subseteq BagToSet(net) \cup {p}
        /\ p \in Datagrams /\ p.to = Far /\ p.ssrc = m.ssrc /\ p.at = clock
    <3>1. m.ssrc \in 1..MaxConns /\ clock \in 0..MaxTime
      BY KeepaliveTypes
    <3>2. net' = Put(Take(net, m), Far, m.ssrc)
      BY <1>3 DEF KeepaliveArrives
    <3> QED
      BY <1>2, <3>1, <3>2, PutNet, NowTypes, KeepaliveTypes
  <2> HIDE DEF p
  <2>3. TypeOK'
    BY <1>1, <2>1, <2>2, KeepaliveTypes DEF TypeOK
  <2>4. Flights' /\ PastTimes' /\ Timers' /\ EchoesEnd'
    BY <1>1, <2>1, <2>2, KeepaliveTypes DEF Flights, PastTimes, Timers, EchoesEnd
  <2>5. FarGone'
    <3>1. clock <= m.at + Delay
      BY DEF Flights
    <3>2. conn[Us] # Down /\ conn[Far] # conn[Us] => clock <= left[Far] + Delay
      BY <1>1, <2>1, <3>1, KeepaliveTypes DEF FarGone
    <3> QED
      BY <1>1, <2>1, <2>2, <3>2, KeepaliveTypes DEF FarGone
  <2> QED
    BY <2>3, <2>4, <2>5
<1>4. CASE ~Known(m)
  <2>1. last_keepalive_recv' = last_keepalive_recv /\ net' = Take(net, m)
    BY <1>4 DEF KeepaliveArrives
  <2>2. TypeOK'
    BY <1>1, <1>2, <2>1 DEF TypeOK
  <2>3. Flights' /\ PastTimes' /\ Timers' /\ EchoesEnd' /\ FarGone'
    BY <1>1, <1>2, <2>1 DEF Flights, PastTimes, Timers, EchoesEnd, FarGone
  <2> QED
    BY <2>2, <2>3
<1> QED
  BY <1>3, <1>4

\* The far end's own timer.
LEMMA FarOriginatesKeeps == ASSUME ConstantsOK, BasicInv, FarOriginates PROVE BasicInv'
<1> USE DEF BasicInv
<1> DEFINE p == Now(Us, conn[Far])
<1>1. /\ conn[Far] # Down /\ clock = due[Far] /\ due' = [due EXCEPT ![Far] = clock + Interval]
      /\ UNCHANGED <<clock, kind, conn, left, losses>>
      /\ UNCHANGED <<last_keepalive_recv, conns>>
  BY DEF FarOriginates
<1>2. /\ IsABag(net') /\ BagToSet(net') \subseteq BagToSet(net) \cup {p}
      /\ p \in Datagrams /\ p.to = Us /\ p.ssrc = conn[Far] /\ p.at = clock
  <2>1. conn[Far] \in 1..MaxConns /\ clock \in 0..MaxTime /\ IsABag(net)
    BY <1>1, KeepaliveTypes DEF Down, TypeOK
  <2>2. net' = Put(net, Us, conn[Far]) \/ net' = net
    BY DEF FarOriginates
  <2> QED
    BY <2>1, <2>2, PutNet, NowTypes, KeepaliveTypes
<1> HIDE DEF p
<1>3. due'[Far] = clock + Interval /\ due'[Us] = due[Us]
  BY <1>1, KeepaliveTypes DEF TypeOK
<1>4. TypeOK'
  <2>1. due' \in [Ends -> 0..(MaxTime + Interval + Delay)]
    BY <1>1, KeepaliveTypes DEF TypeOK
  <2> QED
    BY <1>1, <1>2, <2>1 DEF TypeOK
<1>5. Flights' /\ PastTimes' /\ Timers' /\ EchoesEnd'
  BY <1>1, <1>2, <1>3, KeepaliveTypes DEF Flights, PastTimes, Timers, EchoesEnd
<1>6. FarGone'
  BY <1>1, <1>2 DEF FarGone
<1> QED
  BY <1>4, <1>5, <1>6

\* A keepalive at the far end, sent back by one that reflects.
LEMMA FarReceivesKeeps ==
    ASSUME ConstantsOK, BasicInv, NEW m \in BagToSet(net), m.at < clock, FarReceives(m)
    PROVE  BasicInv'
<1> USE DEF BasicInv
<1> DEFINE p == Now(Us, m.ssrc)
<1>1. /\ m.to = Far /\ UNCHANGED <<clock, kind, conn, due, left, losses>>
      /\ UNCHANGED <<last_keepalive_recv, conns>>
  BY DEF FarReceives
<1>2. IsABag(net) /\ IsABag(Take(net, m)) /\ BagToSet(Take(net, m)) \subseteq BagToSet(net)
  BY TakeNet DEF TypeOK
<1>3. /\ IsABag(net')
      /\ BagToSet(net') \subseteq BagToSet(net) \cup (IF m.ssrc = conn[Far] THEN {p} ELSE {})
      /\ p \in Datagrams /\ p.to = Us /\ p.ssrc = m.ssrc /\ p.at = clock
  <2>1. m.ssrc \in 1..MaxConns /\ clock \in 0..MaxTime
    BY KeepaliveTypes
  <2>2. \/ net' = Take(net, m)
        \/ m.ssrc = conn[Far] /\ net' = Put(Take(net, m), Us, m.ssrc)
    BY DEF FarReceives
  <2> QED
    BY <1>2, <2>1, <2>2, PutNet, NowTypes, KeepaliveTypes
<1> HIDE DEF p
<1>4. TypeOK'
  BY <1>1, <1>3 DEF TypeOK
<1>5. Flights' /\ PastTimes' /\ Timers' /\ EchoesEnd'
  BY <1>1, <1>3, KeepaliveTypes DEF Flights, PastTimes, Timers, EchoesEnd
<1>6. FarGone'
  BY <1>1, <1>3, KeepaliveTypes DEF FarGone, Down
<1> QED
  BY <1>4, <1>5, <1>6

\* A datagram lost.
LEMMA LoseKeeps ==
    ASSUME ConstantsOK, BasicInv, NEW m \in BagToSet(net), Lose(m)
    PROVE  BasicInv'
<1> USE DEF BasicInv
<1>1. /\ losses < MaxLosses /\ losses' = losses + 1 /\ net' = Take(net, m)
      /\ UNCHANGED <<clock, kind, conn, due, left>> /\ UNCHANGED <<last_keepalive_recv, conns>>
  BY DEF Lose
<1>2. IsABag(net') /\ BagToSet(net') \subseteq BagToSet(net)
  BY <1>1, TakeNet DEF TypeOK
<1>3. TypeOK'
  BY <1>1, <1>2, KeepaliveTypes DEF TypeOK
<1>4. Flights' /\ PastTimes' /\ Timers' /\ EchoesEnd' /\ FarGone'
  BY <1>1, <1>2 DEF Flights, PastTimes, Timers, EchoesEnd, FarGone
<1> QED
  BY <1>3, <1>4

\* Time passes only when no timer and no datagram is overdue.
LEMMA TimePassesKeeps == ASSUME ConstantsOK, BasicInv, TimePasses PROVE BasicInv'
<1> USE DEF BasicInv
<1>1. /\ clock < MaxTime /\ clock' = clock + 1 /\ UNCHANGED <<kind, conn, due, left, net, losses>>
      /\ UNCHANGED <<last_keepalive_recv, conns>>
      /\ \A e \in Ends : conn[e] # Down => clock < due[e]
      /\ \A m \in BagToSet(net) : clock < m.at + Delay
  BY DEF TimePasses
<1>2. TypeOK'
  BY <1>1, KeepaliveTypes DEF TypeOK
<1>3. Flights'
  BY <1>1, KeepaliveTypes DEF Flights
<1>4. PastTimes' /\ Timers'
  BY <1>1, KeepaliveTypes DEF PastTimes, Timers
<1>5. EchoesEnd' /\ FarGone'
  BY <1>1 DEF EchoesEnd, FarGone
<1> QED
  BY <1>2, <1>3, <1>4, <1>5

\* The part of the invariant without counting holds at first.
LEMMA BasicInit == ASSUME ConstantsOK, Init PROVE BasicInv
<1>1. IsABag(EmptyBag) /\ BagToSet(EmptyBag) = {}
  BY DEF IsABag, EmptyBag, BagToSet, SetToBag
<1>2. TypeOK
  BY <1>1 DEF Init, TypeOK, ConstantsOK, Down
<1>3. Flights /\ PastTimes /\ Timers /\ FarGone /\ EchoesEnd
  BY <1>1, <1>2 DEF Init, Flights, PastTimes, Timers, FarGone, EchoesEnd, Ends, Us, Far, Down
<1> QED
  BY <1>2, <1>3 DEF BasicInv

\* Every step keeps the part of the invariant without counting.
LEMMA BasicStep == ASSUME ConstantsOK, BasicInv, [Next]_vars PROVE BasicInv'
<1>1. CASE UNCHANGED vars
  BY <1>1 DEF vars, BasicInv, TypeOK, Flights, PastTimes, Timers, FarGone, EchoesEnd
<1>2. CASE \E m \in BagToSet(net) :
              m.at < clock /\ (KeepaliveArrives(m) \/ FarReceives(m) \/ Lose(m))
  BY <1>2, KeepaliveArrivesKeeps, FarReceivesKeeps, LoseKeeps
<1> QED
  BY <1>1, <1>2, LinkUpKeeps, FarVanishesKeeps, CloseSeenKeeps, KeepaliveCbKeeps,
     FarOriginatesKeeps, TimePassesKeeps DEF Next

\* A far end that is gone is noticed at the keepalive after its silence.
LEMMA BasicShows == ASSUME ConstantsOK, BasicInv PROVE DeadNoticed
  BY KeepaliveTypes DEF BasicInv, DeadNoticed, FarGone, Timers

-----------------------------------------------------------------------------
(* Counting the keepalives that were not heard *)

\* Every stretch of Interval has one time at which a keepalive was due.
LEMMA OneInAWindow ==
    ASSUME NEW I \in Nat \ {0}, NEW hi \in Int, NEW d \in Int
    PROVE  \E t \in Int : hi - I < t /\ t <= hi /\ \E j \in Int : t = d + I * j
<1> DEFINE q == (hi - d) \div I
           r == (hi - d) % I
           t == hi - r
<1>1. q \in Int /\ r \in 0..(I - 1) /\ hi - d = I * q + r
  BY SMT
<1>2. I * q \in Int
  BY <1>1, SMT
<1> HIDE DEF q, r
<1>3. t \in Int /\ hi - I < t /\ t <= hi /\ t = d + I * q
  BY <1>1, <1>2
<1> QED
  BY <1>1, <1>3

\* So n + 1 stretches have n + 1 such times.
LEMMA Windows ==
    ASSUME NEW I \in Nat \ {0}, NEW lo \in Nat, NEW d \in Int, NEW n \in Nat,
           NEW S, IsFiniteSet(S),
           \A t \in Nat : lo < t /\ t <= lo + (n + 1) * I /\ (\E j \in Int : t = d + I * j)
                             => t \in S
    PROVE  n + 1 <= Cardinality(S)
<1> DEFINE Hi(i) == lo + (i + 1) * I
           In(t, i) == Hi(i) - I < t /\ t <= Hi(i) /\ \E j \in Int : t = d + I * j
           f == [i \in 0..n |-> CHOOSE t \in Int : In(t, i)]
<1>1. ASSUME NEW i \in 0..n PROVE Hi(i) \in Int /\ i * I \in Nat /\ Hi(i) = lo + i * I + I
  BY SMT
<1>2. ASSUME NEW i \in 0..n PROVE f[i] \in Int /\ In(f[i], i)
  <2>1. \E t \in Int : In(t, i)
    <3> DEFINE hi == Hi(i)
    <3>1. hi \in Int
      BY <1>1
    <3> HIDE DEF hi
    <3>2. \E t \in Int : hi - I < t /\ t <= hi /\ \E j \in Int : t = d + I * j
      BY <3>1, OneInAWindow
    <3> QED
      BY <3>2 DEF hi
  <2> HIDE DEF In
  <2> QED
    BY <2>1
<1>3. ASSUME NEW i \in 0..n PROVE (i + 1) * I <= (n + 1) * I /\ (n + 1) * I \in Int
  <2>1. n - i \in Nat /\ (n + 1) * I = (i + 1) * I + (n - i) * I
    BY SMT
  <2>2. (n - i) * I \in Nat /\ (i + 1) * I \in Int
    BY <2>1, SMT
  <2> QED
    BY <2>1, <2>2
<1>4. ASSUME NEW i \in 0..n PROVE f[i] \in S
  <2>1. f[i] \in Int /\ lo < f[i] /\ f[i] <= lo + (n + 1) * I
    <3>1. f[i] \in Int /\ Hi(i) - I < f[i] /\ f[i] <= Hi(i)
      BY <1>2
    <3>2. Hi(i) \in Int /\ lo <= Hi(i) - I /\ Hi(i) <= lo + (n + 1) * I
      <4> DEFINE u == (i + 1) * I
                 v == (n + 1) * I
      <4>1. u \in Int /\ v \in Int /\ u <= v /\ u - I >= 0
        <5>1. u = i * I + I /\ i * I \in Nat
          BY SMT
        <5> QED
          BY <1>3, <5>1
      <4> HIDE DEF u, v
      <4>2. lo + u \in Int /\ lo <= lo + u - I /\ lo + u <= lo + v
        BY <4>1
      <4> QED
        BY <4>2 DEF u, v
    <3>3. lo + (n + 1) * I \in Int
      BY <1>3
    <3> HIDE DEF f, Hi
    <3> QED
      BY <3>1, <3>2, <3>3
  <2>2. \E j \in Int : f[i] = d + I * j
    BY <1>2
  <2> HIDE DEF f
  <2> QED
    BY <2>1, <2>2
<1>5. ASSUME NEW i \in 0..n, NEW k \in 0..n, i < k PROVE f[i] # f[k]
  <2>1. k - i - 1 \in Nat /\ k * I = i * I + I + (k - i - 1) * I
    BY <1>5, SMT
  <2>2. (k - i - 1) * I \in Nat
    BY <2>1, SMT
  <2>3. Hi(i) <= Hi(k) - I
    BY <1>1, <2>1, <2>2
  <2>4. f[i] \in Int /\ f[k] \in Int /\ f[i] <= Hi(i) /\ Hi(k) - I < f[k]
    BY <1>2
  <2>5. Hi(i) \in Int /\ Hi(k) \in Int
    BY <1>1
  <2> HIDE DEF f, Hi
  <2> QED
    BY <2>3, <2>4, <2>5
<1>6. f \in [0..n -> S]
  BY <1>4
<1>7. \A a, b \in 0..n : f[a] = f[b] => a = b
  <2> HIDE DEF f
  <2> QED
    BY <1>5
<1> HIDE DEF f
<1>8. f \in Injection(0..n, S)
  BY <1>6, <1>7, Fun_IsInj
<1>9. Cardinality(0..n) <= Cardinality(S)
  BY <1>8, FS_Injection
<1>10. Cardinality(0..n) = n + 1
  BY FS_Interval
<1> QED
  BY <1>9, <1>10

\* The times at which the timer of end e has expired since the time given
SentSince(e, since) ==
    {t \in 0..(MaxTime + Interval + Delay) :
        since < t /\ t + Interval <= due[e] /\ \E j \in Int : t = due[e] + Interval * j}

\* Only finitely many keepalives are due in the life of a link.
LEMMA SentFinite ==
    ASSUME ConstantsOK, NEW e, NEW since, NEW T \in SUBSET SentSince(e, since)
    PROVE  IsFiniteSet(T) /\ Cardinality(T) \in Nat
<1>1. MaxTime + Interval + Delay \in Nat
  BY DEF ConstantsOK
<1>2. IsFiniteSet(0..(MaxTime + Interval + Delay))
  BY <1>1, FS_Interval
<1>3. T \in SUBSET (0..(MaxTime + Interval + Delay))
  BY DEF SentSince
<1> QED
  BY <1>2, <1>3, FS_Subset, FS_CardinalityType

\* No keepalive is due before one interval has passed.
LEMMA SentNone ==
    ASSUME ConstantsOK, NEW e, due[e] \in Nat, NEW since \in Nat, due[e] <= since + Interval
    PROVE  SentSince(e, since) = {}
  BY DEF SentSince, ConstantsOK

\* When the timer expires, one time comes to them.
LEMMA SentOneMore ==
    ASSUME ConstantsOK, NEW e, NEW since \in Nat, due[e] \in Nat, clock = due[e],
           due'[e] = clock + Interval
    PROVE  SentSince(e, since)' \subseteq SentSince(e, since) \cup {clock}
<1>1. /\ Interval \in Nat /\ Interval > 0
      /\ MaxTime + Interval + Delay \in Nat
  BY DEF ConstantsOK
<1> SUFFICES ASSUME NEW t \in 0..(MaxTime + Interval + Delay), since < t,
                    t + Interval <= due'[e], NEW j \in Int, t = due'[e] + Interval * j,
                    t # clock
             PROVE  t + Interval <= due[e] /\ \E k \in Int : t = due[e] + Interval * k
  BY DEF SentSince
<1>2. Interval * (j + 1) = Interval * j + Interval /\ j + 1 \in Int
  BY <1>1, SMT
<1>3. Interval * j \in Int /\ Interval * (j + 1) \in Int
  BY <1>1, <1>2, SMT
<1>4. t = due[e] + Interval * (j + 1)
  BY <1>1, <1>2, <1>3
<1>5. t < clock
  BY <1>1
<1>6. j + 1 < 0
  <2>1. CASE j + 1 >= 0
    <3>1. Interval * (j + 1) >= 0
      BY <1>1, <1>2, <2>1, SMT
    <3> QED
      BY <1>1, <1>3, <1>4, <1>5, <3>1
  <2> QED
    BY <1>2, <2>1
<1>7. Interval * (j + 1) <= -Interval
  <2>1. -(j + 2) \in Nat /\ Interval * (j + 1) = -Interval - Interval * (-(j + 2))
    BY <1>1, <1>6, SMT
  <2>2. Interval * (-(j + 2)) \in Nat
    BY <1>1, <2>1, SMT
  <2> QED
    BY <1>1, <2>1, <2>2
<1>8. t + Interval <= due[e]
  BY <1>1, <1>3, <1>4, <1>7
<1>9. \E k \in Int : t = due[e] + Interval * k
  BY <1>2, <1>4
<1> QED
  BY <1>8, <1>9

-----------------------------------------------------------------------------
(* A far end that sends keepalives of its own *)

\* A keepalive of this connection that the far end sent at t is on its way.
OnItsWay(t) == \E m \in BagToSet(net) : m.to = Us /\ m.ssrc = conn[Us] /\ m.at = t

\* When the far end has sent keepalives since the last one was heard here that
\* are no longer on their way
Missing == {t \in SentSince(Far, last_keepalive_recv + Delay) : ~OnItsWay(t)}

\* Each of them was lost.
Tally ==
    "originates" \in kind /\ conn[Us] # Down /\ conn[Far] = conn[Us] =>
        Cardinality(Missing) <= losses

\* A link is not declared dead as long as the losses leave room for it.
LEMMA TallyShows ==
    ASSUME ConstantsOK, BasicInv, Tally, conn[Us] # Down, conn[Far] = conn[Us],
           "originates" \in kind, Expired
    PROVE  (losses + 1) * Interval + 2 * Delay > Timeout
<1> USE DEF BasicInv
<1> DEFINE lo == last_keepalive_recv + Delay
           w == (losses + 1) * Interval
<1>1. w \in Nat
  BY KeepaliveTypes, SMT
<1> SUFFICES ASSUME w + 2 * Delay <= Timeout PROVE FALSE
  BY <1>1, KeepaliveTypes
<1>2. clock - last_keepalive_recv > w + 2 * Delay
  BY <1>1, KeepaliveTypes DEF Expired
<1>3. lo \in Nat /\ due[Far] \in Int /\ losses \in Nat /\ Interval \in Nat \ {0}
  BY KeepaliveTypes
<1>4. IsFiniteSet(Missing) /\ Cardinality(Missing) <= losses /\ Cardinality(Missing) \in Nat
  <2>1. Missing \in SUBSET SentSince(Far, lo)
    BY DEF Missing
  <2> QED
    BY <2>1, SentFinite DEF Tally
<1>5. ASSUME NEW t \in Nat, lo < t, t <= lo + w, \E j \in Int : t = due[Far] + Interval * j
      PROVE  t \in Missing
  <2>1. t < clock - Delay /\ clock <= due[Far]
    BY <1>1, <1>2, <1>3, <1>5, KeepaliveTypes DEF Timers
  <2>2. ~OnItsWay(t)
    BY <2>1, KeepaliveTypes DEF OnItsWay, Flights
  <2>3. t + Interval <= due[Far]
    <3>1. PICK j \in Int : t = due[Far] + Interval * j
      BY <1>5
    <3>2. Interval * j \in Int /\ Interval * j < 0
      <4>1. Interval * j \in Int
        BY <1>3, SMT
      <4> QED
        BY <1>3, <2>1, <3>1, <4>1, KeepaliveTypes
    <3>3. -(j + 1) \in Nat
      <4>1. CASE j >= 0
        <5>1. Interval * j >= 0
          BY <1>3, <4>1, SMT
        <5> QED
          BY <3>2, <5>1
      <4> QED
        BY <4>1
    <3>4. Interval * j = -Interval - Interval * (-(j + 1)) /\ Interval * (-(j + 1)) \in Nat
      BY <1>3, <3>3, SMT
    <3> QED
      BY <1>3, <3>1, <3>2, <3>4
  <2>4. t \in 0..(MaxTime + Interval + Delay)
    BY <1>1, <1>3, <2>1, KeepaliveTypes
  <2> QED
    BY <1>5, <2>2, <2>3, <2>4 DEF Missing, SentSince
<1> HIDE DEF lo
<1>6. losses + 1 <= Cardinality(Missing)
  <2>1. \A t \in Nat : /\ lo < t /\ t <= lo + (losses + 1) * Interval
                       /\ \E j \in Int : t = due[Far] + Interval * j
                       => t \in Missing
    BY <1>5
  <2> HIDE DEF w
  <2> QED
    BY <1>3, <1>4, <2>1, Windows
<1> QED
  BY <1>3, <1>4, <1>6

\* Where nothing that was on its way to us is gone, nothing more is missing.
LEMMA TallyKept ==
    ASSUME ConstantsOK, TypeOK, Tally, kind' = kind, conn' = conn, losses' = losses,
           last_keepalive_recv' = last_keepalive_recv, due'[Far] = due[Far],
           \A m \in BagToSet(net) : m.to = Us /\ m.ssrc = conn[Us] => m \in BagToSet(net')
    PROVE  Tally'
<1>1. Missing' \subseteq Missing
  BY DEF Missing, OnItsWay, SentSince
<1>2. Missing \in SUBSET SentSince(Far, last_keepalive_recv + Delay)
  BY DEF Missing
<1>3. IsFiniteSet(Missing) /\ Cardinality(Missing) \in Nat
  BY <1>2, SentFinite
<1>4. Cardinality(Missing') <= Cardinality(Missing) /\ Cardinality(Missing') \in Nat
  BY <1>1, <1>3, FS_Subset, FS_CardinalityType
<1> QED
  BY <1>3, <1>4, KeepaliveTypes DEF Tally

\* A keepalive that is heard, and a handshake, leave none missing.
LEMMA TallyEmpty ==
    ASSUME ConstantsOK, due'[Far] \in Nat, last_keepalive_recv' \in Nat,
           due'[Far] <= last_keepalive_recv' + Delay + Interval, losses' \in Nat
    PROVE  Tally'
<1>1. SentSince(Far, last_keepalive_recv + Delay)' = {}
  BY DEF SentSince, ConstantsOK
<1>2. Missing' = {}
  BY <1>1 DEF Missing
<1> QED
  BY <1>2, FS_EmptySet DEF Tally

\* The count for a far end that originates: what is missing was lost.
LEMMA TallyStep ==
    ASSUME ConstantsOK, BasicInv, Tally, BasicInv', Next
    PROVE  Tally'
<1> USE DEF BasicInv
<1>1. CASE LinkUp
  <2>1. PICK d \in 0..Delay : due' = [e \in Ends |-> clock + Interval + (IF e = Far THEN d ELSE 0)]
    BY <1>1 DEF LinkUp
  <2>2. last_keepalive_recv' = clock /\ losses' = losses
    BY <1>1 DEF LinkUp, ArmWatchdog
  <2>3. due'[Far] = clock + Interval + d
    BY <2>1, KeepaliveTypes
  <2> QED
    BY <2>2, <2>3, KeepaliveTypes, TallyEmpty
<1>2. CASE FarVanishes
  <2>1. conn'[Far] = Down
    BY <1>2, KeepaliveTypes DEF FarVanishes, Leave, TypeOK
  <2> QED
    BY <2>1 DEF Tally
<1>3. CASE CloseSeen
  <2>1. conn'[Us] = Down
    BY <1>3, KeepaliveTypes DEF CloseSeen, Leave, TypeOK
  <2> QED
    BY <2>1 DEF Tally
<1>4. CASE KeepaliveCb
  <2>1. CASE Expired
    <3>1. conn'[Us] = Down
      BY <1>4, <2>1, KeepaliveTypes DEF KeepaliveCb, Leave, TypeOK
    <3> QED
      BY <3>1 DEF Tally
  <2>2. CASE ~Expired
    <3>1. /\ kind' = kind /\ conn' = conn /\ losses' = losses
          /\ last_keepalive_recv' = last_keepalive_recv
          /\ due' = [due EXCEPT ![Us] = clock + Interval]
      BY <1>4, <2>2 DEF KeepaliveCb
    <3>2. due'[Far] = due[Far]
      BY <3>1, KeepaliveTypes DEF TypeOK
    <3>3. BagToSet(net) \subseteq BagToSet(net')
      BY <1>4, PutNet DEF KeepaliveCb, TypeOK
    <3> QED
      BY <3>1, <3>2, <3>3, TallyKept
  <2> QED
    BY <2>1, <2>2
<1>5. ASSUME NEW m \in BagToSet(net), m.at < clock, KeepaliveArrives(m) PROVE Tally'
  <2>1. UNCHANGED <<clock, kind, conn, due, losses>>
    BY <1>5 DEF KeepaliveArrives
  <2>2. CASE Known(m)
    <3>1. last_keepalive_recv' = clock /\ conn[Us] = m.ssrc
      BY <1>5, <2>2 DEF KeepaliveArrives, Known
    <3>2. CASE conn[Far] = Down
      BY <2>1, <3>2 DEF Tally
    <3>3. CASE conn[Far] # Down
      <4>1. due[Far] <= clock + Interval + Delay
        BY <3>3 DEF Timers
      <4> QED
        BY <2>1, <3>1, <4>1, KeepaliveTypes, TallyEmpty
    <3> QED
      BY <3>2, <3>3
  <2>3. CASE ~Known(m)
    <3>1. last_keepalive_recv' = last_keepalive_recv /\ net' = Take(net, m)
      BY <1>5, <2>3 DEF KeepaliveArrives
    <3>2. BagToSet(net) \ {m} \subseteq BagToSet(net')
      BY <3>1, BagTake DEF Take, TypeOK
    <3> QED
      BY <2>1, <2>3, <3>1, <3>2, TallyKept DEF Known
  <2> QED
    BY <2>2, <2>3
<1>6. CASE FarOriginates
  <2>1. /\ conn[Far] # Down /\ clock = due[Far] /\ due' = [due EXCEPT ![Far] = clock + Interval]
        /\ net' = IF "originates" \in kind THEN Put(net, Us, conn[Far]) ELSE net
        /\ UNCHANGED <<clock, kind, conn, losses>> /\ last_keepalive_recv' = last_keepalive_recv
    BY <1>6 DEF FarOriginates
  <2> SUFFICES ASSUME "originates" \in kind, conn[Us] # Down, conn[Far] = conn[Us]
               PROVE  Cardinality(Missing') <= losses
    BY <2>1 DEF Tally
  <2> DEFINE p == Now(Us, conn[Far])
  <2>2. /\ BagToSet(net') = BagToSet(net) \cup {p}
        /\ p.to = Us /\ p.ssrc = conn[Us] /\ p.at = clock
    <3>1. conn[Far] \in 1..MaxConns /\ clock \in 0..MaxTime /\ IsABag(net)
      BY <2>1, KeepaliveTypes DEF Down, TypeOK
    <3> QED
      BY <2>1, <3>1, PutNet, NowTypes, KeepaliveTypes
  <2> HIDE DEF p
  <2>3. SentSince(Far, last_keepalive_recv + Delay)'
          \subseteq SentSince(Far, last_keepalive_recv + Delay) \cup {clock}
    <3> DEFINE since == last_keepalive_recv + Delay
    <3>1. since \in Nat /\ due[Far] \in Nat /\ due'[Far] = clock + Interval
      BY <2>1, KeepaliveTypes DEF TypeOK
    <3>2. (last_keepalive_recv + Delay)' = since
      BY <2>1
    <3>3. SentSince(Far, last_keepalive_recv + Delay)' =
            {t \in 0..(MaxTime + Interval + Delay) :
              since < t /\ t + Interval <= due'[Far] /\ \E j \in Int : t = due'[Far] + Interval * j}
      BY <3>2 DEF SentSince
    <3> HIDE DEF since
    <3>4. {t \in 0..(MaxTime + Interval + Delay) :
             since < t /\ t + Interval <= due'[Far] /\ \E j \in Int : t = due'[Far] + Interval * j}
             \subseteq SentSince(Far, since) \cup {clock}
      BY <2>1, <3>1, SentOneMore DEF SentSince
    <3> QED
      BY <3>3, <3>4 DEF since
  <2>4. Missing' \subseteq Missing
    BY <2>1, <2>2, <2>3 DEF Missing, OnItsWay
  <2>5. Missing \in SUBSET SentSince(Far, last_keepalive_recv + Delay)
    BY DEF Missing
  <2>6. IsFiniteSet(Missing) /\ Cardinality(Missing) \in Nat
    BY <2>5, SentFinite
  <2>7. Cardinality(Missing') <= Cardinality(Missing) /\ Cardinality(Missing') \in Nat
    BY <2>4, <2>6, FS_Subset, FS_CardinalityType
  <2> QED
    BY <2>6, <2>7, KeepaliveTypes DEF Tally
<1>7. ASSUME NEW m \in BagToSet(net), m.at < clock, FarReceives(m) PROVE Tally'
  <2>1. /\ m.to = Far /\ UNCHANGED <<clock, kind, conn, due, losses>>
        /\ last_keepalive_recv' = last_keepalive_recv
    BY <1>7 DEF FarReceives
  <2>2. BagToSet(net) \ {m} \subseteq BagToSet(net')
    <3>1. IsABag(Take(net, m)) /\ BagToSet(net) \ {m} \subseteq BagToSet(Take(net, m))
      BY BagTake DEF Take, TypeOK
    <3>2. net' = Take(net, m) \/ net' = Put(Take(net, m), Us, m.ssrc)
      BY <1>7 DEF FarReceives
    <3> QED
      BY <3>1, <3>2, PutNet
  <2> QED
    BY <2>1, <2>2, KeepaliveTypes, TallyKept
<1>8. ASSUME NEW m \in BagToSet(net), Lose(m) PROVE Tally'
  <2>1. /\ losses' = losses + 1 /\ net' = Take(net, m) /\ UNCHANGED <<clock, kind, conn, due>>
        /\ last_keepalive_recv' = last_keepalive_recv
    BY <1>8 DEF Lose
  <2>2. BagToSet(net) \ {m} \subseteq BagToSet(net')
    BY <2>1, BagTake DEF Take, TypeOK
  <2>3. Missing' \subseteq Missing \cup {m.at}
    BY <2>1, <2>2 DEF Missing, OnItsWay, SentSince
  <2>4. Missing \in SUBSET SentSince(Far, last_keepalive_recv + Delay)
    BY DEF Missing
  <2>5. IsFiniteSet(Missing) /\ Cardinality(Missing) \in Nat
    BY <2>4, SentFinite
  <2>6. /\ IsFiniteSet(Missing \cup {m.at}) /\ Cardinality(Missing \cup {m.at}) \in Nat
        /\ Cardinality(Missing \cup {m.at}) <= Cardinality(Missing) + 1
    BY <2>5, FS_AddElement
  <2>7. /\ Cardinality(Missing') <= Cardinality(Missing \cup {m.at})
        /\ Cardinality(Missing') \in Nat
    BY <2>3, <2>6, FS_Subset, FS_CardinalityType
  <2> QED
    BY <2>1, <2>5, <2>6, <2>7, KeepaliveTypes DEF Tally
<1>9. CASE TimePasses
  BY <1>9, TallyKept DEF TimePasses
<1> QED
  BY <1>1, <1>2, <1>3, <1>4, <1>5, <1>6, <1>7, <1>8, <1>9 DEF Next

-----------------------------------------------------------------------------
(* A far end that reflects what it hears *)

\* The copies of a bag's datagrams, each on its own
CopiesOf(b) == {c \in BagToSet(b) \X Nat : c[2] >= 1 /\ c[2] <= b[c[1]]}

\* The datagram may be, or carry back, a keepalive that was sent by time x.
Carries(m, x) ==
    /\ m.ssrc = conn[Us]
    /\ \/ m.to = Far /\ m.at <= x
       \/ m.to = Us /\ m.at <= x + Delay

\* The copies that may carry one of the keepalives up to x.
Carried(b, x) == {c \in CopiesOf(b) : Carries(c[1], x)}

\* When keepalives were sent since one was heard, up to time x
Asked(x) == {t \in SentSince(Us, last_keepalive_recv) : t <= x}

\* Each of them is on its way, there or back, or was lost.
Reflections ==
    /\ IsFiniteSet(CopiesOf(net))
    /\ "reflects" \in kind /\ conn[Us] # Down /\ conn[Far] = conn[Us] =>
         \A x \in Nat : Cardinality(Asked(x)) <= losses + Cardinality(Carried(net, x))

\* A datagram put in a bag is one more copy.
LEMMA CopiesPut ==
    ASSUME NEW b, IsABag(b), NEW m
    PROVE  \E c : /\ c \notin CopiesOf(b) /\ c[1] = m
                  /\ CopiesOf(b (+) SetToBag({m})) = CopiesOf(b) \cup {c}
<1> DEFINE g == b (+) SetToBag({m})
           n == IF m \in DOMAIN b THEN b[m] ELSE 0
           c == <<m, n + 1>>
<1>1. DOMAIN g = DOMAIN b \cup {m} /\ g[m] = n + 1 /\ \A e \in DOMAIN b \ {m} : g[e] = b[e]
  <2>1. DOMAIN SetToBag({m}) = {m} /\ SetToBag({m})[m] = 1
    BY DEF SetToBag
  <2>2. \A e \in DOMAIN b : b[e] \in Nat
    BY DEF IsABag
  <2>3. /\ DOMAIN g = DOMAIN b \cup DOMAIN SetToBag({m})
        /\ \A e \in DOMAIN g : g[e] = (IF e \in DOMAIN b THEN b[e] ELSE 0)
                + (IF e \in DOMAIN SetToBag({m}) THEN SetToBag({m})[e] ELSE 0)
    BY DEF (+)
  <2> HIDE DEF g
  <2> QED
    BY <2>1, <2>2, <2>3
<1>2. n \in Nat /\ (m \in DOMAIN b => n = b[m]) /\ (m \notin DOMAIN b => n = 0)
  BY DEF IsABag
<1> HIDE DEF g, n
<1>3. c \notin CopiesOf(b) /\ c[1] = m
  BY <1>2 DEF CopiesOf, BagToSet
<1>4. ASSUME NEW e, NEW k \in Nat
      PROVE  <<e, k>> \in CopiesOf(g) <=> <<e, k>> \in CopiesOf(b) \cup {c}
  <2>1. <<e, k>> \in CopiesOf(g) <=> e \in DOMAIN g /\ k >= 1 /\ k <= g[e]
    BY DEF CopiesOf, BagToSet
  <2>2. <<e, k>> \in CopiesOf(b) <=> e \in DOMAIN b /\ k >= 1 /\ k <= b[e]
    BY DEF CopiesOf, BagToSet
  <2>3. <<e, k>> = c <=> e = m /\ k = n + 1
    OBVIOUS
  <2> HIDE DEF c
  <2>4. CASE e = m
    BY <1>1, <1>2, <2>1, <2>2, <2>3, <2>4
  <2>5. CASE e # m
    BY <1>1, <2>1, <2>2, <2>3, <2>5
  <2> QED
    BY <2>4, <2>5
<1>5. CopiesOf(g) = CopiesOf(b) \cup {c}
  <2>1. \A d \in CopiesOf(g) \cup CopiesOf(b) \cup {c} : \E e : \E k \in Nat : d = <<e, k>>
    BY <1>2 DEF CopiesOf
  <2> HIDE DEF c
  <2> QED
    BY <1>4, <2>1
<1> QED
  BY <1>3, <1>5 DEF g

\* A datagram taken out of a bag is one copy fewer.
LEMMA CopiesTake ==
    ASSUME NEW b, IsABag(b), NEW m \in BagToSet(b)
    PROVE  \E c : /\ c \in CopiesOf(b) /\ c[1] = m
                  /\ CopiesOf(b (-) SetToBag({m})) = CopiesOf(b) \ {c}
<1> DEFINE g == b (-) SetToBag({m})
           B == [e \in DOMAIN b |-> IF e \in DOMAIN SetToBag({m}) THEN b[e] - SetToBag({m})[e]
                                    ELSE b[e]]
           n == b[m]
           c == <<m, n>>
<1>1. m \in DOMAIN b /\ \A e \in DOMAIN b : b[e] \in Nat /\ b[e] > 0
  BY DEF IsABag, BagToSet
<1>2. DOMAIN B = DOMAIN b /\ B[m] = n - 1 /\ \A e \in DOMAIN b \ {m} : B[e] = b[e]
  <2>1. DOMAIN SetToBag({m}) = {m} /\ SetToBag({m})[m] = 1
    BY DEF SetToBag
  <2> QED
    BY <1>1, <2>1
<1>3. DOMAIN g = {e \in DOMAIN B : B[e] > 0} /\ \A e \in DOMAIN g : g[e] = B[e]
  BY DEF (-)
<1> HIDE DEF g, B
<1>4. c \in CopiesOf(b) /\ c[1] = m
  BY <1>1 DEF CopiesOf, BagToSet
<1>5. ASSUME NEW e, NEW k \in Nat
      PROVE  <<e, k>> \in CopiesOf(g) <=> <<e, k>> \in CopiesOf(b) /\ <<e, k>> # c
  <2>1. <<e, k>> \in CopiesOf(g) <=> e \in DOMAIN g /\ k >= 1 /\ k <= g[e]
    BY DEF CopiesOf, BagToSet
  <2>2. <<e, k>> \in CopiesOf(b) <=> e \in DOMAIN b /\ k >= 1 /\ k <= b[e]
    BY DEF CopiesOf, BagToSet
  <2>3. <<e, k>> = c <=> e = m /\ k = n
    OBVIOUS
  <2> HIDE DEF c
  <2>4. CASE e = m
    BY <1>1, <1>2, <1>3, <2>1, <2>2, <2>3, <2>4
  <2>5. CASE e # m
    BY <1>1, <1>2, <1>3, <2>1, <2>2, <2>3, <2>5
  <2> QED
    BY <2>4, <2>5
<1>6. CopiesOf(g) = CopiesOf(b) \ {c}
  <2>1. \A d \in CopiesOf(g) \cup CopiesOf(b) : \E e : \E k \in Nat : d = <<e, k>>
    BY DEF CopiesOf
  <2> HIDE DEF c
  <2> QED
    BY <1>5, <2>1
<1> QED
  BY <1>4, <1>6 DEF g

\* One copy more carries one keepalive more, or none.
LEMMA PutCarries ==
    ASSUME NEW b, IsABag(b), IsFiniteSet(CopiesOf(b)), NEW to, NEW s, NEW x
    PROVE  /\ IsFiniteSet(CopiesOf(Put(b, to, s)))
           /\ Cardinality(Carried(b, x)) \in Nat
           /\ Cardinality(Carried(Put(b, to, s), x)) =
                 Cardinality(Carried(b, x)) + (IF Carries(Now(to, s), x) THEN 1 ELSE 0)
<1> DEFINE m == Now(to, s)
<1>1. PICK c : c \notin CopiesOf(b) /\ c[1] = m /\ CopiesOf(Put(b, to, s)) = CopiesOf(b) \cup {c}
  BY CopiesPut DEF Put, Now
<1>2. IsFiniteSet(CopiesOf(Put(b, to, s)))
  BY <1>1, FS_AddElement
<1>3. IsFiniteSet(Carried(b, x)) /\ Cardinality(Carried(b, x)) \in Nat
  <2>1. Carried(b, x) \in SUBSET CopiesOf(b)
    BY DEF Carried
  <2> QED
    BY <2>1, FS_Subset, FS_CardinalityType
<1>4. c \notin Carried(b, x)
  BY <1>1 DEF Carried
<1>5. CASE Carries(m, x)
  <2>1. Carried(Put(b, to, s), x) = Carried(b, x) \cup {c}
    BY <1>1, <1>5 DEF Carried
  <2> QED
    BY <1>2, <1>3, <1>4, <1>5, <2>1, FS_AddElement
<1>6. CASE ~Carries(m, x)
  <2>1. Carried(Put(b, to, s), x) = Carried(b, x)
    BY <1>1, <1>6 DEF Carried
  <2> QED
    BY <1>2, <1>3, <1>6, <2>1
<1> QED
  BY <1>5, <1>6

\* Taking one datagram out takes away at most one that may carry x.
LEMMA TakeCarries ==
    ASSUME NEW b, IsABag(b), IsFiniteSet(CopiesOf(b)), NEW m \in BagToSet(b), NEW x
    PROVE  /\ IsFiniteSet(CopiesOf(Take(b, m)))
           /\ Cardinality(Carried(b, x)) \in Nat
           /\ Cardinality(Carried(Take(b, m), x)) =
                 Cardinality(Carried(b, x)) - (IF Carries(m, x) THEN 1 ELSE 0)
<1>1. PICK c : c \in CopiesOf(b) /\ c[1] = m /\ CopiesOf(Take(b, m)) = CopiesOf(b) \ {c}
  BY CopiesTake DEF Take
<1>2. IsFiniteSet(CopiesOf(Take(b, m)))
  BY <1>1, FS_RemoveElement
<1>3. IsFiniteSet(Carried(b, x)) /\ Cardinality(Carried(b, x)) \in Nat
  <2>1. Carried(b, x) \in SUBSET CopiesOf(b)
    BY DEF Carried
  <2> QED
    BY <2>1, FS_Subset, FS_CardinalityType
<1>4. CASE Carries(m, x)
  <2>1. Carried(Take(b, m), x) = Carried(b, x) \ {c} /\ c \in Carried(b, x)
    BY <1>1, <1>4 DEF Carried
  <2> QED
    BY <1>2, <1>3, <1>4, <2>1, FS_RemoveElement
<1>5. CASE ~Carries(m, x)
  <2>1. Carried(Take(b, m), x) = Carried(b, x)
    BY <1>1, <1>5 DEF Carried
  <2> QED
    BY <1>2, <1>3, <1>5, <2>1
<1> QED
  BY <1>4, <1>5

\* A link that is up at both ends stays so and keeps its timer: the count holds
\* where what is carried loses no more than is counted as lost.
LEMMA ReflectionsKept ==
    ASSUME ConstantsOK, TypeOK, Reflections, kind' = kind, conn' = conn, losses' \in Nat,
           last_keepalive_recv' = last_keepalive_recv, due'[Us] = due[Us],
           IsFiniteSet(CopiesOf(net')),
           \A x \in Nat : /\ Cardinality(Carried(net', x)) \in Nat
                          /\ Cardinality(Carried(net, x)) \in Nat
                          /\ "reflects" \in kind /\ conn[Us] # Down /\ conn[Far] = conn[Us] =>
                               losses + Cardinality(Carried(net, x))
                                 <= losses' + Cardinality(Carried(net', x))
    PROVE  Reflections'
<1> SUFFICES ASSUME "reflects" \in kind, conn[Us] # Down, conn[Far] = conn[Us], NEW x \in Nat
             PROVE  Cardinality(Asked(x))' <= losses' + Cardinality(Carried(net, x))'
  BY DEF Reflections
<1>1. Carried(net, x)' = Carried(net', x)
  BY DEF Carried, Carries
<1>2. Asked(x)' = Asked(x)
  BY DEF Asked, SentSince
<1>3. Cardinality(Asked(x)) <= losses + Cardinality(Carried(net, x))
  BY DEF Reflections
<1>4. Asked(x) \in SUBSET SentSince(Us, last_keepalive_recv)
  BY DEF Asked
<1>5. Cardinality(Asked(x)) \in Nat
  BY <1>4, SentFinite
<1> QED
  BY <1>1, <1>2, <1>3, <1>5, KeepaliveTypes

\* Nothing was asked for since a keepalive was heard.
LEMMA ReflectionsEmpty ==
    ASSUME ConstantsOK, IsFiniteSet(CopiesOf(net')), due'[Us] \in Nat,
           last_keepalive_recv' \in Nat, due'[Us] <= last_keepalive_recv' + Interval,
           losses' \in Nat
    PROVE  Reflections'
<1>1. SentSince(Us, last_keepalive_recv)' = {}
  BY DEF SentSince, ConstantsOK
<1> SUFFICES ASSUME NEW x \in Nat
             PROVE  Cardinality(Asked(x))' <= losses' + Cardinality(Carried(net, x))'
  BY DEF Reflections
<1>2. Asked(x)' = {}
  BY <1>1 DEF Asked
<1>3. Carried(net, x)' \in SUBSET CopiesOf(net')
  BY DEF Carried
<1>4. Cardinality(Carried(net, x)') \in Nat
  BY <1>3, FS_Subset, FS_CardinalityType
<1> QED
  BY <1>2, <1>4, FS_EmptySet

\* keepalive_cb asks once more, and a datagram carries it.
LEMMA ReflectionsAsked ==
    ASSUME ConstantsOK, BasicInv, Reflections, KeepaliveCb, ~Expired
    PROVE  Reflections'
<1> USE DEF BasicInv
<1> DEFINE since == last_keepalive_recv
<1>1. /\ kind' = kind /\ conn' = conn /\ losses' = losses /\ clock = due[Us]
      /\ last_keepalive_recv' = last_keepalive_recv /\ conn[Us] # Down
      /\ due' = [due EXCEPT ![Us] = clock + Interval] /\ net' = Put(net, Far, conn[Us])
  BY DEF KeepaliveCb
<1>2. due'[Us] = clock + Interval /\ due[Us] \in Nat /\ since \in Nat
  BY <1>1, KeepaliveTypes DEF TypeOK
<1>3. IsABag(net) /\ IsFiniteSet(CopiesOf(net))
  BY DEF TypeOK, Reflections
<1>4. SentSince(Us, last_keepalive_recv)' \subseteq SentSince(Us, last_keepalive_recv) \cup {clock}
  <2>1. SentSince(Us, last_keepalive_recv)' =
          {t \in 0..(MaxTime + Interval + Delay) :
            since < t /\ t + Interval <= due'[Us] /\ \E j \in Int : t = due'[Us] + Interval * j}
    BY <1>1 DEF SentSince
  <2> HIDE DEF since
  <2>2. {t \in 0..(MaxTime + Interval + Delay) :
           since < t /\ t + Interval <= due'[Us] /\ \E j \in Int : t = due'[Us] + Interval * j}
           \subseteq SentSince(Us, since) \cup {clock}
    BY <1>1, <1>2, SentOneMore DEF SentSince
  <2> QED
    BY <2>1, <2>2 DEF since
<1>5. IsFiniteSet(CopiesOf(net'))
  BY <1>1, <1>3, PutCarries
<1> SUFFICES ASSUME "reflects" \in kind, conn[Us] # Down, conn[Far] = conn[Us], NEW x \in Nat
             PROVE  Cardinality(Asked(x))' <= losses' + Cardinality(Carried(net, x))'
  BY <1>1, <1>5 DEF Reflections
<1> DEFINE p == Now(Far, conn[Us])
<1>6. Carried(net, x)' = Carried(net', x)
  BY <1>1 DEF Carried, Carries
<1>7. /\ Cardinality(Carried(net, x)) \in Nat
      /\ Cardinality(Carried(net', x)) =
            Cardinality(Carried(net, x)) + (IF Carries(p, x) THEN 1 ELSE 0)
  BY <1>1, <1>3, PutCarries
<1>8. Carries(p, x) <=> clock <= x
  <2>1. conn[Us] \in 1..MaxConns /\ clock \in 0..MaxTime
    BY <1>1, KeepaliveTypes DEF Down, TypeOK
  <2>2. p.to = Far /\ p.ssrc = conn[Us] /\ p.at = clock
    BY <2>1, NowTypes, KeepaliveTypes
  <2> HIDE DEF p
  <2> QED
    BY <2>2, KeepaliveTypes DEF Carries
<1>9. /\ Asked(x)' \subseteq Asked(x) \cup {clock}
      /\ ~(clock <= x) => Asked(x)' \subseteq Asked(x)
  BY <1>4 DEF Asked
<1>10. Asked(x) \in SUBSET SentSince(Us, last_keepalive_recv)
  BY DEF Asked
<1>11. IsFiniteSet(Asked(x)) /\ Cardinality(Asked(x)) \in Nat
  BY <1>10, SentFinite
<1>12. Cardinality(Asked(x)) <= losses + Cardinality(Carried(net, x)) /\ losses \in Nat
  BY KeepaliveTypes DEF Reflections
<1> HIDE DEF p, since
<1>13. CASE clock <= x
  <2>1. /\ IsFiniteSet(Asked(x) \cup {clock}) /\ Cardinality(Asked(x) \cup {clock}) \in Nat
        /\ Cardinality(Asked(x) \cup {clock}) <= Cardinality(Asked(x)) + 1
    BY <1>11, FS_AddElement
  <2>2. /\ Cardinality(Asked(x)') <= Cardinality(Asked(x) \cup {clock})
        /\ Cardinality(Asked(x)') \in Nat
    BY <1>9, <2>1, FS_Subset, FS_CardinalityType
  <2> QED
    BY <1>1, <1>6, <1>7, <1>8, <1>11, <1>12, <1>13, <2>1, <2>2
<1>14. CASE ~(clock <= x)
  <2>1. Cardinality(Asked(x)') <= Cardinality(Asked(x)) /\ Cardinality(Asked(x)') \in Nat
    BY <1>9, <1>11, <1>14, FS_Subset, FS_CardinalityType
  <2> QED
    BY <1>1, <1>6, <1>7, <1>8, <1>11, <1>12, <1>14, <2>1
<1> QED
  BY <1>13, <1>14

\* The far end reflects: what was carried to it is carried back.
LEMMA ReflectionsReturned ==
    ASSUME ConstantsOK, BasicInv, Reflections, NEW m \in BagToSet(net), FarReceives(m)
    PROVE  Reflections'
<1> USE DEF BasicInv
<1>1. /\ m.to = Far /\ kind' = kind /\ conn' = conn /\ losses' = losses
      /\ last_keepalive_recv' = last_keepalive_recv /\ due' = due
  BY DEF FarReceives
<1>2. IsABag(net) /\ IsFiniteSet(CopiesOf(net)) /\ IsABag(Take(net, m))
  BY TakeNet DEF TypeOK, Reflections
<1>3. CASE m.ssrc = conn[Far] /\ "reflects" \in kind
  <2> DEFINE p == Now(Us, m.ssrc)
             b == Take(net, m)
  <2>1. net' = Put(b, Us, m.ssrc)
    BY <1>3 DEF FarReceives
  <2>2. p.to = Us /\ p.ssrc = m.ssrc /\ p.at = clock
    <3>1. m.ssrc \in 1..MaxConns /\ clock \in 0..MaxTime
      BY KeepaliveTypes
    <3> QED
      BY <3>1, NowTypes, KeepaliveTypes
  <2>3. IsFiniteSet(CopiesOf(b)) /\ IsFiniteSet(CopiesOf(net'))
    BY <1>2, <2>1, TakeCarries, PutCarries
  <2>4. ASSUME NEW x \in Nat
        PROVE  /\ Cardinality(Carried(net, x)) \in Nat /\ Cardinality(Carried(net', x)) \in Nat
               /\ Cardinality(Carried(net, x)) <= Cardinality(Carried(net', x))
    <3>1. /\ Cardinality(Carried(net, x)) \in Nat
          /\ Cardinality(Carried(b, x)) =
                Cardinality(Carried(net, x)) - (IF Carries(m, x) THEN 1 ELSE 0)
      BY <1>2, TakeCarries
    <3>2. /\ Cardinality(Carried(b, x)) \in Nat
          /\ Cardinality(Carried(net', x)) =
                Cardinality(Carried(b, x)) + (IF Carries(p, x) THEN 1 ELSE 0)
      BY <1>2, <2>1, <2>3, PutCarries
    <3> HIDE DEF p, b
    <3>3. Carries(m, x) => Carries(p, x)
      BY <1>1, <2>2, KeepaliveTypes DEF Carries, Flights
    <3> QED
      BY <3>1, <3>2, <3>3
  <2> QED
    BY <1>1, <2>3, <2>4, KeepaliveTypes, ReflectionsKept
<1>4. CASE ~(m.ssrc = conn[Far] /\ "reflects" \in kind)
  <2>1. net' = Take(net, m)
    BY <1>4 DEF FarReceives
  <2>2. IsFiniteSet(CopiesOf(net'))
    BY <1>2, <2>1, TakeCarries
  <2>3. ASSUME NEW x \in Nat
        PROVE  /\ Cardinality(Carried(net, x)) \in Nat /\ Cardinality(Carried(net', x)) \in Nat
               /\ "reflects" \in kind /\ conn[Us] # Down /\ conn[Far] = conn[Us] =>
                    losses + Cardinality(Carried(net, x))
                      <= losses' + Cardinality(Carried(net', x))
    <3>1. /\ Cardinality(Carried(net, x)) \in Nat
          /\ Cardinality(Carried(net', x)) =
                Cardinality(Carried(net, x)) - (IF Carries(m, x) THEN 1 ELSE 0)
      BY <1>2, <2>1, TakeCarries
    <3>2. "reflects" \in kind /\ conn[Far] = conn[Us] => ~Carries(m, x)
      BY <1>4 DEF Carries
    <3>3. Cardinality(Carried(net', x)) \in Nat
      <4>1. Carried(net', x) \in SUBSET CopiesOf(net')
        BY DEF Carried
      <4> QED
        BY <2>2, <4>1, FS_Subset, FS_CardinalityType
    <3> QED
      BY <1>1, <3>1, <3>2, <3>3, KeepaliveTypes
  <2> QED
    BY <1>1, <2>2, <2>3, KeepaliveTypes, ReflectionsKept
<1> QED
  BY <1>3, <1>4

\* The count for a far end that reflects: every keepalive asked is lost or on its way.
LEMMA ReflectionsStep ==
    ASSUME ConstantsOK, BasicInv, Reflections, BasicInv', Next
    PROVE  Reflections'
<1> USE DEF BasicInv
<1>0. IsABag(net) /\ IsFiniteSet(CopiesOf(net))
  BY DEF TypeOK, Reflections
<1>1. CASE LinkUp
  <2>1. PICK d \in 0..Delay : due' = [e \in Ends |-> clock + Interval + (IF e = Far THEN d ELSE 0)]
    BY <1>1 DEF LinkUp
  <2>2. last_keepalive_recv' = clock /\ losses' = losses /\ net' = net
    BY <1>1 DEF LinkUp, ArmWatchdog
  <2>3. due'[Us] = clock + Interval
    BY <2>1, KeepaliveTypes
  <2> QED
    BY <1>0, <2>2, <2>3, KeepaliveTypes, ReflectionsEmpty
<1>2. CASE FarVanishes
  <2>1. net' = net
    BY <1>2 DEF FarVanishes
  <2>2. conn'[Far] = Down
    BY <1>2, KeepaliveTypes DEF FarVanishes, Leave, TypeOK
  <2> QED
    BY <1>0, <2>1, <2>2 DEF Reflections
<1>3. CASE CloseSeen
  <2>1. net' = net
    BY <1>3 DEF CloseSeen
  <2>2. conn'[Us] = Down
    BY <1>3, KeepaliveTypes DEF CloseSeen, Leave, TypeOK
  <2> QED
    BY <1>0, <2>1, <2>2 DEF Reflections
<1>4. CASE KeepaliveCb
  <2>1. CASE Expired
    <3>1. IsFiniteSet(CopiesOf(net'))
      BY <1>0, <1>4, PutCarries DEF KeepaliveCb
    <3>2. conn'[Us] = Down
      BY <1>4, <2>1, KeepaliveTypes DEF KeepaliveCb, Leave, TypeOK
    <3> QED
      BY <3>1, <3>2 DEF Reflections
  <2> QED
    BY <1>4, <2>1, ReflectionsAsked
<1>5. ASSUME NEW m \in BagToSet(net), m.at < clock, KeepaliveArrives(m) PROVE Reflections'
  <2>1. UNCHANGED <<clock, kind, conn, due, losses>> /\ m.to = Us
    BY <1>5 DEF KeepaliveArrives
  <2>2. IsABag(Take(net, m)) /\ IsFiniteSet(CopiesOf(Take(net, m)))
    BY <1>0, TakeNet, TakeCarries
  <2>3. CASE Known(m)
    <3>1. last_keepalive_recv' = clock /\ net' = Put(Take(net, m), Far, m.ssrc)
      BY <1>5, <2>3 DEF KeepaliveArrives
    <3>2. conn[Us] # Down /\ due[Us] <= clock + Interval
      BY <2>3, KeepaliveTypes DEF Known, Timers, Down
    <3>3. IsFiniteSet(CopiesOf(net'))
      BY <2>2, <3>1, PutCarries
    <3> QED
      BY <2>1, <3>1, <3>2, <3>3, KeepaliveTypes, ReflectionsEmpty
  <2>4. CASE ~Known(m)
    <3>1. last_keepalive_recv' = last_keepalive_recv /\ net' = Take(net, m)
      BY <1>5, <2>4 DEF KeepaliveArrives
    <3>2. ASSUME NEW x \in Nat
          PROVE  /\ Cardinality(Carried(net, x)) \in Nat
                 /\ Cardinality(Carried(net', x)) = Cardinality(Carried(net, x))
      <4>1. ~Carries(m, x)
        BY <2>4 DEF Known, Carries
      <4> QED
        BY <1>0, <3>1, <4>1, TakeCarries
    <3> QED
      BY <2>1, <2>2, <3>1, <3>2, KeepaliveTypes, ReflectionsKept
  <2> QED
    BY <2>3, <2>4
<1>6. CASE FarOriginates
  <2>1. /\ UNCHANGED <<clock, kind, conn, losses>> /\ last_keepalive_recv' = last_keepalive_recv
        /\ due' = [due EXCEPT ![Far] = clock + Interval]
    BY <1>6 DEF FarOriginates
  <2>2. due'[Us] = due[Us]
    BY <2>1, KeepaliveTypes DEF TypeOK
  <2>3. net' = Put(net, Us, conn[Far]) \/ net' = net
    BY <1>6 DEF FarOriginates
  <2>4. IsFiniteSet(CopiesOf(net'))
    BY <1>0, <2>3, PutCarries
  <2>5. ASSUME NEW x \in Nat
        PROVE  /\ Cardinality(Carried(net, x)) \in Nat /\ Cardinality(Carried(net', x)) \in Nat
               /\ Cardinality(Carried(net, x)) <= Cardinality(Carried(net', x))
    BY <1>0, <2>3, PutCarries
  <2> QED
    BY <2>1, <2>2, <2>4, <2>5, KeepaliveTypes, ReflectionsKept
<1>7. ASSUME NEW m \in BagToSet(net), Lose(m) PROVE Reflections'
  <2>1. /\ losses' = losses + 1 /\ net' = Take(net, m) /\ UNCHANGED <<clock, kind, conn, due>>
        /\ last_keepalive_recv' = last_keepalive_recv
    BY <1>7 DEF Lose
  <2>2. IsFiniteSet(CopiesOf(net'))
    BY <1>0, <2>1, TakeCarries
  <2>3. ASSUME NEW x \in Nat
        PROVE  /\ Cardinality(Carried(net, x)) \in Nat /\ Cardinality(Carried(net', x)) \in Nat
               /\ losses + Cardinality(Carried(net, x)) <= losses' + Cardinality(Carried(net', x))
    <3>1. /\ Cardinality(Carried(net, x)) \in Nat
          /\ Cardinality(Carried(net', x)) =
                Cardinality(Carried(net, x)) - (IF Carries(m, x) THEN 1 ELSE 0)
      BY <1>0, <2>1, TakeCarries
    <3>2. Cardinality(Carried(net', x)) \in Nat
      <4>1. Carried(net', x) \in SUBSET CopiesOf(net')
        BY DEF Carried
      <4> QED
        BY <2>2, <4>1, FS_Subset, FS_CardinalityType
    <3> QED
      BY <2>1, <3>1, <3>2, KeepaliveTypes
  <2> QED
    BY <2>1, <2>2, <2>3, KeepaliveTypes, ReflectionsKept
<1>8. CASE TimePasses
  <2>1. \A x \in Nat : Cardinality(Carried(net, x)) \in Nat
    BY <1>0, PutCarries
  <2>2. /\ UNCHANGED <<kind, conn, due, net, losses>> /\ last_keepalive_recv' = last_keepalive_recv
    BY <1>8 DEF TimePasses
  <2> QED
    BY <1>0, <2>1, <2>2, KeepaliveTypes, ReflectionsKept
<1> QED
  BY <1>1, <1>2, <1>3, <1>4, <1>5, <1>6, <1>7, <1>8, ReflectionsReturned DEF Next

\* A far end that only reflects is heard as well.
LEMMA ReflectionsShow ==
    ASSUME ConstantsOK, BasicInv, Reflections, conn[Us] # Down, conn[Far] = conn[Us],
           "reflects" \in kind, Expired
    PROVE  (losses + 1) * Interval + 2 * Delay > Timeout
<1> USE DEF BasicInv
<1> DEFINE lo == last_keepalive_recv
           w == (losses + 1) * Interval
           x == lo + w
<1>1. w \in Nat
  BY KeepaliveTypes, SMT
<1> SUFFICES ASSUME w + 2 * Delay <= Timeout PROVE FALSE
  BY <1>1, KeepaliveTypes
<1>2. clock - lo > w + 2 * Delay
  BY <1>1, KeepaliveTypes DEF Expired
<1>3. lo \in Nat /\ due[Us] \in Int /\ losses \in Nat /\ Interval \in Nat \ {0} /\ x \in Nat
  BY <1>1, KeepaliveTypes
<1>4. Carried(net, x) = {}
  <2>1. ASSUME NEW m \in BagToSet(net) PROVE ~Carries(m, x)
    BY <1>1, <1>2, <1>3, KeepaliveTypes DEF Carries, Flights
  <2>2. \A c \in CopiesOf(net) : c[1] \in BagToSet(net)
    BY DEF CopiesOf
  <2> HIDE DEF x
  <2> QED
    BY <2>1, <2>2 DEF Carried
<1>5. IsFiniteSet(Asked(x)) /\ Cardinality(Asked(x)) \in Nat
  <2>1. Asked(x) \in SUBSET SentSince(Us, last_keepalive_recv)
    BY DEF Asked
  <2> HIDE DEF x
  <2> QED
    BY <2>1, SentFinite
<1>6. Cardinality(Asked(x)) <= losses
  <2> HIDE DEF x
  <2>1. Cardinality(Asked(x)) <= losses + Cardinality(Carried(net, x))
    BY <1>3 DEF Reflections
  <2> QED
    BY <1>3, <1>4, <2>1, FS_EmptySet
<1>7. ASSUME NEW t \in Nat, lo < t, t <= lo + w, NEW j \in Int, t = due[Us] + Interval * j
      PROVE  t \in Asked(x)
  <2>1. t < clock /\ clock <= due[Us]
    BY <1>1, <1>2, <1>3, <1>7, KeepaliveTypes DEF Timers
  <2>2. t + Interval <= due[Us]
    <3>1. Interval * j \in Int
      BY <1>3, SMT
    <3>2. Interval * j < 0
      BY <1>3, <1>7, <2>1, <3>1, KeepaliveTypes
    <3>3. -(j + 1) \in Nat
      <4>1. CASE j >= 0
        <5>1. Interval * j >= 0
          BY <1>3, <4>1, SMT
        <5> QED
          BY <3>1, <3>2, <5>1
      <4> QED
        BY <4>1
    <3>4. Interval * j = -Interval - Interval * (-(j + 1)) /\ Interval * (-(j + 1)) \in Nat
      BY <1>3, <3>3, SMT
    <3> QED
      BY <1>3, <1>7, <3>1, <3>4
  <2>3. t \in 0..(MaxTime + Interval + Delay)
    BY <2>1, KeepaliveTypes
  <2> QED
    BY <1>7, <2>2, <2>3 DEF Asked, SentSince
<1>8. losses + 1 <= Cardinality(Asked(x))
  <2>1. \A t \in Nat : /\ lo < t /\ t <= lo + (losses + 1) * Interval
                       /\ \E j \in Int : t = due[Us] + Interval * j
                       => t \in Asked(x)
    BY <1>7
  <2> HIDE DEF lo, w, x
  <2> QED
    BY <1>3, <1>5, <2>1, Windows
<1> HIDE DEF x
<1> QED
  BY <1>3, <1>5, <1>6, <1>8

-----------------------------------------------------------------------------
IInv == BasicInv /\ Tally /\ Reflections

\* The inductive invariant holds at first.
LEMMA IInvInit == ASSUME ConstantsOK, Init PROVE IInv
<1>1. BasicInv
  BY BasicInit
<1>2. conn[Us] = Down
  BY DEF Init, Us, Ends
<1>3. CopiesOf(net) = {}
  BY DEF Init, CopiesOf, EmptyBag, SetToBag, BagToSet
<1> QED
  BY <1>1, <1>2, <1>3, FS_EmptySet DEF IInv, Tally, Reflections

\* Every step keeps the inductive invariant.
LEMMA IInvStep == ASSUME ConstantsOK, IInv, [Next]_vars PROVE IInv'
<1>1. BasicInv'
  BY BasicStep DEF IInv
<1>2. CASE UNCHANGED vars
  <2>1. Tally'
    BY <1>2 DEF vars, IInv, Tally, Missing, OnItsWay, SentSince
  <2>2. Reflections'
    BY <1>2 DEF vars, IInv, Reflections, Asked, Carried, Carries, SentSince, CopiesOf
  <2> QED
    BY <1>1, <2>1, <2>2 DEF IInv
<1>3. CASE Next
  BY <1>1, <1>3, TallyStep, ReflectionsStep DEF IInv
<1> QED
  BY <1>2, <1>3

\* A link is torn down by this end only where its far end is gone or its
\* watchdog has a reason.
LEMMA AlarmStep == ASSUME ConstantsOK, IInv, [Next]_vars PROVE AlarmMeant
<1> SUFFICES ASSUME conn[Us] # Down, conn'[Us] = Down, conn[Far] = conn[Us], kind # {}
             PROVE  (losses + 1) * Interval + 2 * Delay > Timeout
  BY DEF AlarmMeant
<1>1. conn \in [Ends -> 0..MaxConns] /\ Us \in Ends /\ Far \in Ends /\ Us # Far
  BY KeepaliveTypes DEF IInv, BasicInv, TypeOK
<1>2. Expired
  <2>1. ~LinkUp /\ ~CloseSeen
    BY DEF LinkUp, CloseSeen
  <2>2. ~FarVanishes
    BY <1>1 DEF FarVanishes, Leave
  <2>3. conn' # conn
    OBVIOUS
  <2>4. ~FarOriginates /\ ~TimePasses /\ ~UNCHANGED vars
    BY <2>3 DEF FarOriginates, TimePasses, vars
  <2>5. \A m \in BagToSet(net) : ~(KeepaliveArrives(m) \/ FarReceives(m) \/ Lose(m))
    BY <2>3 DEF KeepaliveArrives, FarReceives, Lose
  <2>6. KeepaliveCb
    BY <2>1, <2>2, <2>4, <2>5 DEF Next
  <2> QED
    BY <2>3, <2>6 DEF KeepaliveCb
<1>3. "originates" \in kind \/ "reflects" \in kind
  BY DEF ConstantsOK, IInv, BasicInv, TypeOK
<1> QED
  BY <1>2, <1>3, TallyShows, ReflectionsShow DEF IInv

\* The invariant holds in every state of every behaviour.
THEOREM Invariance == ASSUME ConstantsOK PROVE Spec => []IInv
  BY IInvInit, IInvStep, PTL DEF Spec

\* Reflections end with the connection (on_voice_readable).
THEOREM EchoesStop == ASSUME ConstantsOK PROVE Spec => [](TypeOK /\ EchoesEnd)
<1>1. IInv => TypeOK /\ EchoesEnd
  BY DEF IInv, BasicInv
<1> QED
  BY <1>1, Invariance, PTL

\* keepalive_cb tears no link down whose far end is there, unless the losses and
\* one exchange take longer than the timeout, and leaves none up for long whose
\* far end is gone.
THEOREM WatchdogRight ==
    ASSUME ConstantsOK PROVE Spec => [][AlarmMeant /\ DeadNoticed']_vars
<1>1. IInv /\ [Next]_vars => AlarmMeant
  BY AlarmStep
<1>2. IInv => DeadNoticed
  BY BasicShows DEF IInv
<1> QED
  BY <1>1, <1>2, Invariance, PTL DEF Spec
=============================================================================
