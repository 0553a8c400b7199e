----------------------------- MODULE Keepalive ------------------------------
(***************************************************************************)
(* The supervision of one CC-CC link over time: keepalive_cb sends a       *)
(* keepalive on every interval and tears the link down when none has been  *)
(* heard for cc_link_timeout; on_voice_readable notes and reflects each    *)
(* keepalive that carries the sync source of a connection.                 *)
(*                                                                         *)
(* The far end is external.  It speaks the same protocol, whose two rules  *)
(* (originate, reflect) are SHOULDs: it follows one of them or both.  It   *)
(* may vanish without a word.  Datagrams take from 1 to Delay units of     *)
(* time and up to MaxLosses of them are lost.                              *)
(***************************************************************************)
EXTENDS Integers, Bags

CONSTANTS
    Interval,           \* cc_keepalive_interval
    Timeout,            \* cc_link_timeout
    Delay,              \* the longest flight of a datagram, and of the Answer
    Kinds,              \* what far ends do: subsets of {"originates", "reflects"}
    MaxLosses,          \* bound: datagrams lost
    MaxConns,           \* bound: connections made, each with its sync source
    MaxTime             \* bound: when the clock stops

ConstantsOK ==
    /\ {Interval, Timeout, Delay} \subseteq Nat \ {0}
    /\ {MaxLosses, MaxConns, MaxTime} \subseteq Nat
    /\ Kinds \subseteq SUBSET {"originates", "reflects"}

Us == "us"
Far == "far"
Ends == {Us, Far}
Down == 0               \* no sync source: has_sync_source = 0

VARIABLES
    clock,              \* ev_now
    kind,               \* what the far end does
    conn,               \* the sync source of each end's connection
    due,                \* when each end's keepalive timer expires
    last_keepalive_recv,
    left,               \* when an end last left a connection
    conns,              \* connections made so far
    net,                \* bag of datagrams on their way
    losses

vars == <<clock, kind, conn, due, last_keepalive_recv, left, conns, net, losses>>

Datagrams == [to : Ends, ssrc : 1..MaxConns, at : 0..MaxTime]

TypeOK ==
    /\ clock \in 0..MaxTime /\ kind \in Kinds
    /\ conn \in [Ends -> 0..MaxConns]
    /\ due \in [Ends -> 0..(MaxTime + Interval + Delay)]
    /\ last_keepalive_recv \in 0..MaxTime
    /\ left \in [Ends -> 0..MaxTime]
    /\ conns \in 0..MaxConns
    /\ IsABag(net) /\ BagToSet(net) \subseteq Datagrams
    /\ losses \in 0..MaxLosses

Init ==
    /\ clock = 0 /\ kind \in Kinds
    /\ conn = [e \in Ends |-> Down] /\ due = [e \in Ends |-> 0]
    /\ last_keepalive_recv = 0
    /\ left = [e \in Ends |-> 0]
    /\ conns = 0 /\ net = EmptyBag /\ losses = 0

-----------------------------------------------------------------------------
Put(b, to, s) == b (+) SetToBag({[to |-> to, ssrc |-> s, at |-> clock]})
Take(b, m) == b (-) SetToBag({m})

\* Fault: the time of the last keepalive is left as the old connection had it.
ArmTimerOnly == UNCHANGED last_keepalive_recv

\* arm_keepalive, the watchdog's half
ArmWatchdog == last_keepalive_recv' = clock

\* A handshake completes at both ends, one of them up to Delay later: the link
\* is UP with a sync source of its own.
LinkUp ==
    /\ conn[Us] = Down /\ conns < MaxConns
    /\ conns' = conns + 1
    /\ conn' = [e \in Ends |-> conns + 1]
    /\ ArmWatchdog
    /\ \E d \in 0..Delay :
         due' = [e \in Ends |-> clock + Interval + (IF e = Far THEN d ELSE 0)]
    /\ UNCHANGED <<clock, kind, left, net, losses>>

\* teardown_link_connection: has_sync_source = 0
Leave(e) == conn' = [conn EXCEPT ![e] = Down] /\ left' = [left EXCEPT ![e] = clock]

\* The far end vanishes; its connection is gone and no packet says so.
FarVanishes ==
    /\ conn[Far] # Down /\ Leave(Far)
    /\ UNCHANGED <<clock, kind, due, last_keepalive_recv, conns, net, losses>>

\* on_link_tcp_readable, if the far end's close does arrive: teardown
CloseSeen ==
    /\ conn[Us] # Down /\ conn[Far] = Down /\ Leave(Us)
    /\ UNCHANGED <<clock, kind, due, last_keepalive_recv, conns, net, losses>>

\* age > cc_link_timeout
Expired == clock - last_keepalive_recv > Timeout

\* keepalive_cb
KeepaliveCb ==
    /\ conn[Us] # Down /\ clock = due[Us]
    /\ net' = Put(net, Far, conn[Us])
    /\ IF Expired THEN Leave(Us) /\ UNCHANGED due
       ELSE due' = [due EXCEPT ![Us] = clock + Interval] /\ UNCHANGED <<conn, left>>
    /\ UNCHANGED <<clock, kind, last_keepalive_recv, conns, losses>>

\* Fault: the sync source of a link that is down still matches.
KnownOnce(m) == m.ssrc <= conns

\* find_link_by_ssrc; the source address is the link's
Known(m) == m.ssrc = conn[Us]

\* on_voice_readable
KeepaliveArrives(m) ==
    /\ m.to = Us
    /\ IF Known(m)
       THEN last_keepalive_recv' = clock /\ net' = Put(Take(net, m), Far, m.ssrc)
       ELSE net' = Take(net, m) /\ UNCHANGED last_keepalive_recv
    /\ UNCHANGED <<clock, kind, conn, due, left, conns, losses>>

\* The far end's two rules
FarOriginates ==
    /\ conn[Far] # Down /\ clock = due[Far]
    /\ net' = IF "originates" \in kind THEN Put(net, Us, conn[Far]) ELSE net
    /\ due' = [due EXCEPT ![Far] = clock + Interval]
    /\ UNCHANGED <<clock, kind, conn, last_keepalive_recv, left, conns, losses>>

FarReceives(m) ==
    /\ m.to = Far
    /\ net' = IF m.ssrc = conn[Far] /\ "reflects" \in kind
              THEN Put(Take(net, m), Us, m.ssrc) ELSE Take(net, m)
    /\ UNCHANGED <<clock, kind, conn, due, last_keepalive_recv, left, conns, losses>>

Lose(m) ==
    /\ losses < MaxLosses
    /\ losses' = losses + 1 /\ net' = Take(net, m)
    /\ UNCHANGED <<clock, kind, conn, due, last_keepalive_recv, left, conns>>

TimePasses ==
    /\ clock < MaxTime
    /\ \A e \in Ends : conn[e] # Down => clock < due[e]
    /\ \A m \in BagToSet(net) : clock < m.at + Delay
    /\ clock' = clock + 1
    /\ UNCHANGED <<kind, conn, due, last_keepalive_recv, left, conns, net, losses>>

Next ==
    \/ LinkUp \/ FarVanishes \/ CloseSeen
    \/ KeepaliveCb \/ FarOriginates \/ TimePasses
    \/ \E m \in BagToSet(net) :
         m.at < clock /\ (KeepaliveArrives(m) \/ FarReceives(m) \/ Lose(m))

Spec == Init /\ [][Next]_vars

-----------------------------------------------------------------------------
(* Properties *)

\* A link whose far end is there is not declared dead as long as the timeout
\* leaves room for the losses and one exchange: by its own keepalives or by
\* reflections alone, the far end is heard.  cc_link_timeout "should be a few
\* multiples of cc_keepalive_interval": this is how many it must be, and
\* keepalive_cb needs no more.
AlarmMeant ==
    /\ conn[Us] # Down /\ conn'[Us] = Down
    /\ conn[Far] = conn[Us]
    /\ kind # {}
    => (losses + 1) * Interval + 2 * Delay > Timeout

NoFalseAlarm == [][AlarmMeant]_vars

\* A far end that is gone is noticed: a link outlives it by at most the flight
\* of its last datagram, the timeout and the interval in which keepalive_cb
\* asks, however its reflected packets still travel.
DeadNoticed ==
    conn[Us] # Down /\ conn[Far] # conn[Us]
        => clock - left[Far] <= Delay + Timeout + Interval

\* Keepalives bounce between two ends that both reflect, but only as long as
\* the connection lasts: on_voice_readable sends nothing for a sync source
\* that this end has left, so nothing is on its way for long after.
EchoesEnd ==
    \A m \in BagToSet(net) : m.to = Far /\ m.ssrc # conn[Us] => m.at <= left[Us]
=============================================================================
