------------------------------ MODULE RtpClock ------------------------------
(***************************************************************************)
(* The sequence numbers and timestamps that handle_obp_voice_burst gives   *)
(* to the packets of a call from the OpenBridge side.  Both come from the  *)
(* time since the VOICE_HEAD, rounded to slots of 60 ms, so what the far   *)
(* end sees depends on how the network delays the head and the bursts.     *)
(*                                                                         *)
(* The source sends its head, bursts and terminator one slot apart; each   *)
(* is lost or takes up to Jitter to arrive, in any order.                  *)
(***************************************************************************)
EXTENDS Integers, FiniteSets

CONSTANTS
    Slot,               \* CCCC_SLOT_MS in units of time
    Jitter,             \* the longest delay, in the same units
    SeqMod, TsMod,      \* 2^16 and 2^32
    Step,               \* CCCC_RTP_TS_STEP
    Idle,               \* CALL_IDLE_TIMEOUT_S and a tick, in units of time
    Bursts,             \* bound: the bursts of the call
    NoCall, NoPacket

CallStates ==
    [start : Nat, last_activity : Nat, cc_sent_first : BOOLEAN, cc_seq : Nat]

\* A silence that the call survives is shorter than a round of the sequence
\* number (6 s against 65 minutes).
ConstantsOK ==
    /\ Slot \in Nat \ {0} /\ Jitter \in Nat
    /\ SeqMod \in Nat \ {0} /\ Step \in Nat \ {0}
    /\ TsMod \in Nat /\ Step * SeqMod <= TsMod
    /\ Idle \in Nat /\ Idle + Slot < Slot * SeqMod
    /\ Bursts \in Nat
    /\ NoCall \notin CallStates

VARIABLES
    clock,              \* ev_now, and the source's clock
    next,               \* what the source sends next: 0 the head, then bursts
    net,                \* what is on its way, with the time it left
    call,               \* link_runtime.call
    out,                \* the call's first RTP packet, its last one, the one before
    sent,               \* ... how many, and of which bursts
    total               \* the total of the B-off

vars == <<clock, next, net, call, out, sent, total>>

Messages == [n : 0..(Bursts + 1), at : Nat]
Packets == [slot : Nat, seq : 0..(SeqMod - 1), ts : 0..(TsMod - 1), marker : BOOLEAN, n : Nat]

TypeOK ==
    /\ clock \in Nat /\ next \in 0..(Bursts + 2)
    /\ net \subseteq Messages
    /\ call \in CallStates \cup {NoCall}
    /\ \A k \in {"first", "prev", "last"} : out[k] \in Packets \cup {NoPacket}
    /\ sent \subseteq 1..Bursts
    /\ total \in Nat

Init ==
    /\ clock = 0 /\ next = 0 /\ net = {}
    /\ call = NoCall
    /\ out = [k \in {"first", "prev", "last"} |-> NoPacket]
    /\ sent = {} /\ total = 0

-----------------------------------------------------------------------------
(* The source and the network *)

Due == next <= Bursts + 1 /\ clock = next * Slot

Send ==
    /\ Due
    /\ net' = net \cup {[n |-> next, at |-> clock]}
    /\ next' = next + 1
    /\ UNCHANGED <<clock, call, out, sent, total>>

Lose(m) == net' = net \ {m} /\ UNCHANGED <<clock, next, call, out, sent, total>>

TimePasses ==
    /\ ~Due
    /\ \A m \in net : clock < m.at + Jitter
    /\ next <= Bursts + 1 \/ net # {}
    /\ call # NoCall => clock < call.last_activity + Idle
    /\ clock' = clock + 1
    /\ UNCHANGED <<next, net, call, out, sent, total>>

-----------------------------------------------------------------------------
(* The translator *)

\* (int)(t / CCCC_SLOT_MS + 0.5)
SlotIndex(t) == (2 * t + Slot) \div (2 * Slot)

\* Fault: the timestamp is computed from the 16 bits of the sequence number.
TimestampOfSeq(slot) == (Step * (slot % SeqMod)) % TsMod

Timestamp(slot) == (Step * slot) % TsMod

\* handle_obp_voice_head
Head(m) ==
    /\ m.n = 0
    /\ call' = [start |-> clock, last_activity |-> clock, cc_sent_first |-> FALSE, cc_seq |-> 0]
    /\ UNCHANGED <<out, sent, total>>

\* handle_obp_voice_burst
Burst(m) ==
    /\ m.n \in 1..Bursts
    /\ IF call = NoCall THEN UNCHANGED <<call, out, sent>>
       ELSE LET slot == SlotIndex(clock - call.start)
                packet == [slot |-> slot, seq |-> slot % SeqMod, ts |-> Timestamp(slot),
                           marker |-> ~call.cc_sent_first, n |-> m.n]
            IN  /\ call' = [call EXCEPT !.last_activity = clock,
                                        !.cc_sent_first = TRUE, !.cc_seq = slot]
                /\ out' = [first |-> IF packet.marker THEN packet ELSE out.first,
                           prev |-> out.last, last |-> packet]
                /\ sent' = sent \cup {m.n}
    /\ UNCHANGED total

Total(c) == IF c.cc_sent_first THEN c.cc_seq + 1 ELSE 0

\* handle_obp_voice_term, end_obp_origin_call
Term(m) ==
    /\ m.n = Bursts + 1
    /\ call' = NoCall
    /\ total' = IF call = NoCall THEN total ELSE Total(call)
    /\ UNCHANGED <<out, sent>>

\* translator_tick
IdleTimeout ==
    /\ call # NoCall
    /\ clock = call.last_activity + Idle
    /\ call' = NoCall
    /\ total' = Total(call)
    /\ UNCHANGED <<clock, next, net, out, sent>>

Arrive(m) ==
    /\ net' = net \ {m}
    /\ Head(m) \/ Burst(m) \/ Term(m)
    /\ UNCHANGED <<clock, next>>

Next == Send \/ TimePasses \/ IdleTimeout \/ \E m \in net : Lose(m) \/ Arrive(m)

Spec == Init /\ [][Next]_vars

-----------------------------------------------------------------------------
(* Properties *)

\* The comment in handle_obp_voice_burst: a gap in delivery is a gap in both
\* fields, and the same one.  For two packets in a row the difference of the
\* timestamps is Step times that of the sequence numbers, also where one of
\* the two has wrapped and however bursts were lost, late or out of order.
GapsAgree ==
    out.prev # NoPacket =>
        LET gap == (out.last.seq - out.prev.seq) % SeqMod
        IN  (out.last.ts - out.prev.ts) % TsMod = (Step * gap) % TsMod

\* A packet is as many numbers from the call's first packet as its burst is
\* bursts from the first one, give or take what the delays explain.  As long as
\* delays differ by less than half a slot it is exactly that many: no number is
\* given twice, and every burst that is lost leaves a gap of its own.
PlaceFromFirst ==
    out.last # NoPacket =>
        LET off == (out.last.slot - out.first.slot) - (out.last.n - out.first.n)
        IN  /\ \A d \in {off, -off} : Slot * d < Jitter + Slot
            /\ 2 * Jitter < Slot => off = 0

\* With delays below half a slot the total of the B-off is no less than the
\* number of bursts that were sent on, also when the call has ended by idleness
\* or some bursts were lost (end_obp_origin_call).
TotalCounts ==
    2 * Jitter < Slot /\ call = NoCall => Cardinality(sent) <= total

\* What the protocol says of a call whose bursts have all come in step: its
\* sequence numbers start at 0 (section 6.1), and the B-off has the number of
\* its voice packets as total (7.2).  handle_obp_voice_burst counts slots from
\* the VOICE_HEAD, which is no voice packet, and end_obp_origin_call takes the
\* total from the last number.
NumberedAndCounted ==
    2 * Jitter < Slot /\ call = NoCall /\ sent # {} /\ sent = 1..Bursts =>
        out.first.seq = 0 /\ total = Cardinality(sent)
=============================================================================
