----------------------------- MODULE MCTraffic ------------------------------
(* Small instances for TLC of what goes over the network while a link is up: *)
(* keepalives, control lines, the packets of a call to the CC-CC side, the   *)
(* bursts of calls to a peer, and the digests that sign the peers' packets.  *)
(* They share no state: a behaviour has one of them, and the others rest.    *)
EXTENDS Integers

CONSTANTS
    Interval, Timeout, Delay, Kinds, MaxLosses, MaxConns, MaxTime,
    Cap, Others, CR, LF, MaxSegment, MaxLine,
    SeqMod, TsMod, Step, Bursts, NoCall, NoPacket,
    Links, MaxSends,
    Block, LenBytes, DigestBytes, MaxBytes

VARIABLES
    part,
    clock, kind, conn, due, last_keepalive_recv, left, conns, net, losses,
    rxbuf, line, given,
    r_clock, next, r_net, call, out, sent, total,
    obp_seq_pos, obp_seq_ctr, bound, dropped, last, heard,
    ctx, msg, key, hash

keepaliveVars == <<clock, kind, conn, due, last_keepalive_recv, left, conns, net, losses>>
controlVars == <<rxbuf, line, given>>
rtpVars == <<r_clock, next, r_net, call, out, sent, total>>
superframeVars == <<obp_seq_pos, obp_seq_ctr, bound, dropped, last, heard>>
digestVars == <<ctx, msg, key, hash>>

K == INSTANCE Keepalive

C == INSTANCE ControlStream

\* Delays below half a slot
Timely == INSTANCE RtpClock WITH
    Slot <- 6, Jitter <- 2, Idle <- 14, clock <- r_clock, net <- r_net

\* Delays of more than a slot: bursts overtake each other.
Late == INSTANCE RtpClock WITH
    Slot <- 4, Jitter <- 5, Idle <- 11, clock <- r_clock, net <- r_net

S == INSTANCE Superframe

H == INSTANCE Sha WITH out <- hash

ASSUME TrafficAssumption ==
    /\ K!ConstantsOK /\ C!ConstantsOK /\ S!ConstantsOK /\ H!ConstantsOK
    /\ Timely!ConstantsOK /\ Late!ConstantsOK

Parts == {"keepalive", "control", "timely", "late", "superframe", "digest"}

Init ==
    /\ part \in Parts
    /\ K!Init /\ C!Init /\ Timely!Init /\ S!Init /\ H!Init
    /\ part # "keepalive" => kind = CHOOSE k \in Kinds : TRUE

Next ==
    \/ /\ part = "keepalive" /\ K!Next
       /\ UNCHANGED <<part, controlVars, rtpVars, superframeVars, digestVars>>
    \/ /\ part = "control" /\ C!Next
       /\ UNCHANGED <<part, keepaliveVars, rtpVars, superframeVars, digestVars>>
    \/ /\ part = "timely" /\ Timely!Next
       /\ UNCHANGED <<part, keepaliveVars, controlVars, superframeVars, digestVars>>
    \/ /\ part = "late" /\ Late!Next
       /\ UNCHANGED <<part, keepaliveVars, controlVars, superframeVars, digestVars>>
    \/ /\ part = "superframe" /\ S!Next
       /\ UNCHANGED <<part, keepaliveVars, controlVars, rtpVars, digestVars>>
    \/ /\ part = "digest" /\ H!Next
       /\ UNCHANGED <<part, keepaliveVars, controlVars, rtpVars, superframeVars>>

vars == <<part, keepaliveVars, controlVars, rtpVars, superframeVars, digestVars>>

Spec == Init /\ [][Next]_vars

-----------------------------------------------------------------------------
(* The properties of the parts, under names that a configuration can use.    *)

\* The watchdog of keepalive_cb is neither too early nor too late: a link whose
\* far end is there is not declared dead as long as the timeout leaves room for
\* the losses and one exchange, and a far end that is gone is noticed in bounded
\* time.
WatchdogExact == [][K!AlarmMeant /\ K!DeadNoticed']_keepaliveVars

\* Nothing is sent for a sync source that this end has left
\* (on_voice_readable).
EchoesEnd == K!TypeOK /\ K!EchoesEnd

\* However the stream is cut, lines reach the callback of feed_bytes whole, or
\* cut off at their end, and its buffer holds the line so far.
LinesWhole == C!BufferIsLine /\ C!LinesWhole

\* Numbers, timestamps and total of a call are in step with its bursts
\* (handle_obp_voice_burst, end_obp_origin_call): the same gaps in both fields,
\* each number as far from the first packet's as its burst is from the first
\* burst, up to what the delays explain, and a B-off that counts no fewer
\* packets than were sent.
NumbersInStep ==
    /\ Timely!TypeOK /\ Timely!GapsAgree
    /\ part = "timely" => Timely!PlaceFromFirst /\ Timely!TotalCounts
    /\ part = "late" => Late!PlaceFromFirst

\* All frames to a peer are numbered in one row (send_dmrd).
SeqInOneRow == [][S!SeqFollows]_superframeVars

\* A stream begins with the sync burst (translator_cccc_bon), and any six bursts
\* in a row carry the whole link control (build_embed).
LateEntry == S!TypeOK /\ S!BeginsWithSync /\ S!LateEntry

\* However a message is cut for sha1_update nothing is lost or doubled, the hash
\* does not depend on the pieces, and hmac_sha1 is the construction of RFC 2104,
\* for keys of every length.
DigestsRight == part = "digest" => H!NothingLost /\ H!HashesAgree /\ H!HmacAgrees
=============================================================================
