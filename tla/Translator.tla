----------------------------- MODULE Translator -----------------------------
(***************************************************************************)
(* The two directional flows of translate.c.  A link carries one call at a *)
(* time: one that the CC-CC side started with a B-on, sent on to the       *)
(* OpenBridge peer as VOICE_HEAD, bursts and VOICE_TERM; or one that the   *)
(* peer started with a VOICE_HEAD, sent on to the CC-CC side as B-on, RTP  *)
(* voice and B-off.                                                        *)
(*                                                                         *)
(* Each operator below is one handler.  It updates the translator's state  *)
(* and what the two far ends have been told; the links, the peers' sockets *)
(* and the configuration belong to the module that composes them.  Audio,  *)
(* radio ids and sequence numbers are left out.                            *)
(*                                                                         *)
(* A definition marked "Fault:" is not part of the model.  It is the next  *)
(* definition with a plausible bug, put in its place to see that the       *)
(* properties notice.                                                      *)
(***************************************************************************)
EXTENDS Naturals

CONSTANTS
    Links,              \* cfg->link[]
    Peers, Peer,        \* cfg->openbridge[]; Peer[l] is link l's openbridge_idx
    Streams, NoStream,  \* the peers' stream identifiers
    TickInterval,       \* TICK_INTERVAL_S
    IdleTimeout         \* CALL_IDLE_TIMEOUT_S, in the same unit

ASSUME PeerAssumption == Peer \in [Links -> Peers]
ASSUME StreamAssumption == NoStream \notin Streams
ASSUME TickAssumption == TickInterval \in Nat \ {0} /\ IdleTimeout \in Nat \ {0}

VARIABLES
    enabled,            \* lcfg->enabled
    xc,                 \* lcfg->cross_connect_active
    up,                 \* the CC-CC link is LST_UP
    bound,              \* the peers whose socket is bound (mx->active)
    call,               \* lr->has_call and lr->call
    idle,               \* ticks of the clock since lr->call.last_activity
    far,                \* what the CC-CC end of link l has been told
    near                \* what the OpenBridge peer of link l has been told

callVars == <<call, idle, far, near>>

NoCall     == [origin |-> "none", stream |-> NoStream, sent |-> FALSE]
CcCall     == [origin |-> "cc", stream |-> NoStream, sent |-> FALSE]
\* sent is lr->call.cc_sent_first: a voice packet has left for the CC-CC end
ObpCall(s) == [origin |-> "obp", stream |-> s, sent |-> FALSE]
Calls ==
    {NoCall, CcCall} \cup [origin : {"obp"}, stream : Streams, sent : BOOLEAN]

\* The CC-CC end of a session: outside a call; after B-on; after the first
\* voice packet; or told something that is not a call.
FarViews == {"idle", "call", "voice", "stray"}
\* The peer: no stream open; one open; one left open by a socket that closed;
\* or told something that is not a stream.
NearViews == {"idle", "open", "abandoned", "stray"}

TranslatorTypeOK ==
    /\ call \in [Links -> Calls]
    /\ idle \in [Links -> Nat]
    /\ far \in [Links -> FarViews]
    /\ near \in [Links -> NearViews]

-----------------------------------------------------------------------------
(* What is sent, and how the far ends take it *)

\* cccc_send_bon, cccc_send_voice and cccc_send_boff drop what a link that is
\* not up cannot carry.
BonSent(l, v) == IF ~up[l] THEN v ELSE IF v \in {"idle", "stray"} THEN "call" ELSE "stray"

VoiceSent(l, marker) ==
    IF ~up[l] THEN far[l]
    ELSE IF far[l] = (IF marker THEN "call" ELSE "voice") THEN "voice" ELSE "stray"

\* Fault: the call ends without a B-off.
NoBoff(l) == far[l]

BoffSent(l) ==
    IF ~up[l] THEN far[l] ELSE IF far[l] \in {"call", "voice"} THEN "idle" ELSE "stray"

\* obp_send_dmrd drops what has no socket.
HeadSent(l) ==
    IF Peer[l] \notin bound THEN near[l] ELSE IF near[l] = "open" THEN "stray" ELSE "open"

BurstSent(l) ==
    IF Peer[l] \in bound /\ near[l] = "idle" THEN "stray" ELSE near[l]

TermSent(l) ==
    IF Peer[l] \notin bound THEN near[l]
    ELSE IF near[l] \in {"open", "abandoned"} THEN "idle" ELSE "stray"

\* Fault: the peer's socket is closed before the call is ended.
NearUnboundFirst(l, ends, closing) ==
    IF Peer[l] \in closing THEN (IF near[l] = "open" THEN "abandoned" ELSE near[l])
    ELSE IF ends THEN TermSent(l) ELSE near[l]

\* A VOICE_TERM if link l's CC-CC call ends, then the closing of sockets.
NearAfter(l, ends, closing) ==
    LET told == IF ends THEN TermSent(l) ELSE near[l]
    IN  IF Peer[l] \in closing /\ told = "open" THEN "abandoned" ELSE told

-----------------------------------------------------------------------------
(* OpenBridge to CC-CC *)

\* Fault: the peer's socket is not looked at.
GateXcOnly(l) == xc[l]

\* obp_gate_open
GateOpen(l) == xc[l] /\ Peer[l] \in bound

\* translator_obp_dmrd_received, up to the choice of a handler
ObpReceived(l) == Peer[l] \in bound /\ enabled[l] /\ GateOpen(l)

\* Fault: no look at the direction of the call in progress.
NewStreamOnly(l, s) == call[l].stream # s

\* A VOICE_HEAD is dropped during a CC-CC call, and when it repeats the head
\* of the stream in progress.
Admits(l, s) == call[l].origin # "cc" /\ call[l].stream # s

\* handle_obp_voice_head.  A call of an earlier stream that never saw its
\* VOICE_TERM is ended first.
ObpHead(l, s) ==
    /\ ObpReceived(l)
    /\ Admits(l, s)
    /\ far' = [far EXCEPT ![l] = BonSent(l, IF call[l].origin = "obp" THEN BoffSent(l) ELSE @)]
    /\ call' = [call EXCEPT ![l] = ObpCall(s)]
    /\ idle' = [idle EXCEPT ![l] = 0]
    /\ UNCHANGED near

\* handle_obp_voice_burst
ObpBurst(l, s) ==
    /\ ObpReceived(l)
    /\ call[l].origin = "obp" /\ call[l].stream = s
    /\ far' = [far EXCEPT ![l] = VoiceSent(l, ~call[l].sent)]
    /\ call' = [call EXCEPT ![l].sent = TRUE]
    /\ idle' = [idle EXCEPT ![l] = 0]
    /\ UNCHANGED near

\* handle_obp_voice_term
ObpTerm(l, s) ==
    /\ ObpReceived(l)
    /\ call[l].origin = "obp" /\ call[l].stream = s
    /\ far' = [far EXCEPT ![l] = BoffSent(l)]
    /\ call' = [call EXCEPT ![l] = NoCall]
    /\ idle' = [idle EXCEPT ![l] = 0]
    /\ UNCHANGED near

-----------------------------------------------------------------------------
(* CC-CC to OpenBridge *)

\* translator_cccc_bon: ignored during a call of either direction
CcBon(l) ==
    /\ up[l]
    /\ enabled[l] /\ GateOpen(l)
    /\ call[l] = NoCall
    /\ call' = [call EXCEPT ![l] = CcCall]
    /\ idle' = [idle EXCEPT ![l] = 0]
    /\ near' = [near EXCEPT ![l] = HeadSent(l)]
    /\ UNCHANGED far

\* Fault: voice that the cross-connect drops counts as activity.
CcVoiceUngated(l) ==
    /\ up[l]
    /\ call[l].origin = "cc"
    /\ idle' = [idle EXCEPT ![l] = 0]
    /\ near' = [near EXCEPT ![l] = IF xc[l] THEN BurstSent(l) ELSE @]
    /\ UNCHANGED <<call, far>>

\* translator_cccc_voice, for the link that on_voice_readable found by its
\* sync source: only a link that is up has one
CcVoice(l) ==
    /\ up[l]
    /\ call[l].origin = "cc"
    /\ xc[l]
    /\ idle' = [idle EXCEPT ![l] = 0]
    /\ near' = [near EXCEPT ![l] = BurstSent(l)]
    /\ UNCHANGED <<call, far>>

\* translator_cccc_boff
CcBoff(l) ==
    /\ up[l]
    /\ call[l].origin = "cc"
    /\ call' = [call EXCEPT ![l] = NoCall]
    /\ idle' = [idle EXCEPT ![l] = 0]
    /\ near' = [near EXCEPT ![l] = TermSent(l)]
    /\ UNCHANGED far

-----------------------------------------------------------------------------
(* Calls that end otherwise *)

\* Fault: no call is ever idle for too long.
MayIdleNever(m) == FALSE

\* The idle test at the m-th tick since the last activity, which came at most
\* one tick before the first of them; timers fire when due or somewhat later,
\* and the clock moves on in between, so "idle > timeout" holds at the latter
\* bound.
MayIdle(m)  == m * TickInterval >= IdleTimeout
MustIdle(m) == (m - 1) * TickInterval >= IdleTimeout

\* The sets of calls that translator_tick may find idle for too long.
Expirable ==
    LET carrying == {l \in Links : call[l] # NoCall}
    IN  {S \in SUBSET {l \in carrying : MayIdle(idle[l] + 1)} :
           {l \in carrying : MustIdle(idle[l] + 1)} \subseteq S}

\* translator_tick force-ends the calls of "expired"; then
\* translator_cccc_link_down is called for the links of "down", whose CC-CC
\* ends are gone; then the sockets of the peers in "closing" are closed.
CallsEnd(expired, down, closing) ==
    LET ended == expired \cup down
    IN  /\ call' = [l \in Links |-> IF l \in ended THEN NoCall ELSE call[l]]
        /\ far' = [l \in Links |-> IF l \in down THEN "idle"
                                   ELSE IF l \in expired /\ call[l].origin = "obp"
                                   THEN BoffSent(l) ELSE far[l]]
        /\ near' = [l \in Links |-> NearAfter(l, l \in ended /\ call[l].origin = "cc", closing)]

\* One more tick has passed for the calls that go on.
Aged == idle' = [l \in Links |-> IF call'[l] = NoCall THEN 0 ELSE idle[l] + 1]
Rested == idle' = [l \in Links |-> IF call'[l] = NoCall THEN 0 ELSE idle[l]]
=============================================================================
