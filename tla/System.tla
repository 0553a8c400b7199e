------------------------------- MODULE System -------------------------------
(***************************************************************************)
(* The program as it runs: the CC-CC links of CcccLink, with their sockets *)
(* and timers, and over them the translator and the OpenBridge peers of    *)
(* Cc2obp, which know of a link only what its callbacks tell them.  A      *)
(* callback of cccc_link.c that ends a session calls the translator before *)
(* it returns; a control line is handed on by the connection that brought  *)
(* it, a voice datagram by the link whose sync source it carries.          *)
(*                                                                         *)
(* Cc2obp stands on the promises of LinkService.  Here it stands on the    *)
(* code that is to keep them.                                              *)
(*                                                                         *)
(* A definition marked "Fault:" is not part of the model.  It is the next  *)
(* definition with a plausible bug, put in its place to see that the       *)
(* properties notice.                                                      *)
(***************************************************************************)
EXTENDS CcccLink

CONSTANTS
    Peers, Peer,       \* cfg->openbridge[]; Peer[l] is link l's openbridge_idx
    Streams, NoStream, \* the peers' stream identifiers
    TickInterval,      \* TICK_INTERVAL_S
    IdleTimeout        \* CALL_IDLE_TIMEOUT_S, in the same unit

ASSUME BridgeAssumption ==
    /\ Peer \in [Links -> Peers]
    /\ NoStream \notin Streams
    /\ TickInterval \in Nat \ {0} /\ IdleTimeout \in Nat \ {0}

VARIABLES
    penabled,          \* cfg->openbridge[p].enabled
    xc,                \* lcfg->cross_connect_active
    bound,             \* the peers whose socket is bound
    call, idle,        \* the translator's calls, and how long they are silent
    far, near          \* what the CC-CC ends and the peers have been told

\* cccc_link_is_up, as the translator's sends see it
Up == [l \in Links |-> state[l] = "UP"]

B == INSTANCE Cc2obp WITH up <- Up

callVars == <<call, idle, far, near>>
bridgeVars == <<penabled, xc, bound, callVars>>
systemVars == <<vars, bridgeVars>>

SystemInit == Init /\ B!Init

-----------------------------------------------------------------------------
(* Callbacks of cccc_link.c *)

\* Fault: the translator does not hear of a session's end.
TranslatorUntold(ended) == UNCHANGED callVars

\* translator_cccc_link_down, for the sessions that a callback ends
TranslatorTold(ended) ==
    \/ ended = {} /\ UNCHANGED callVars
    \/ ended # {} /\ B!CallsEnd({}, ended, {}) /\ B!Rested

Ended == {l \in Links : session'[l] # session[l]}

\* A callback of a connection or a timer, or a keepalive
LinkCallback ==
    /\ \/ \E l \in Links : LinkEvent(l)
       \/ \E p \in Slots : SlotEvent(p)
       \/ \E s \in Ssrcs, h \in Hosts : KeepaliveReceived(s, h)
    /\ TranslatorTold(Ended)
    /\ UNCHANGED <<penabled, xc, bound>>

\* dispatch_established_line: a B-on or a B-off
CallLine(l) ==
    /\ LinkBytes(l) /\ state[l] = "UP"
    /\ B!CcBon(l) \/ B!CcBoff(l)
    /\ UNCHANGED <<penabled, xc, bound>>

\* on_voice_readable: a voice packet with sync source s from address h
VoicePacket(s, h) ==
    /\ phase = "running"
    /\ \E l \in FindLink(s) : Host[l] = h /\ B!CcVoice(l)
    /\ UNCHANGED <<vars, penabled, xc, bound>>

-----------------------------------------------------------------------------
(* The peers' packets, and main.c *)

\* on_obp_readable
PeerPacket(l) ==
    /\ phase = "running"
    /\ \E s \in Streams : B!ObpHead(l, s) \/ B!ObpBurst(l, s) \/ B!ObpTerm(l, s)
    /\ UNCHANGED <<vars, penabled, xc, bound>>

\* main: obp_mux_start, then cccc_mux_start
Begin ==
    /\ B!Reconcile(penabled)
    /\ Start
    /\ UNCHANGED <<penabled, xc, callVars>>

\* tick_cb without a reload, or with one that config_load refuses
IdleTick ==
    /\ phase = "running"
    /\ \E expired \in B!Expirable : B!CallsEnd(expired, {}, {})
    /\ B!Aged
    /\ UNCHANGED <<vars, penabled, xc, bound>>

\* tick_cb with do_reload: translator_tick, the new toggles, then
\* cccc_mux_reconcile and obp_mux_reconcile
ReloadTick(en, x, pe) ==
    /\ Reload(en)
    /\ xc' = x
    /\ penabled' = pe
    /\ B!Reconcile(pe)
    /\ \E expired \in B!Expirable : B!CallsEnd(expired, Ended, bound \ bound')
    /\ B!Aged

\* the end of main: cccc_mux_stop, then obp_mux_stop
End ==
    /\ Stop
    /\ bound' = {}
    /\ B!CallsEnd({}, Ended, bound)
    /\ B!Rested
    /\ UNCHANGED <<penabled, xc>>

AnyTick ==
    \/ IdleTick
    \/ \E en, x \in [Links -> BOOLEAN], pe \in [Peers -> BOOLEAN] : ReloadTick(en, x, pe)

SystemNext ==
    \/ Begin \/ AnyTick \/ End
    \/ LinkCallback
    \/ \E l \in Links : CallLine(l) \/ PeerPacket(l)
    \/ \E s \in Ssrcs, h \in Hosts : VoicePacket(s, h)

SystemSpec == SystemInit /\ [][SystemNext]_systemVars

\* The tick's timer is always armed while the event loop runs.
SystemFairSpec == SystemSpec /\ WF_systemVars(AnyTick)

-----------------------------------------------------------------------------
(* Properties *)

\* The bridge over the detailed links behaves as it does over the service:
\* no callback of cccc_link.c, in whatever order, takes the translator or
\* the peers where Cc2obp says that they do not go.
BridgeHolds == B!Spec

\* A call that the CC-CC end takes part in, as its origin or as the one that
\* hears it, always has what is needed to end it: a connection of its own
\* that the event loop reads, so that its B-off and its close arrive; one
\* keepalive timer, so that silence is noticed; and a sync source.
CallSupervised ==
    \A l \in Links : call[l].origin = "cc" \/ far[l] \in {"call", "voice"} =>
        /\ phase = "running" /\ enabled[l]
        /\ fd[l] \in open /\ handler[fd[l]] = l
        /\ katimer[l] = 1
        /\ ssrc[l] # NoSsrc

\* A call that falls silent, because its end was lost or dropped, is ended.
SilentCallEnds == B!SilentCallEnds

\* A link whose cross-connect stays off is soon without a call and stays so,
\* whatever the far ends go on sending.
GatedCallEnds == B!GatedCallEnds
=============================================================================
