------------------------------- MODULE Cc2obp -------------------------------
(***************************************************************************)
(* The whole bridge, over the link service that cccc_link.c implements:    *)
(* the translator's calls, the links that come up, are replaced and go     *)
(* down under them, the OpenBridge peers' sockets (obp_link.c), and the    *)
(* tick that ends idle calls and then carries out a reload (main.c).       *)
(*                                                                         *)
(* The two directions share one thread, so each action is one callback;    *)
(* what comes from the two far ends, in which order, and what the operator *)
(* writes into the configuration file before a SIGHUP is arbitrary.        *)
(***************************************************************************)
EXTENDS Translator

VARIABLES
    phase,              \* "new", "running", "stopped"
    session,            \* flips with each translator_cccc_link_down
    penabled            \* cfg->openbridge[p].enabled

linkVars == <<phase, enabled, up, session>>
peerVars == <<penabled, bound>>
vars == <<linkVars, peerVars, xc, callVars>>

CcLinks == INSTANCE LinkService

TypeOK ==
    /\ CcLinks!TypeOK
    /\ xc \in [Links -> BOOLEAN]
    /\ penabled \in [Peers -> BOOLEAN]
    /\ bound \subseteq Peers
    /\ TranslatorTypeOK

-----------------------------------------------------------------------------

Init ==
    /\ CcLinks!Init
    /\ xc \in [Links -> BOOLEAN]
    /\ penabled \in [Peers -> BOOLEAN]
    /\ bound = {}
    /\ call = [l \in Links |-> NoCall]
    /\ idle = [l \in Links |-> 0]
    /\ far = [l \in Links |-> "idle"]
    /\ near = [l \in Links |-> "idle"]

\* obp_mux_reconcile: sockets of disabled peers are closed, and those of
\* enabled peers opened where udp_bind succeeds.
Reconcile(pe) ==
    /\ bound' \in SUBSET {p \in Peers : pe[p]}
    /\ {p \in bound : pe[p]} \subseteq bound'

\* main: obp_mux_start, then cccc_mux_start
Start ==
    /\ CcLinks!Start
    /\ Reconcile(penabled)
    /\ UNCHANGED <<penabled, xc, callVars>>

\* translator_cccc_link_up
LinkComesUp(l) ==
    /\ CcLinks!LinkUp(l)
    /\ UNCHANGED <<peerVars, xc, callVars>>

\* A session ends, or gives way to another: translator_cccc_link_down
SessionEnds(l) ==
    /\ CcLinks!LinkDown(l) \/ CcLinks!LinkReplaced(l)
    /\ CallsEnd({}, {l}, {})
    /\ Rested
    /\ UNCHANGED <<peerVars, xc>>

FromObp(l) ==
    /\ phase = "running"
    /\ \E s \in Streams : ObpHead(l, s) \/ ObpBurst(l, s) \/ ObpTerm(l, s)
    /\ UNCHANGED <<linkVars, peerVars, xc>>

FromCc(l) ==
    /\ phase = "running"
    /\ CcBon(l) \/ CcVoice(l) \/ CcBoff(l)
    /\ UNCHANGED <<linkVars, peerVars, xc>>

\* tick_cb without a reload, or with one that config_load refuses
Tick ==
    /\ phase = "running"
    /\ \E expired \in Expirable : CallsEnd(expired, {}, {})
    /\ Aged
    /\ UNCHANGED <<linkVars, peerVars, xc>>

\* tick_cb with do_reload: the new toggles are copied, then the links are
\* reconciled, and the peers after them.
TickReload(en, x, pe) ==
    /\ CcLinks!Reload(en)
    /\ xc' = x
    /\ penabled' = pe
    /\ Reconcile(pe)
    /\ \E expired \in Expirable :
         CallsEnd(expired, {l \in CcLinks!UpLinks : ~en[l]}, bound \ bound')
    /\ Aged

\* the end of main: cccc_mux_stop, then obp_mux_stop
Stop ==
    /\ CcLinks!Stop
    /\ bound' = {}
    /\ CallsEnd({}, CcLinks!UpLinks, bound)
    /\ Rested
    /\ UNCHANGED <<penabled, xc>>

TickCallback ==
    \/ Tick
    \/ \E en \in [Links -> BOOLEAN], x \in [Links -> BOOLEAN], pe \in [Peers -> BOOLEAN] :
         TickReload(en, x, pe)

Next ==
    \/ Start \/ TickCallback \/ Stop
    \/ \E l \in Links : LinkComesUp(l) \/ SessionEnds(l) \/ FromObp(l) \/ FromCc(l)

Spec == Init /\ [][Next]_vars

-----------------------------------------------------------------------------
(* Properties *)

\* The peer sees streams: a VOICE_HEAD, bursts, a VOICE_TERM, and only then
\* another.  A stream that is open at a peer with a socket is the call in
\* progress; so whatever ends the call (B-off, a lost or replaced link, the
\* idle timeout, a reload, the end of the program), the peer is told.
NearBracketed ==
    \A l \in Links :
        /\ near[l] # "stray"
        /\ near[l] = "open" => call[l].origin = "cc" /\ Peer[l] \in bound
        /\ call[l].origin = "cc" => near[l] \in {"open", "abandoned"}

\* A B-on that the CC-CC end has not seen closed belongs to the call in
\* progress, and the first voice packet after it is the one with the marker
\* bit (protocol 6.1, 7.1, 7.2).
FarInStep ==
    \A l \in Links :
        /\ far[l] \in {"call", "voice"} => call[l].origin = "obp" /\ up[l]
        /\ far[l] = "call" => ~call[l].sent
        /\ far[l] = "voice" => call[l].sent

\* The far ends never both hold the link: no stream is open at the peer while
\* the CC-CC end has a call from it, however B-on and VOICE_HEAD cross.
HalfDuplex ==
    \A l \in Links : ~ (near[l] = "open" /\ far[l] \in {"call", "voice"})

\* A call that came from the CC-CC side does not outlive the session that
\* brought it, nor the enabling of its link.
CcCallNeedsLink ==
    \A l \in Links : call[l].origin = "cc" => up[l] /\ enabled[l] /\ phase = "running"

\* When a call from the CC-CC side ends while its peer has a socket, the peer
\* is told, even if the same step goes on to close that socket.
EndedCallsTerminated ==
    [][\A l \in Links :
         call[l].origin = "cc" /\ call'[l] = NoCall /\ Peer[l] \in bound => near'[l] = "idle"]_vars

\* A call that falls silent, because its end was lost or dropped, is ended.
SilentCallEnds ==
    \A l \in Links : (call[l] # NoCall /\ idle[l] > 0)
                     ~> (call[l] = NoCall \/ idle[l] = 0 \/ phase = "stopped")

\* A link whose cross-connect stays off is soon without a call and stays so,
\* whatever the far ends go on sending.
GatedCallEnds ==
    \A l \in Links : <>[](~xc[l]) => <>[](call[l] = NoCall \/ phase = "stopped")

\* Whatever the CC-CC end is sent belongs to a call that a B-on opened
\* (protocol 7: call boundaries are signaled at call start and end).
FarBracketed == \A l \in Links : far[l] # "stray"
=============================================================================
