------------------------------ MODULE CcccLink ------------------------------
(***************************************************************************)
(* The CC-CC side of cc2obp: cccc/cccc_link.c.  Every configured link has  *)
(* one TCP control connection.  An outbound link dials, sends a Question   *)
(* and waits for the Answer; an inbound link is matched to a connection    *)
(* that the listener accepted, once that connection's Question is          *)
(* complete.  A keepalive timer supervises an established link, a          *)
(* reconnect timer redials an outbound one, a timeout clears an accepted   *)
(* connection that never completes its Question, and SIGHUP enables and    *)
(* disables links while all of this is going on.                           *)
(*                                                                         *)
(* The program has one thread: each action is one callback of the event    *)
(* loop, run to completion.  Remote ends and the network are the           *)
(* nondeterminism: connections succeed or fail, lines arrive or do not,    *)
(* connections close, datagrams are lost, repeated or delayed.             *)
(*                                                                         *)
(* File descriptors are small numbers that the kernel hands out again      *)
(* after close(); timers are counted, so that arming one twice shows.      *)
(*                                                                         *)
(* A definition marked "Fault:" is not part of the model.  It is the next  *)
(* definition with a plausible bug, put in its place to see that the       *)
(* properties notice.                                                      *)
(***************************************************************************)
EXTENDS Naturals, FiniteSets

CONSTANTS
    Links,             \* cfg->link[]
    Outbound,          \* the links with cc_role "outbound"; the rest are inbound
    Hosts, Host,       \* remote addresses; Host[l] is link l's cc_remote_ip
    Lids, Lid,         \* CC-CC link ids; Lid[l] is link l's cc_lid
    Slots,             \* the pending-connection table (MAX_PENDING entries)
    Fds, NoFd,         \* descriptors the kernel may hand out; -1
    Ssrcs, NoSsrc,     \* sync sources; has_sync_source = 0
    NoConn,            \* a free pending slot (in_use = 0)
    NoOne,             \* no callback registered
    AnswerFields,      \* CCCC_ANSWER_NFIELDS
    QuestionFields,    \* CCCC_QUESTION_NFIELDS
    KaInterval,        \* cc_keepalive_interval, in some unit of time
    LinkTimeout        \* cc_link_timeout, in the same unit

Inbound == Links \ Outbound

ASSUME LinksAssumption ==
    /\ Outbound \subseteq Links
    /\ Host \in [Links -> Hosts]
    /\ Lid \in [Links -> Lids]
    \* load_links() refuses two inbound links with the same address and lid
    /\ \A k, l \in Inbound : Host[k] = Host[l] /\ Lid[k] = Lid[l] => k = l

ASSUME NamesAssumption ==
    /\ NoFd \notin Fds
    /\ NoSsrc \notin Ssrcs
    /\ Links \cap Slots = {}
    /\ NoOne \notin Links \cup Slots

ASSUME NumbersAssumption ==
    /\ AnswerFields \in Nat \ {0}
    /\ QuestionFields \in Nat \ {0}
    /\ KaInterval \in Nat \ {0}
    /\ LinkTimeout \in Nat

VARIABLES
    phase,             \* "new" until cccc_mux_start, "stopped" after cccc_mux_stop
    enabled,           \* lcfg->enabled
    active,            \* lk->active
    state,             \* lk->state
    fd,                \* lk->fd
    ssrc,              \* lk->sync_source, or NoSsrc
    hsn,               \* lk->hsnlines: Answer lines collected
    part,              \* lk->rxlen > 0: an incomplete line is buffered
    missed,            \* keepalive timer expiries since the last keepalive received
    katimer,           \* number of armed timers that call keepalive_cb(lk)
    reconn,            \* number of armed timers that call reconnect_cb(lk)
    session,           \* flips with each translator_cccc_link_down(idx)
    pend,              \* the pending table: NoConn or [fd, src, qn]
    ptimer,            \* number of armed timers that call pending_timeout_cb(p)
    open,              \* the TCP connections the process holds
    handler,           \* ev_add_fd: whose callback reads the descriptor
    wr                 \* ev_add_fd_write: descriptors watched for connect()

linkVars == <<active, state, fd, ssrc, hsn, part, missed, katimer, reconn, session>>
slotVars == <<pend, ptimer>>
loopVars == <<open, handler, wr>>
vars == <<phase, enabled, linkVars, slotVars, loopVars>>

LinkStates == {"DOWN", "CONNECTING", "HANDSHAKING", "UP"}
PendingConns == [fd : Fds, src : Hosts, qn : 0..(QuestionFields - 1)]

ASSUME NoConnAssumption == NoConn \notin PendingConns

TypeOK ==
    /\ phase \in {"new", "running", "stopped"}
    /\ enabled \in [Links -> BOOLEAN]
    /\ active \in [Links -> BOOLEAN]
    /\ state \in [Links -> LinkStates]
    /\ fd \in [Links -> Fds \cup {NoFd}]
    /\ ssrc \in [Links -> Ssrcs \cup {NoSsrc}]
    /\ hsn \in [Links -> 0..(AnswerFields - 1)]
    /\ part \in [Links -> BOOLEAN]
    /\ missed \in [Links -> Nat]
    /\ katimer \in [Links -> Nat]
    /\ reconn \in [Links -> Nat]
    /\ session \in [Links -> BOOLEAN]
    /\ pend \in [Slots -> PendingConns \cup {NoConn}]
    /\ ptimer \in [Slots -> Nat]
    /\ open \subseteq Fds
    /\ handler \in [Fds -> Links \cup Slots \cup {NoOne}]
    /\ wr \subseteq Fds

-----------------------------------------------------------------------------
(* Helpers *)

\* find_link_by_ssrc: the links a sync source may lead to.
FindLink(s) == {l \in Links : ssrc[l] = s}

\* mint_sync_source: a random value that no link is using.
FreshSsrcs == {s \in Ssrcs : FindLink(s) = {}}

\* Fault: the handle is not tested, or the timer not cancelled.
CancelledUnchecked(n) == n - 1
CancelledNever(n) == n

\* ev_timer_cancel through a handle that is NULL when nothing is armed.
Cancelled(n) == IF n = 0 THEN 0 ELSE n - 1

\* Fault: the watchdog never finds the remote silent.
MayExpireNever(m) == FALSE

\* The age test of keepalive_cb at the m-th expiry since the last keepalive:
\* that keepalive came at most one interval before the first of them, timers
\* fire when they are due or somewhat later, and the clock moves on between
\* one expiry and the next, so "age > timeout" holds at the latter bound.
MayExpire(m)  == m * KaInterval >= LinkTimeout
MustExpire(m) == (m - 1) * KaInterval >= LinkTimeout

\* The event loop has something to call for owner o.
Readable(o) == \E f \in open : handler[f] = o

\* Fault: ev_del_fd forgotten before close().
StillRegistered(closed) == handler

Unregistered(closed) ==
    [f \in Fds |-> IF f \in closed THEN NoOne ELSE handler[f]]

\* teardown_link_connection of every link of "ending", and
\* cccc_start_outbound_connect of every link in the domain of "dial" with the
\* descriptor dial[l] it obtained (NoFd when tcp_connect_start failed); the
\* reconnect timers are the caller's.
Connections(ending, dial) ==
    LET dialing == DOMAIN dial
        dialed  == {l \in dialing : dial[l] # NoFd}
        new     == {dial[l] : l \in dialed}
        closed  == {fd[l] : l \in ending} \ {NoFd}
    IN  /\ new \cap (open \ closed) = {}
        /\ \A k, l \in dialed : dial[k] = dial[l] => k = l
        /\ state' = [l \in Links |-> IF l \in ending THEN "DOWN"
                                     ELSE IF l \in dialed THEN "CONNECTING" ELSE state[l]]
        /\ fd' = [l \in Links |-> IF l \in ending THEN NoFd
                                  ELSE IF l \in dialing THEN dial[l] ELSE fd[l]]
        /\ ssrc' = [l \in Links |-> IF l \in ending \cup dialing THEN NoSsrc ELSE ssrc[l]]
        /\ hsn' = [l \in Links |-> IF l \in ending \cup dialing THEN 0 ELSE hsn[l]]
        /\ katimer' = [l \in Links |-> IF l \in ending THEN Cancelled(katimer[l]) ELSE katimer[l]]
        /\ session' = [l \in Links |-> IF l \in ending /\ state[l] = "UP"
                                       THEN ~session[l] ELSE session[l]]
        /\ open' = (open \ closed) \cup new
        /\ handler' = Unregistered(closed)
        /\ wr' = (wr \ closed) \cup new
        /\ UNCHANGED missed

\* Fault: rxlen kept from one connection to the next.
KeptBuffers(S) == UNCHANGED part

EmptyBuffers(S) == part' = [l \in Links |-> part[l] /\ l \notin S]

\* Fault: the reconnect is left to somebody else.
NoRedial(l) == UNCHANGED reconn

\* The end of teardown_link_connection: an outbound link that is still
\* wanted is redialed later.
Redial(l) == reconn' = [reconn EXCEPT ![l] = IF l \in Outbound /\ active[l] THEN @ + 1 ELSE @]

Teardown(l) ==
    /\ Connections({l}, [k \in {} |-> NoFd])
    /\ Redial(l)
    /\ UNCHANGED <<phase, enabled, active, slotVars>>

-----------------------------------------------------------------------------
(* Lifecycle *)

Init ==
    /\ phase = "new"
    /\ enabled \in [Links -> BOOLEAN]
    /\ active = [l \in Links |-> FALSE]
    /\ state = [l \in Links |-> "DOWN"]
    /\ fd = [l \in Links |-> NoFd]
    /\ ssrc = [l \in Links |-> NoSsrc]
    /\ hsn = [l \in Links |-> 0]
    /\ part = [l \in Links |-> FALSE]
    /\ missed = [l \in Links |-> 0]
    /\ katimer = [l \in Links |-> 0]
    /\ reconn = [l \in Links |-> 0]
    /\ session = [l \in Links |-> FALSE]
    /\ pend = [p \in Slots |-> NoConn]
    /\ ptimer = [p \in Slots |-> 0]
    /\ open = {}
    /\ handler = [f \in Fds |-> NoOne]
    /\ wr = {}

\* cccc_mux_start, once the shared sockets are bound (the program exits otherwise)
Start ==
    /\ phase = "new"
    /\ phase' = "running"
    /\ active' = enabled
    /\ LET dialing == {l \in Outbound : enabled[l]}
       IN \E dial \in [dialing -> Fds \cup {NoFd}] :
            /\ Connections({}, dial)
            /\ EmptyBuffers(dialing)
            /\ reconn' = [l \in Links |-> IF l \in dialing /\ dial[l] = NoFd
                                          THEN reconn[l] + 1 ELSE reconn[l]]
    /\ UNCHANGED <<enabled, slotVars>>

\* config_reload_toggles has copied the links' new "enabled" into the running
\* configuration; cccc_mux_reconcile then visits every link.
Reload(en) ==
    /\ phase = "running"
    /\ enabled' = en
    /\ LET dialing  == {l \in Outbound : en[l] /\ ~active[l]}
           stopping == {l \in Outbound : ~en[l] /\ active[l]}
           ending   == {l \in stopping \cup Inbound : ~en[l] /\ state[l] # "DOWN"}
       IN \E dial \in [dialing -> Fds \cup {NoFd}] :
            /\ Connections(ending, dial)
            /\ EmptyBuffers(ending \cup dialing)
            /\ reconn' = [l \in Links |->
                            IF l \in stopping THEN Cancelled(reconn[l])
                            ELSE IF l \in dialing /\ dial[l] = NoFd THEN reconn[l] + 1
                            ELSE reconn[l]]
    /\ active' = en
    /\ UNCHANGED <<phase, slotVars>>

\* cccc_mux_stop
Stop ==
    /\ phase = "running"
    /\ phase' = "stopped"
    /\ active' = [l \in Links |-> FALSE]
    /\ LET ending  == {l \in Links : state[l] # "DOWN"}
           pending == {pend[p].fd : p \in {q \in Slots : pend[q] # NoConn}}
           closed  == ({fd[l] : l \in ending} \ {NoFd}) \cup pending
       IN /\ state' = [l \in Links |-> "DOWN"]
          /\ fd' = [l \in Links |-> IF l \in ending THEN NoFd ELSE fd[l]]
          /\ ssrc' = [l \in Links |-> IF l \in ending THEN NoSsrc ELSE ssrc[l]]
          /\ hsn' = [l \in Links |-> IF l \in ending THEN 0 ELSE hsn[l]]
          /\ EmptyBuffers(ending)
          /\ katimer' = [l \in Links |-> IF l \in ending THEN Cancelled(katimer[l]) ELSE katimer[l]]
          /\ session' = [l \in Links |-> IF state[l] = "UP" THEN ~session[l] ELSE session[l]]
          /\ reconn' = [l \in Links |-> Cancelled(reconn[l])]
          /\ pend' = [p \in Slots |-> NoConn]
          /\ ptimer' = [p \in Slots |-> IF pend[p] # NoConn THEN Cancelled(ptimer[p]) ELSE ptimer[p]]
          /\ open' = open \ closed
          /\ handler' = Unregistered(closed)
          /\ wr' = wr \ closed
    /\ UNCHANGED <<enabled, missed>>

-----------------------------------------------------------------------------
(* Outbound links *)

\* reconnect_cb
ReconnectTimer(l) ==
    /\ reconn[l] > 0
    /\ IF active[l]
       THEN \E f \in Fds \cup {NoFd} :
              /\ Connections({}, [k \in {l} |-> f])
              /\ EmptyBuffers({l})
              /\ reconn' = [reconn EXCEPT ![l] = IF f = NoFd THEN @ ELSE @ - 1]
              /\ UNCHANGED active
       ELSE /\ reconn' = [reconn EXCEPT ![l] = @ - 1]
            /\ UNCHANGED <<active, state, fd, ssrc, hsn, part, missed, katimer, session, loopVars>>
    /\ UNCHANGED <<phase, enabled, slotVars>>

\* on_connect_writable: connected, send the Question
ConnectSucceeds(l) ==
    /\ fd[l] \in wr
    /\ state' = [state EXCEPT ![l] = "HANDSHAKING"]
    /\ \E s \in FreshSsrcs : ssrc' = [ssrc EXCEPT ![l] = s]
    /\ wr' = wr \ {fd[l]}
    /\ handler' = [handler EXCEPT ![fd[l]] = l]
    /\ UNCHANGED <<phase, enabled, active, fd, hsn, part, missed, katimer, reconn,
                   session, slotVars, open>>

\* on_connect_writable: refused or unreachable
ConnectFails(l) ==
    /\ fd[l] \in wr
    /\ wr' = wr \ {fd[l]}
    /\ open' = open \ {fd[l]}
    /\ fd' = [fd EXCEPT ![l] = NoFd]
    /\ state' = [state EXCEPT ![l] = "DOWN"]
    /\ reconn' = [reconn EXCEPT ![l] = IF active[l] THEN @ + 1 ELSE @]
    /\ UNCHANGED <<phase, enabled, active, ssrc, hsn, part, missed, katimer, session,
                   slotVars, handler>>

\* link_on_line in LST_HANDSHAKING, before the last Answer line
AnswerLine(l) ==
    /\ Readable(l) /\ state[l] = "HANDSHAKING"
    /\ hsn[l] + 1 < AnswerFields
    /\ hsn' = [hsn EXCEPT ![l] = @ + 1]
    /\ \E b \in BOOLEAN : part' = [part EXCEPT ![l] = b]
    /\ UNCHANGED <<phase, enabled, active, state, fd, ssrc, missed, katimer, reconn,
                   session, slotVars, loopVars>>

\* finish_outbound_handshake: codec and frame length agree
AnswerAccepted(l) ==
    /\ Readable(l) /\ state[l] = "HANDSHAKING"
    /\ hsn[l] + 1 = AnswerFields
    /\ hsn' = [hsn EXCEPT ![l] = 0]
    /\ state' = [state EXCEPT ![l] = "UP"]
    /\ missed' = [missed EXCEPT ![l] = 0]
    /\ katimer' = [katimer EXCEPT ![l] = @ + 1]
    /\ \E b \in BOOLEAN : part' = [part EXCEPT ![l] = b]
    /\ UNCHANGED <<phase, enabled, active, fd, ssrc, reconn, session, slotVars, loopVars>>

\* finish_outbound_handshake: they do not.  feed_bytes goes on with the rest
\* of the segment, so the end of it may stay in the buffer of a link that is down.
AnswerRejected(l) ==
    /\ Readable(l) /\ state[l] = "HANDSHAKING"
    /\ hsn[l] + 1 = AnswerFields
    /\ Teardown(l)
    /\ \E b \in BOOLEAN : part' = [part EXCEPT ![l] = b]

-----------------------------------------------------------------------------
(* Established links, and what may happen to any connection *)

\* on_link_tcp_readable: bytes that complete no Answer line (a B-on or B-off
\* for the translator, an unknown line, the beginning of a line)
LinkBytes(l) ==
    /\ Readable(l)
    /\ state[l] \in {"HANDSHAKING", "UP"}
    /\ \E b \in BOOLEAN : part' = [part EXCEPT ![l] = b]
    /\ UNCHANGED <<phase, enabled, active, state, fd, ssrc, hsn, missed, katimer, reconn,
                   session, slotVars, loopVars>>

\* on_link_tcp_readable: FIN or a receive error
PeerClosed(l) ==
    /\ Readable(l)
    /\ Teardown(l)
    /\ EmptyBuffers({l})

\* keepalive_cb, the remote heard recently enough; nothing on a link that is
\* no longer up
KeepaliveSent(l) ==
    /\ katimer[l] > 0
    /\ IF state[l] = "UP"
       THEN /\ ~ MustExpire(missed[l] + 1)
            /\ missed' = [missed EXCEPT ![l] = @ + 1]
            /\ UNCHANGED katimer
       ELSE /\ katimer' = [katimer EXCEPT ![l] = @ - 1]
            /\ UNCHANGED missed
    /\ UNCHANGED <<phase, enabled, active, state, fd, ssrc, hsn, part, reconn,
                   session, slotVars, loopVars>>

\* keepalive_cb: cc_link_timeout has passed
KeepaliveExpired(l) ==
    /\ katimer[l] > 0 /\ state[l] = "UP"
    /\ MayExpire(missed[l] + 1)
    /\ Teardown(l)
    /\ EmptyBuffers({l})

\* on_voice_readable: a keepalive with sync source s from address h
KeepaliveReceived(s, h) ==
    /\ phase = "running"
    /\ \E l \in FindLink(s) :
         /\ Host[l] = h
         /\ missed' = [missed EXCEPT ![l] = 0]
    /\ UNCHANGED <<phase, enabled, active, state, fd, ssrc, hsn, part, katimer, reconn,
                   session, slotVars, loopVars>>

-----------------------------------------------------------------------------
(* Accepted connections *)

\* Fault: the slot is freed and its descriptor forgotten.
FreePendingUnclosed(p) ==
    /\ pend' = [pend EXCEPT ![p] = NoConn]
    /\ handler' = Unregistered({pend[p].fd})
    /\ UNCHANGED <<phase, enabled, linkVars, open, wr>>

\* free_pending(also_close): close the connection and free the slot; the
\* timer is the caller's.
FreePending(p) ==
    LET closed == {pend[p].fd}
    IN  /\ pend' = [pend EXCEPT ![p] = NoConn]
        /\ open' = open \ closed
        /\ handler' = Unregistered(closed)
        /\ UNCHANGED <<phase, enabled, linkVars, wr>>

\* Fault: no timeout is armed.
AcceptUntimed(p, h, f) ==
    /\ phase = "running"
    /\ pend[p] = NoConn
    /\ f \notin open
    /\ pend' = [pend EXCEPT ![p] = [fd |-> f, src |-> h, qn |-> 0]]
    /\ open' = open \cup {f}
    /\ handler' = [handler EXCEPT ![f] = p]
    /\ UNCHANGED <<phase, enabled, linkVars, ptimer, wr>>

\* on_listen_readable.  With no free slot the connection is closed at once.
Accept(p, h, f) ==
    /\ phase = "running"
    /\ pend[p] = NoConn
    /\ f \notin open
    /\ pend' = [pend EXCEPT ![p] = [fd |-> f, src |-> h, qn |-> 0]]
    /\ ptimer' = [ptimer EXCEPT ![p] = @ + 1]
    /\ open' = open \cup {f}
    /\ handler' = [handler EXCEPT ![f] = p]
    /\ UNCHANGED <<phase, enabled, linkVars, wr>>

\* pending_on_line before the last Question line
QuestionLine(p) ==
    /\ Readable(p) /\ pend[p] # NoConn
    /\ pend[p].qn + 1 < QuestionFields
    /\ pend' = [pend EXCEPT ![p].qn = @ + 1]
    /\ UNCHANGED <<phase, enabled, linkVars, ptimer, loopVars>>

QuestionComplete(p) ==
    /\ Readable(p) /\ pend[p] # NoConn
    /\ pend[p].qn + 1 = QuestionFields
    /\ ptimer' = [ptimer EXCEPT ![p] = Cancelled(@)]

\* Fault: "enabled" is not looked at.
MatchedAny(h, lid) == {l \in Inbound : Host[l] = h /\ Lid[l] = lid}

\* The enabled inbound links that a Question from address h with this lid names.
Matched(h, lid) == {l \in Inbound : enabled[l] /\ Host[l] = h /\ Lid[l] = lid}

\* Fault: only established links are searched.
CollidesUp(s, l) == {k \in FindLink(s) : state[k] = "UP"} \ {l} # {}

\* find_link_by_ssrc finds another link.
Collides(s, l) == FindLink(s) \ {l} # {}

\* handle_question_complete: no link of that address and lid, or its sync
\* source is another link's
QuestionRefused(p, lid, s) ==
    /\ QuestionComplete(p)
    /\ \A l \in Matched(pend[p].src, lid) : Collides(s, l)
    /\ FreePending(p)

\* handle_question_complete: the connection becomes link l's, in place of
\* the one l may still have
QuestionAccepted(p, lid, s, l) ==
    /\ QuestionComplete(p)
    /\ l \in Matched(pend[p].src, lid)
    /\ ~ Collides(s, l)
    /\ LET replaced == state[l] # "DOWN"
           closed   == IF replaced THEN {fd[l]} \ {NoFd} ELSE {}
           f        == pend[p].fd
       IN /\ session' = [session EXCEPT ![l] = IF state[l] = "UP" THEN ~@ ELSE @]
          /\ katimer' = [katimer EXCEPT ![l] = (IF replaced THEN Cancelled(@) ELSE @) + 1]
          /\ fd' = [fd EXCEPT ![l] = f]
          /\ open' = open \ closed
          /\ handler' = [Unregistered(closed) EXCEPT ![f] = l]
          /\ wr' = wr \ closed
    /\ state' = [state EXCEPT ![l] = "UP"]
    /\ ssrc' = [ssrc EXCEPT ![l] = s]
    /\ hsn' = [hsn EXCEPT ![l] = 0]
    /\ EmptyBuffers({l})
    /\ missed' = [missed EXCEPT ![l] = 0]
    /\ pend' = [pend EXCEPT ![p] = NoConn]
    /\ UNCHANGED <<phase, enabled, active, reconn>>

\* The same, when the segment that completed the Question holds one more
\* line: pending_on_line sees eight fields collected and calls
\* handle_question_complete again, with p->fd already given away (-1).
QuestionAcceptedTwice(p, lid, s, l) ==
    /\ QuestionComplete(p)
    /\ l \in Matched(pend[p].src, lid)
    /\ ~ Collides(s, l)
    /\ LET closed == {pend[p].fd} \cup ({fd[l]} \ {NoFd})
       IN /\ session' = [session EXCEPT ![l] = IF state[l] = "UP" THEN @ ELSE ~@]
          /\ katimer' = [katimer EXCEPT ![l] = (IF state[l] = "UP" THEN Cancelled(@) ELSE @) + 1]
          /\ fd' = [fd EXCEPT ![l] = NoFd]
          /\ open' = open \ closed
          /\ handler' = Unregistered(closed)
          /\ wr' = wr \ closed
    /\ state' = [state EXCEPT ![l] = "UP"]
    /\ ssrc' = [ssrc EXCEPT ![l] = s]
    /\ hsn' = [hsn EXCEPT ![l] = 0]
    /\ EmptyBuffers({l})
    /\ missed' = [missed EXCEPT ![l] = 0]
    /\ pend' = [pend EXCEPT ![p] = NoConn]
    /\ UNCHANGED <<phase, enabled, active, reconn>>

\* on_pending_readable: FIN or a receive error
PendingClosed(p) ==
    /\ Readable(p) /\ pend[p] # NoConn
    /\ FreePending(p)
    /\ ptimer' = [ptimer EXCEPT ![p] = Cancelled(@)]

\* pending_timeout_cb
PendingTimeout(p) ==
    /\ ptimer[p] > 0
    /\ ptimer' = [ptimer EXCEPT ![p] = @ - 1]
    /\ IF pend[p] # NoConn THEN FreePending(p)
       ELSE UNCHANGED <<phase, enabled, linkVars, pend, loopVars>>

-----------------------------------------------------------------------------
(* The specification *)

Lifecycle == Start \/ (\E en \in [Links -> BOOLEAN] : Reload(en)) \/ Stop

LinkEvent(l) ==
    \/ ReconnectTimer(l) \/ ConnectSucceeds(l) \/ ConnectFails(l)
    \/ AnswerLine(l) \/ AnswerAccepted(l) \/ AnswerRejected(l)
    \/ LinkBytes(l) \/ PeerClosed(l)
    \/ KeepaliveSent(l) \/ KeepaliveExpired(l)

SlotEvent(p) ==
    \/ \E h \in Hosts, f \in Fds : Accept(p, h, f)
    \/ QuestionLine(p) \/ PendingClosed(p) \/ PendingTimeout(p)
    \/ \E lid \in Lids, s \in Ssrcs : QuestionRefused(p, lid, s)
    \/ \E lid \in Lids, s \in Ssrcs, l \in Inbound : QuestionAccepted(p, lid, s, l)

Next ==
    \/ Lifecycle
    \/ \E l \in Links : LinkEvent(l)
    \/ \E p \in Slots : SlotEvent(p)
    \/ \E s \in Ssrcs, h \in Hosts : KeepaliveReceived(s, h)

\* Remote ends that wait for the Answer before they send anything else, as
\* section 4 of the protocol has it.
Spec == Init /\ [][Next]_vars

\* The event loop fires due timers and the kernel reports every connect().
Fairness ==
    /\ WF_vars(Start)
    /\ \A l \in Links :
         /\ WF_vars(ReconnectTimer(l))
         /\ WF_vars(ConnectSucceeds(l) \/ ConnectFails(l))
         /\ WF_vars(KeepaliveSent(l) \/ KeepaliveExpired(l))
         \* socket() and connect() do not fail for ever
         /\ SF_vars(ReconnectTimer(l) /\ state'[l] = "CONNECTING")
    /\ \A p \in Slots : WF_vars(PendingTimeout(p))

FairSpec == Spec /\ Fairness

\* Remote ends that send on without waiting.
SpecPipelined ==
    Init /\ [][Next \/ \E p \in Slots, lid \in Lids, s \in Ssrcs, l \in Inbound :
                         QuestionAcceptedTwice(p, lid, s, l)]_vars

-----------------------------------------------------------------------------
(* Properties *)

LinkOwns(l, f) == fd[l] = f
SlotOwns(p, f) == pend[p] # NoConn /\ pend[p].fd = f

\* Every TCP connection the process holds belongs to exactly one link or one
\* pending slot, and a link without a connection is down: nothing leaks, and
\* no close() hits a descriptor that has been given to somebody else, however
\* connections are replaced, refused, timed out and torn down by a reload.
FdOwnership ==
    /\ \A f \in Fds : f \in open <=> \/ \E l \in Links : LinkOwns(l, f)
                                    \/ \E p \in Slots : SlotOwns(p, f)
    /\ \A f \in Fds :
         /\ \A k, l \in Links : LinkOwns(k, f) /\ LinkOwns(l, f) => k = l
         /\ \A p, q \in Slots : SlotOwns(p, f) /\ SlotOwns(q, f) => p = q
         /\ \A l \in Links, p \in Slots : ~ (LinkOwns(l, f) /\ SlotOwns(p, f))
    /\ \A l \in Links : fd[l] = NoFd <=> state[l] = "DOWN"

\* Bytes and connect results are dispatched to the link or slot that owns the
\* descriptor, and to nobody once it is closed: a descriptor number that the
\* kernel reuses never reaches the callback of its former owner.
Dispatch ==
    /\ \A f \in Fds :
         /\ \A l \in Links :
              handler[f] = l <=> LinkOwns(l, f) /\ state[l] \in {"HANDSHAKING", "UP"}
         /\ \A p \in Slots : handler[f] = p <=> SlotOwns(p, f)
    /\ \A l \in Links : fd[l] \in wr <=> state[l] = "CONNECTING"
    /\ \A f \in wr : \E l \in Links : LinkOwns(l, f)

\* An outbound link that is wanted and down has exactly one reconnect timer
\* running and no other link has any; a link has exactly one keepalive timer
\* while it is up and none otherwise; a pending slot has its timeout exactly
\* while it is in use.  So no enabled link is stranded, none dials twice, and
\* no timer outlives what it was armed for.
TimerDiscipline ==
    /\ \A l \in Links :
         /\ reconn[l] = IF l \in Outbound /\ active[l] /\ state[l] = "DOWN" THEN 1 ELSE 0
         /\ katimer[l] = IF state[l] = "UP" THEN 1 ELSE 0
    /\ \A p \in Slots : ptimer[p] = IF pend[p] # NoConn THEN 1 ELSE 0

\* No two links answer to one sync source (protocol 4.1), whichever end
\* minted it and whatever handshakes ran at the same time: a voice or
\* keepalive datagram leads to at most one link.
SsrcUnique ==
    \A k, l \in Links : ssrc[k] # NoSsrc /\ ssrc[k] = ssrc[l] => k = l

\* A link that is disabled, by the file or by a later reload, is dark: no
\* connection, no dialing, no timer; so is every link once the program stops.
DarkWhenDisabled ==
    \A l \in Links : ~ (phase = "running" /\ enabled[l]) =>
        state[l] = "DOWN" /\ ssrc[l] = NoSsrc /\ reconn[l] = 0 /\ katimer[l] = 0

\* A connection starts with empty buffers: no piece of a line and no Answer
\* field of an earlier connection is spliced into what the new one says.
BuffersFresh ==
    [][\A l \in Links : fd'[l] # fd[l] /\ fd'[l] # NoFd => hsn'[l] = 0 /\ ~part'[l]]_vars

\* A link is up only over a connection of its own (protocol 3.1).
UpLinkHasConnection == \A l \in Links : state[l] = "UP" => fd[l] \in open

\* An established link whose remote has gone silent hears from it again or is
\* declared dead (protocol 10): keepalives that cease are noticed.
SilentLinkEnds ==
    \A l \in Links : (state[l] = "UP" /\ missed[l] > 0)
                     ~> (state[l] # "UP" \/ missed[l] = 0)

\* An enabled outbound link that is down is dialed again, unless a reload or
\* the end of the program makes it unwanted first.
DownLinkRedials ==
    \A l \in Outbound : (state[l] = "DOWN" /\ active[l])
                        ~> (state[l] = "CONNECTING" \/ ~active[l])

\* No accepted connection holds its pending slot for ever.
PendingEnds ==
    \A p \in Slots, f \in Fds :
        SlotOwns(p, f) ~> ~SlotOwns(p, f)

\* An outbound link that has sent its Question gets an Answer or is torn down.
HandshakeEnds ==
    \A l \in Outbound : state[l] = "HANDSHAKING" ~> state[l] # "HANDSHAKING"

\* The link service that the rest of the program relies on.
Service == INSTANCE LinkService WITH up <- [l \in Links |-> state[l] = "UP"]

\* Every session that ends, for whatever reason, is reported to the translator
\* by one call of translator_cccc_link_down, and sessions exist only on
\* enabled links of a running program.
ImplementsLinkService == Service!Spec
=============================================================================
