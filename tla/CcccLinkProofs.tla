--------------------------- MODULE CcccLinkProofs ---------------------------
(***************************************************************************)
(* The safety properties of CcccLink for any number of links, slots,       *)
(* descriptors and sync sources.  FdOwnership, Dispatch, TimerDiscipline   *)
(* and SsrcUnique support one another, and with Shape they are inductive.  *)
(* Then the two refinements that the links take part in: CcccLink          *)
(* implements LinkService, and System, with CcccLink under the bridge,     *)
(* implements Cc2obp, from which the properties of the calls follow for    *)
(* the program as a whole.                                                 *)
(***************************************************************************)
EXTENDS System, TLAPS

\* What the code never says but always keeps: a sync source exists from the
\* Question on; an inbound link has no state between down and up; only links in
\* use have a connection; lk->active is "enabled" once the program runs.
Shape ==
    /\ \A l \in Links : ssrc[l] = NoSsrc <=> state[l] \in {"DOWN", "CONNECTING"}
    /\ \A l \in Inbound : state[l] \in {"DOWN", "UP"}
    /\ \A l \in Links : state[l] # "DOWN" => active[l]
    /\ \A p \in Slots : pend[p] # NoConn => phase = "running"
    /\ active = [l \in Links |-> phase = "running" /\ enabled[l]]

\* The keepalive half of TimerDiscipline, which survives what disturbs the rest.
KaTimers == \A l \in Links : katimer[l] = IF state[l] = "UP" THEN 1 ELSE 0

\* Cancelling never counts below zero.
LEMMA CancelledType == \A n \in Nat : Cancelled(n) \in Nat
  BY DEF Cancelled

\* Emptying buffers leaves part a function to BOOLEAN.
LEMMA EmptyBuffersType ==
    ASSUME part \in [Links -> BOOLEAN], NEW S, EmptyBuffers(S)
    PROVE  part' \in [Links -> BOOLEAN]
  BY DEF EmptyBuffers

\* Connections keeps the types of all it assigns.
LEMMA ConnectionsType ==
    ASSUME TypeOK, NEW ending \in SUBSET Links, NEW D \in SUBSET Links,
           NEW dial \in [D -> Fds \cup {NoFd}], Connections(ending, dial)
    PROVE  /\ state' \in [Links -> LinkStates]
           /\ fd' \in [Links -> Fds \cup {NoFd}]
           /\ ssrc' \in [Links -> Ssrcs \cup {NoSsrc}]
           /\ hsn' \in [Links -> 0..(AnswerFields - 1)]
           /\ missed' \in [Links -> Nat]
           /\ katimer' \in [Links -> Nat]
           /\ session' \in [Links -> BOOLEAN]
           /\ open' \subseteq Fds
           /\ handler' \in [Fds -> Links \cup Slots \cup {NoOne}]
           /\ wr' \subseteq Fds
<1> DEFINE dialed == {l \in D : dial[l] # NoFd}
           new    == {dial[l] : l \in dialed}
           closed == {fd[l] : l \in ending} \ {NoFd}
<1>1. new \subseteq Fds
  OBVIOUS
<1>2. DOMAIN dial = D
  OBVIOUS
<1>3. /\ open' = (open \ closed) \cup new
      /\ handler' = [f \in Fds |-> IF f \in closed THEN NoOne ELSE handler[f]]
      /\ wr' = (wr \ closed) \cup new
  BY <1>2 DEF Connections, Unregistered
<1> HIDE DEF new, closed, dialed
<1>4. /\ open' \subseteq Fds /\ wr' \subseteq Fds
      /\ handler' \in [Fds -> Links \cup Slots \cup {NoOne}]
  BY <1>1, <1>3 DEF TypeOK
<1>5. /\ state' \in [Links -> LinkStates]
      /\ fd' \in [Links -> Fds \cup {NoFd}]
  <2>1. state' = [l \in Links |-> IF l \in ending THEN "DOWN"
                                  ELSE IF l \in dialed THEN "CONNECTING" ELSE state[l]]
    BY <1>2 DEF Connections, dialed
  <2>2. fd' = [l \in Links |-> IF l \in ending THEN NoFd
                               ELSE IF l \in D THEN dial[l] ELSE fd[l]]
    BY <1>2 DEF Connections
  <2> QED
    BY <2>1, <2>2 DEF TypeOK, LinkStates
<1>6. /\ ssrc' \in [Links -> Ssrcs \cup {NoSsrc}]
      /\ hsn' \in [Links -> 0..(AnswerFields - 1)]
      /\ missed' \in [Links -> Nat]
      /\ session' \in [Links -> BOOLEAN]
  <2>1. ssrc' = [l \in Links |-> IF l \in ending \cup D THEN NoSsrc ELSE ssrc[l]]
    BY <1>2 DEF Connections
  <2>2. hsn' = [l \in Links |-> IF l \in ending \cup D THEN 0 ELSE hsn[l]]
    BY <1>2 DEF Connections
  <2>3. session' = [l \in Links |-> IF l \in ending /\ state[l] = "UP"
                                    THEN ~session[l] ELSE session[l]]
    BY DEF Connections
  <2>4. missed' = missed
    BY DEF Connections
  <2>5. session' \in [Links -> BOOLEAN]
    BY <2>3 DEF TypeOK
  <2> QED
    BY <2>1, <2>2, <2>4, <2>5, NumbersAssumption DEF TypeOK
<1>7. katimer' \in [Links -> Nat]
  <2>1. katimer' = [l \in Links |-> IF l \in ending THEN Cancelled(katimer[l]) ELSE katimer[l]]
    BY DEF Connections
  <2>2. \A l \in Links : katimer[l] \in Nat /\ Cancelled(katimer[l]) \in Nat
    BY CancelledType DEF TypeOK
  <2> QED
    BY <2>1, <2>2
<1> QED
  BY <1>4, <1>5, <1>6, <1>7

\* After any set of teardowns and dials, descriptors have one owner each, and the
\* event loop knows them.
LEMMA ConnectionsKeeps ==
    ASSUME TypeOK, FdOwnership, Dispatch, SsrcUnique, Shape, KaTimers,
           NEW ending \in SUBSET Links, NEW D \in SUBSET Outbound,
           NEW dial \in [D -> Fds \cup {NoFd}],
           \A l \in ending : state[l] # "DOWN",
           \A l \in D : state[l] = "DOWN",
           Connections(ending, dial), UNCHANGED pend
    PROVE  /\ FdOwnership'
           /\ Dispatch'
           /\ SsrcUnique'
           /\ KaTimers'
<1> DEFINE dialed == {l \in D : dial[l] # NoFd}
           new    == {dial[l] : l \in dialed}
           closed == {fd[l] : l \in ending} \ {NoFd}
<1>1. new \subseteq Fds /\ new \cap (open \ closed) = {} /\ DOMAIN dial = D
      /\ \A k, l \in dialed : dial[k] = dial[l] => k = l
  BY DEF Connections
<1>2. /\ open' = (open \ closed) \cup new
      /\ handler' = [f \in Fds |-> IF f \in closed THEN NoOne ELSE handler[f]]
      /\ wr' = (wr \ closed) \cup new
  BY <1>1 DEF Connections, Unregistered
<1>3. \A l \in Links :
      /\ fd'[l] = IF l \in ending THEN NoFd ELSE IF l \in D THEN dial[l] ELSE fd[l]
      /\ state'[l] = IF l \in ending THEN "DOWN" ELSE IF l \in dialed THEN "CONNECTING" ELSE state[l]
      /\ ssrc'[l] = IF l \in ending \cup D THEN NoSsrc ELSE ssrc[l]
      /\ katimer'[l] = IF l \in ending THEN Cancelled(katimer[l]) ELSE katimer[l]
  BY <1>1 DEF Connections
<1>4. /\ \A l \in dialed : l \in Links \ ending /\ fd'[l] = dial[l] /\ dial[l] \in new
      /\ \A f \in new : \E l \in dialed : dial[l] = f
  BY <1>1, <1>3, LinksAssumption
<1>5. /\ \A l \in ending : fd[l] \in closed /\ fd[l] \in Fds
      /\ \A f \in closed : \E l \in ending : fd[l] = f
      /\ \A l \in Links \ ending : fd[l] \notin closed
      /\ \A p \in Slots : pend[p] # NoConn => pend[p].fd \notin closed
  BY DEF FdOwnership, LinkOwns, SlotOwns, TypeOK, PendingConns
<1> HIDE DEF dialed, new, closed
<1>6. FdOwnership'
  <2>1. ASSUME NEW f \in Fds
        PROVE  f \in open' <=> \/ \E l \in Links : fd'[l] = f
                               \/ \E p \in Slots : pend[p] # NoConn /\ pend[p].fd = f
    <3>1. CASE f \in new
      BY <3>1, <1>2, <1>4
    <3>2. CASE f \in closed /\ f \notin new
      <4>1. f \notin open'
        BY <3>2, <1>2
      <4>2. \A p \in Slots : ~(pend[p] # NoConn /\ pend[p].fd = f)
        BY <3>2, <1>5
      <4>3. \A l \in Links : fd'[l] # f
        BY <3>2, <1>3, <1>4, <1>5, NamesAssumption DEF dialed
      <4> QED
        BY <4>1, <4>2, <4>3
    <3>3. CASE f \notin closed /\ f \notin new
      <4>1. f \in open' <=> f \in open
        BY <3>3, <1>2
      <4>2. ASSUME NEW l \in Links, fd[l] = f PROVE fd'[l] = f
        BY <3>3, <4>2, <1>3, <1>5, NamesAssumption, LinksAssumption DEF FdOwnership
      <4>3. ASSUME NEW l \in Links, fd'[l] = f PROVE fd[l] = f
        BY <3>3, <4>3, <1>3, <1>4, NamesAssumption DEF dialed
      <4> QED
        BY <4>1, <4>2, <4>3 DEF FdOwnership, LinkOwns, SlotOwns
    <3> QED
      BY <3>1, <3>2, <3>3
  <2>2. ASSUME NEW f \in Fds
        PROVE  /\ \A k, l \in Links : fd'[k] = f /\ fd'[l] = f => k = l
               /\ \A l \in Links, p \in Slots : ~(fd'[l] = f /\ pend[p] # NoConn /\ pend[p].fd = f)
    BY <1>1, <1>3, <1>4, <1>5, NamesAssumption DEF FdOwnership, LinkOwns, SlotOwns, dialed
  <2>3. \A l \in Links : fd'[l] = NoFd <=> state'[l] = "DOWN"
    BY <1>1, <1>3, <1>4, NamesAssumption DEF FdOwnership, dialed
  <2> QED
    BY <2>1, <2>2, <2>3 DEF FdOwnership, LinkOwns, SlotOwns
<1>7. Dispatch'
  <2>1. \A l \in Links : fd'[l] \in wr' <=> state'[l] = "CONNECTING"
    BY <1>1, <1>2, <1>3, <1>4, <1>5, NamesAssumption DEF FdOwnership, Dispatch, LinkOwns, TypeOK, dialed
  <2>2. \A f \in wr' : \E l \in Links : fd'[l] = f
    <3> TAKE f \in wr'
    <3>1. CASE f \in new
      BY <3>1, <1>4
    <3>2. CASE f \in wr /\ f \notin closed
      <4>1. PICK l \in Links : fd[l] = f
        BY <3>2 DEF Dispatch, LinkOwns
      <4>2. l \notin ending /\ f # NoFd
        BY <3>2, <4>1, <1>5, NamesAssumption DEF TypeOK
      <4>3. l \notin D
        BY <4>1, <4>2 DEF FdOwnership
      <4> QED
        BY <4>1, <4>2, <4>3, <1>3
    <3> QED
      BY <3>1, <3>2, <1>2
  <2>3. \A f \in Fds, l \in Links :
          handler'[f] = l <=> fd'[l] = f /\ state'[l] \in {"HANDSHAKING", "UP"}
    BY <1>1, <1>2, <1>3, <1>4, <1>5, NamesAssumption DEF FdOwnership, Dispatch, LinkOwns, TypeOK, dialed
  <2>4. \A f \in Fds, p \in Slots : handler'[f] = p <=> pend[p] # NoConn /\ pend[p].fd = f
    BY <1>2, <1>5, NamesAssumption DEF Dispatch, SlotOwns
  <2> QED
    BY <2>1, <2>2, <2>3, <2>4 DEF Dispatch, LinkOwns, SlotOwns
<1>8. SsrcUnique'
  BY <1>3 DEF SsrcUnique
<1>9. KaTimers'
  BY <1>3, <1>4 DEF KaTimers, Cancelled, dialed
<1> QED
  BY <1>6, <1>7, <1>8, <1>9

\* The inductive invariant.
IInv == TypeOK /\ FdOwnership /\ Dispatch /\ TimerDiscipline /\ SsrcUnique /\ Shape

\* One lemma per action from here on.
LEMMA InitIInv == Init => IInv
<1> SUFFICES ASSUME Init PROVE IInv
  OBVIOUS
<1> USE DEF Init
<1>1. TypeOK
  BY NumbersAssumption DEF TypeOK, LinkStates
<1>2. FdOwnership
  BY NamesAssumption DEF FdOwnership, LinkOwns, SlotOwns
<1>3. Dispatch
  BY NamesAssumption DEF Dispatch, LinkOwns, SlotOwns
<1>4. TimerDiscipline /\ SsrcUnique /\ Shape
  BY DEF TimerDiscipline, SsrcUnique, Shape, Inbound
<1> QED
  BY <1>1, <1>2, <1>3, <1>4 DEF IInv

\* cccc_start: the outbound links in use are dialed, or wait on a reconnect timer.
LEMMA StartKeeps == ASSUME IInv, Start PROVE IInv'
<1> DEFINE D == {l \in Outbound : enabled[l]}
<1> USE DEF IInv
<1>1. PICK dial \in [D -> Fds \cup {NoFd}] :
        /\ Connections({}, dial)
        /\ EmptyBuffers(D)
        /\ reconn' = [l \in Links |-> IF l \in D /\ dial[l] = NoFd THEN reconn[l] + 1 ELSE reconn[l]]
  BY DEF Start
<1>2. /\ phase = "new" /\ phase' = "running" /\ active' = enabled /\ enabled' = enabled
      /\ pend' = pend /\ ptimer' = ptimer
  BY DEF Start, slotVars
<1>3. D \in SUBSET Links /\ D \in SUBSET Outbound /\ \A l \in Links : state[l] = "DOWN"
  BY <1>2, LinksAssumption DEF Shape
<1>4. FdOwnership' /\ Dispatch' /\ SsrcUnique' /\ KaTimers'
  BY <1>1, <1>2, <1>3, ConnectionsKeeps DEF TimerDiscipline, KaTimers
<1> HIDE DEF D
<1>5. TypeOK'
  <2>1. reconn' \in [Links -> Nat]
    BY <1>1 DEF TypeOK
  <2>2. part' \in [Links -> BOOLEAN]
    BY <1>1, EmptyBuffersType DEF TypeOK
  <2> QED
    BY <1>1, <1>2, <1>3, <2>1, <2>2, ConnectionsType DEF TypeOK
<1>6. \A l \in Links :
        /\ state'[l] = IF l \in D /\ dial[l] # NoFd THEN "CONNECTING" ELSE "DOWN"
        /\ ssrc'[l] = IF l \in D THEN NoSsrc ELSE ssrc[l]
  BY <1>1, <1>3 DEF Connections
<1>7. TimerDiscipline'
  <2>1. \A l \in Links : l \in D <=> l \in Outbound /\ active'[l]
    BY <1>2 DEF D
  <2>2. \A l \in Links : reconn[l] = 0
    BY <1>2 DEF TimerDiscipline, Shape
  <2>3. \A l \in Links : reconn'[l] = IF l \in D /\ state'[l] = "DOWN" THEN 1 ELSE 0
    BY <1>1, <1>6, <2>2
  <2> QED
    BY <1>2, <1>4, <2>1, <2>3 DEF TimerDiscipline, KaTimers
<1>8. Shape'
  BY <1>2, <1>3, <1>6, LinksAssumption DEF Shape, Inbound, TypeOK, D
<1> QED
  BY <1>4, <1>5, <1>7, <1>8

\* cccc_reload: links no longer in use end, links newly in use are dialed.
LEMMA ReloadKeeps == ASSUME IInv, NEW en \in [Links -> BOOLEAN], Reload(en) PROVE IInv'
<1> DEFINE D        == {l \in Outbound : en[l] /\ ~active[l]}
           stopping == {l \in Outbound : ~en[l] /\ active[l]}
           ending   == {l \in stopping \cup Inbound : ~en[l] /\ state[l] # "DOWN"}
<1> USE DEF IInv
<1>1. PICK dial \in [D -> Fds \cup {NoFd}] :
        /\ Connections(ending, dial)
        /\ EmptyBuffers(ending \cup D)
        /\ reconn' = [l \in Links |-> IF l \in stopping THEN Cancelled(reconn[l])
                                      ELSE IF l \in D /\ dial[l] = NoFd THEN reconn[l] + 1
                                      ELSE reconn[l]]
  BY DEF Reload
<1>2. /\ phase = "running" /\ phase' = "running" /\ active' = en /\ enabled' = en
      /\ pend' = pend /\ ptimer' = ptimer
  BY DEF Reload, slotVars
<1>3. /\ D \in SUBSET Outbound /\ D \in SUBSET Links /\ ending \in SUBSET Links
      /\ \A l \in ending : state[l] # "DOWN"
      /\ \A l \in D : state[l] = "DOWN" /\ l \notin ending
  BY LinksAssumption DEF Shape, Inbound
<1>4. FdOwnership' /\ Dispatch' /\ SsrcUnique' /\ KaTimers'
  BY <1>1, <1>2, <1>3, ConnectionsKeeps DEF TimerDiscipline, KaTimers
<1>5. \A l \in Links :
        /\ l \in D <=> l \in Outbound /\ en[l] /\ ~active[l]
        /\ l \in stopping <=> l \in Outbound /\ ~en[l] /\ active[l]
        /\ l \in ending <=> ~en[l] /\ state[l] # "DOWN"
  BY LinksAssumption DEF Shape, Inbound
<1> HIDE DEF D, stopping, ending
<1>6. TypeOK'
  <2>1. reconn' \in [Links -> Nat]
    BY <1>1, CancelledType DEF TypeOK
  <2>2. part' \in [Links -> BOOLEAN]
    BY <1>1, EmptyBuffersType DEF TypeOK
  <2> QED
    BY <1>1, <1>2, <1>3, <2>1, <2>2, ConnectionsType DEF TypeOK
<1>7. \A l \in Links :
        /\ state'[l] = IF l \in ending THEN "DOWN"
                       ELSE IF l \in D /\ dial[l] # NoFd THEN "CONNECTING" ELSE state[l]
        /\ ssrc'[l] = IF l \in ending \cup D THEN NoSsrc ELSE ssrc[l]
  BY <1>1, <1>3 DEF Connections
<1>8. TimerDiscipline'
  <2>1. ASSUME NEW l \in Links
        PROVE  reconn'[l] = IF l \in Outbound /\ en[l] /\ state'[l] = "DOWN" THEN 1 ELSE 0
    <3>1. reconn[l] = IF l \in Outbound /\ active[l] /\ state[l] = "DOWN" THEN 1 ELSE 0
      BY DEF TimerDiscipline
    <3>2. state[l] # "DOWN" => active[l]
      BY DEF Shape
    <3>3. reconn'[l] = IF l \in stopping THEN Cancelled(reconn[l])
                       ELSE IF l \in D /\ dial[l] = NoFd THEN reconn[l] + 1 ELSE reconn[l]
      BY <1>1
    <3>4. CASE l \in stopping
      BY <3>1, <3>3, <3>4, <1>5 DEF Cancelled
    <3>5. CASE l \in D
      BY <3>1, <3>3, <3>5, <1>3, <1>5, <1>7
    <3>6. CASE l \notin stopping /\ l \notin D
      BY <3>1, <3>2, <3>3, <3>6, <1>5, <1>7
    <3> QED
      BY <3>4, <3>5, <3>6
  <2> QED
    BY <1>2, <1>4, <2>1 DEF TimerDiscipline, KaTimers
<1>9. Shape'
  <2>1. \A l \in Links : /\ ssrc'[l] = NoSsrc <=> state'[l] \in {"DOWN", "CONNECTING"}
                         /\ state'[l] # "DOWN" => en[l]
    BY <1>3, <1>5, <1>7 DEF Shape
  <2>2. \A l \in Inbound : state'[l] \in {"DOWN", "UP"}
    BY <1>5, <1>7 DEF Shape, Inbound
  <2>3. en = [l \in Links |-> phase' = "running" /\ enabled'[l]]
    BY <1>2
  <2> QED
    BY <1>2, <2>1, <2>2, <2>3 DEF Shape
<1> QED
  BY <1>4, <1>6, <1>8, <1>9

\* cccc_stop ends everything.
LEMMA StopKeeps == ASSUME IInv, Stop PROVE IInv'
<1> USE DEF IInv
<1>1. /\ state' = [l \in Links |-> "DOWN"]
      /\ active' = [l \in Links |-> FALSE]
      /\ reconn' = [l \in Links |-> Cancelled(reconn[l])]
      /\ pend' = [p \in Slots |-> NoConn]
      /\ phase' = "stopped"
      /\ enabled' = enabled /\ missed' = missed
  BY DEF Stop
<1>2. /\ fd' = [l \in Links |-> NoFd]
      /\ ssrc' = [l \in Links |-> NoSsrc]
      /\ katimer' = [l \in Links |-> 0]
      /\ ptimer' = [p \in Slots |-> 0]
  <2>1. fd' = [l \in Links |-> NoFd]
    BY DEF Stop, FdOwnership
  <2>2. ssrc' = [l \in Links |-> NoSsrc]
    BY DEF Stop, Shape
  <2>3. katimer' = [l \in Links |-> 0]
    BY DEF Stop, TimerDiscipline, Cancelled
  <2>4. ptimer' = [p \in Slots |-> 0]
    BY DEF Stop, TimerDiscipline, Cancelled
  <2> QED
    BY <2>1, <2>2, <2>3, <2>4
<1>3. reconn' = [l \in Links |-> 0]
  BY <1>1 DEF TimerDiscipline, Cancelled
<1>4. /\ open' = {} /\ wr' = {}
      /\ handler' = [f \in Fds |-> NoOne]
  <2> DEFINE closed == ({fd[l] : l \in {k \in Links : state[k] # "DOWN"}} \ {NoFd})
                       \cup {pend[p].fd : p \in {q \in Slots : pend[q] # NoConn}}
  <2>1. /\ open' = open \ closed /\ wr' = wr \ closed
        /\ handler' = [f \in Fds |-> IF f \in closed THEN NoOne ELSE handler[f]]
    BY DEF Stop, Unregistered
  <2>2. \A f \in open : f \in closed
    BY NamesAssumption DEF FdOwnership, LinkOwns, SlotOwns, TypeOK
  <2>3. \A f \in Fds : f \in closed \/ handler[f] = NoOne
    <3> SUFFICES ASSUME NEW f \in Fds, handler[f] # NoOne PROVE f \in open
      BY <2>2
    <3>1. handler[f] \in Links \/ handler[f] \in Slots
      BY DEF TypeOK
    <3>2. CASE handler[f] \in Links
      BY <3>2 DEF Dispatch, FdOwnership
    <3>3. CASE handler[f] \in Slots
      BY <3>3 DEF Dispatch, FdOwnership
    <3> QED
      BY <3>1, <3>2, <3>3
  <2>4. wr \subseteq open
    BY DEF Dispatch, FdOwnership, TypeOK
  <2> QED
    BY <2>1, <2>2, <2>3, <2>4 DEF TypeOK
<1>5. TypeOK'
  <2>1. hsn' \in [Links -> 0..(AnswerFields - 1)]
    BY NumbersAssumption DEF Stop, TypeOK
  <2>2. part' \in [Links -> BOOLEAN]
    BY EmptyBuffersType DEF Stop, TypeOK
  <2>3. session' \in [Links -> BOOLEAN]
    BY DEF Stop, TypeOK
  <2> QED
    BY <1>1, <1>2, <1>3, <1>4, <2>1, <2>2, <2>3 DEF TypeOK, LinkStates
<1>6. FdOwnership' /\ Dispatch'
  BY <1>1, <1>2, <1>4, NamesAssumption DEF FdOwnership, Dispatch, LinkOwns, SlotOwns
<1>7. TimerDiscipline' /\ SsrcUnique' /\ Shape'
  BY <1>1, <1>2, <1>3 DEF TimerDiscipline, SsrcUnique, Shape, Inbound
<1> QED
  BY <1>5, <1>6, <1>7

\* reconnect_cb dials again.
LEMMA ReconnectTimerKeeps == ASSUME IInv, NEW l \in Links, ReconnectTimer(l) PROVE IInv'
<1> USE DEF IInv
<1>1. /\ l \in Outbound /\ active[l] /\ state[l] = "DOWN" /\ reconn[l] = 1
      /\ phase' = phase /\ enabled' = enabled /\ active' = active
      /\ pend' = pend /\ ptimer' = ptimer
  BY DEF ReconnectTimer, TimerDiscipline, slotVars
<1>2. PICK f \in Fds \cup {NoFd} :
        /\ Connections({}, [k \in {l} |-> f])
        /\ EmptyBuffers({l})
        /\ reconn' = [reconn EXCEPT ![l] = IF f = NoFd THEN @ ELSE @ - 1]
  BY <1>1 DEF ReconnectTimer
<1> DEFINE dial == [k \in {l} |-> f]
<1>3. dial \in [{l} -> Fds \cup {NoFd}] /\ {l} \in SUBSET Outbound /\ {l} \in SUBSET Links
      /\ Connections({}, dial)
  BY <1>1, <1>2
<1> HIDE DEF dial
<1>4. FdOwnership' /\ Dispatch' /\ SsrcUnique' /\ KaTimers'
  BY <1>1, <1>3, ConnectionsKeeps, ZenonT(30) DEF TimerDiscipline, KaTimers
<1>5. TypeOK'
  <2>1. reconn' \in [Links -> Nat]
    BY <1>1, <1>2 DEF TypeOK
  <2>2. part' \in [Links -> BOOLEAN]
    BY <1>2, EmptyBuffersType DEF TypeOK
  <2> QED
    BY <1>1, <1>3, <2>1, <2>2, ConnectionsType DEF TypeOK
<1>6. \A k \in Links :
        /\ state'[k] = IF k = l /\ f # NoFd THEN "CONNECTING" ELSE state[k]
        /\ ssrc'[k] = IF k = l THEN NoSsrc ELSE ssrc[k]
  BY <1>3 DEF Connections, dial
<1>7. TimerDiscipline'
  BY <1>1, <1>2, <1>4, <1>6 DEF TimerDiscipline, KaTimers, TypeOK
<1>8. Shape'
  BY <1>1, <1>6, LinksAssumption DEF Shape, Inbound, TypeOK
<1> QED
  BY <1>4, <1>5, <1>7, <1>8

\* teardown_link_connection keeps the invariant of a link that is not down.
LEMMA TeardownKeeps ==
    ASSUME IInv, NEW l \in Links, state[l] # "DOWN", Teardown(l), part' \in [Links -> BOOLEAN]
    PROVE  IInv'
<1> USE DEF IInv
<1> DEFINE dial == [k \in {} |-> NoFd]
<1>1. /\ Connections({l}, dial)
      /\ phase' = phase /\ enabled' = enabled /\ active' = active
      /\ pend' = pend /\ ptimer' = ptimer
      /\ reconn' = [reconn EXCEPT ![l] = IF l \in Outbound /\ active[l] THEN @ + 1 ELSE @]
  BY DEF Teardown, Redial, slotVars
<1>2. dial \in [{} -> Fds \cup {NoFd}] /\ {} \in SUBSET Outbound /\ {l} \in SUBSET Links
      /\ DOMAIN dial = {}
  OBVIOUS
<1> HIDE DEF dial
<1>3. FdOwnership' /\ Dispatch' /\ SsrcUnique' /\ KaTimers'
  BY <1>1, <1>2, ConnectionsKeeps DEF TimerDiscipline, KaTimers
<1>4. TypeOK'
  <2>1. reconn' \in [Links -> Nat]
    BY <1>1 DEF TypeOK
  <2> QED
    BY <1>1, <1>2, <2>1, ConnectionsType DEF TypeOK
<1>5. \A k \in Links :
        /\ state'[k] = IF k = l THEN "DOWN" ELSE state[k]
        /\ ssrc'[k] = IF k = l THEN NoSsrc ELSE ssrc[k]
  BY <1>1, <1>2 DEF Connections
<1>6. TimerDiscipline'
  BY <1>1, <1>3, <1>5 DEF TimerDiscipline, KaTimers, TypeOK
<1>7. Shape'
  BY <1>1, <1>5, LinksAssumption DEF Shape, Inbound, TypeOK
<1> QED
  BY <1>3, <1>4, <1>6, <1>7

\* Both outcomes of connect().
LEMMA ConnectKeeps ==
    ASSUME IInv, NEW l \in Links, ConnectSucceeds(l) \/ ConnectFails(l)
    PROVE  IInv'
<1> USE DEF IInv
<1> DEFINE f == fd[l]
<1>1. /\ f \in Fds /\ f \in wr /\ state[l] = "CONNECTING" /\ active[l]
      /\ l \in Outbound /\ phase = "running"
      /\ \A k \in Links : fd[k] = f => k = l
      /\ \A p \in Slots : pend[p] # NoConn => pend[p].fd # f
  <2>1. f \in wr
    BY DEF ConnectSucceeds, ConnectFails
  <2>2. f \in Fds /\ state[l] = "CONNECTING"
    BY <2>1 DEF TypeOK, Dispatch
  <2>3. active[l] /\ phase = "running" /\ l \in Outbound
    BY <2>2, LinksAssumption DEF Shape, Inbound
  <2>4. /\ \A k \in Links : fd[k] = f => k = l
        /\ \A p \in Slots : pend[p] # NoConn => pend[p].fd # f
    BY <2>2 DEF FdOwnership, LinkOwns, SlotOwns
  <2> QED
    BY <2>1, <2>2, <2>3, <2>4
<1>2. CASE ConnectSucceeds(l)
  <2>1. PICK s \in FreshSsrcs : ssrc' = [ssrc EXCEPT ![l] = s]
    BY <1>2 DEF ConnectSucceeds
  <2>2. /\ state' = [state EXCEPT ![l] = "HANDSHAKING"]
        /\ wr' = wr \ {f}
        /\ handler' = [handler EXCEPT ![f] = l]
        /\ UNCHANGED <<phase, enabled, active, fd, hsn, part, missed, katimer, reconn,
                       session, pend, ptimer, open>>
    BY <1>2 DEF ConnectSucceeds, slotVars
  <2>3. s \in Ssrcs /\ s # NoSsrc /\ \A k \in Links : ssrc[k] # s
    BY NamesAssumption DEF FreshSsrcs, FindLink
  <2> HIDE DEF f
  <2>4. TypeOK'
    BY <1>1, <2>1, <2>2, <2>3 DEF TypeOK, LinkStates
  <2>5. FdOwnership'
    BY <1>1, <2>2, SMTT(30) DEF FdOwnership, LinkOwns, SlotOwns, TypeOK
  <2>6. Dispatch'
    BY <1>1, <2>2, NamesAssumption DEF Dispatch, LinkOwns, SlotOwns, TypeOK, f
  <2>7. SsrcUnique' /\ Shape'
    BY <1>1, <2>1, <2>2, <2>3 DEF SsrcUnique, Shape, TypeOK, Inbound
  <2>8. TimerDiscipline'
    BY <1>1, <2>2 DEF TimerDiscipline, TypeOK
  <2> QED
    BY <2>4, <2>5, <2>6, <2>7, <2>8
<1>3. CASE ConnectFails(l)
  <2>1. /\ wr' = wr \ {f}
        /\ open' = open \ {f}
        /\ fd' = [fd EXCEPT ![l] = NoFd]
        /\ state' = [state EXCEPT ![l] = "DOWN"]
        /\ reconn' = [reconn EXCEPT ![l] = @ + 1]
        /\ UNCHANGED <<phase, enabled, active, ssrc, hsn, part, missed, katimer, session,
                       pend, ptimer, handler>>
    BY <1>1, <1>3 DEF ConnectFails, slotVars
  <2> HIDE DEF f
  <2>2. TypeOK'
    BY <1>1, <2>1 DEF TypeOK, LinkStates
  <2>3. FdOwnership'
    <3>1. \A k \in Links : /\ fd'[k] = IF k = l THEN NoFd ELSE fd[k]
                           /\ state'[k] = IF k = l THEN "DOWN" ELSE state[k]
      BY <2>1 DEF TypeOK
    <3>2. ASSUME NEW g \in Fds
          PROVE  g \in open' <=> \/ \E k \in Links : fd'[k] = g
                                 \/ \E p \in Slots : pend[p] # NoConn /\ pend[p].fd = g
      <4>1. CASE g = f
        BY <4>1, <1>1, <2>1, <3>1, NamesAssumption
      <4>2. CASE g # f
        BY <4>2, <1>1, <2>1, <3>1, NamesAssumption DEF FdOwnership, LinkOwns, SlotOwns, f
      <4> QED
        BY <4>1, <4>2
    <3> QED
      BY <1>1, <2>1, <3>1, <3>2, NamesAssumption DEF FdOwnership, LinkOwns, SlotOwns
  <2>4. Dispatch'
    BY <1>1, <2>1, NamesAssumption DEF Dispatch, FdOwnership, LinkOwns, SlotOwns, TypeOK, f
  <2>5. SsrcUnique' /\ Shape' /\ TimerDiscipline'
    BY <1>1, <2>1 DEF SsrcUnique, Shape, TimerDiscipline, TypeOK, Inbound
  <2> QED
    BY <2>2, <2>3, <2>4, <2>5
<1> QED
  BY <1>2, <1>3

\* Steps that change no connection, no owner and no timer of a link that stays
\* in its state.
LEMMA QuietKeeps ==
    ASSUME IInv, TypeOK',
           UNCHANGED <<phase, enabled, active, state, fd, ssrc, katimer, reconn, pend,
                       ptimer, open, handler, wr>>
    PROVE  IInv'
  BY DEF IInv, FdOwnership, Dispatch, TimerDiscipline, SsrcUnique, Shape, LinkOwns, SlotOwns

\* The steps that only count lines, bytes and keepalive expiries.
LEMMA LinkQuietKeeps ==
    ASSUME IInv, NEW l \in Links,
           AnswerLine(l) \/ LinkBytes(l) \/ KeepaliveSent(l)
    PROVE  IInv'
<1>1. CASE AnswerLine(l)
  <2>1. TypeOK'
    BY <1>1, NumbersAssumption DEF IInv, AnswerLine, TypeOK, slotVars, loopVars
  <2> QED
    BY <1>1, <2>1, QuietKeeps DEF AnswerLine, slotVars, loopVars
<1>2. CASE LinkBytes(l)
  <2>1. TypeOK'
    BY <1>2 DEF IInv, LinkBytes, TypeOK, slotVars, loopVars
  <2> QED
    BY <1>2, <2>1, QuietKeeps DEF LinkBytes, slotVars, loopVars
<1>3. CASE KeepaliveSent(l)
  <2>1. state[l] = "UP"
    BY <1>3 DEF IInv, KeepaliveSent, TimerDiscipline
  <2>2. TypeOK'
    BY <1>3, <2>1 DEF IInv, KeepaliveSent, TypeOK, slotVars, loopVars
  <2> QED
    BY <1>3, <2>1, <2>2, QuietKeeps DEF KeepaliveSent, slotVars, loopVars
<1> QED
  BY <1>1, <1>2, <1>3

\* A keepalive touches only the time it came at.
LEMMA KeepaliveReceivedKeeps ==
    ASSUME IInv, NEW s \in Ssrcs, NEW h \in Hosts, KeepaliveReceived(s, h)
    PROVE  IInv'
<1>1. TypeOK'
  BY DEF IInv, KeepaliveReceived, FindLink, TypeOK, slotVars, loopVars
<1> QED
  BY <1>1, QuietKeeps DEF KeepaliveReceived, slotVars, loopVars

\* The answer an outbound link waits for brings it up.
LEMMA AnswerAcceptedKeeps ==
    ASSUME IInv, NEW l \in Links, AnswerAccepted(l)
    PROVE  IInv'
<1> USE DEF IInv
<1>1. /\ state[l] = "HANDSHAKING"
      /\ state' = [state EXCEPT ![l] = "UP"]
      /\ katimer' = [katimer EXCEPT ![l] = @ + 1]
      /\ UNCHANGED <<phase, enabled, active, fd, ssrc, reconn, session, pend, ptimer,
                     open, handler, wr>>
  BY DEF AnswerAccepted, slotVars, loopVars
<1>2. TypeOK'
  BY <1>1, NumbersAssumption DEF AnswerAccepted, TypeOK, LinkStates
<1>3. FdOwnership' /\ Dispatch'
  BY <1>1 DEF FdOwnership, Dispatch, LinkOwns, SlotOwns, TypeOK
<1>4. SsrcUnique' /\ Shape' /\ TimerDiscipline'
  BY <1>1 DEF SsrcUnique, Shape, TimerDiscipline, TypeOK
<1> QED
  BY <1>2, <1>3, <1>4

\* The three ways one link alone goes down.
LEMMA LinkEndsKeeps ==
    ASSUME IInv, NEW l \in Links, AnswerRejected(l) \/ PeerClosed(l) \/ KeepaliveExpired(l)
    PROVE  IInv'
<1>1. state[l] # "DOWN"
  BY DEF IInv, AnswerRejected, PeerClosed, KeepaliveExpired, Readable, Dispatch, TypeOK
<1>2. Teardown(l)
  BY DEF AnswerRejected, PeerClosed, KeepaliveExpired
<1>3. part' \in [Links -> BOOLEAN]
  BY EmptyBuffersType DEF IInv, TypeOK, AnswerRejected, PeerClosed, KeepaliveExpired
<1> QED
  BY <1>1, <1>2, <1>3, TeardownKeeps

\* A fresh descriptor goes to a free slot.
LEMMA AcceptKeeps ==
    ASSUME IInv, NEW p \in Slots, NEW h \in Hosts, NEW f \in Fds, Accept(p, h, f)
    PROVE  IInv'
<1> USE DEF IInv
<1> DEFINE conn == [fd |-> f, src |-> h, qn |-> 0]
<1>1. /\ phase = "running" /\ pend[p] = NoConn /\ f \notin open
      /\ pend' = [pend EXCEPT ![p] = conn]
      /\ ptimer' = [ptimer EXCEPT ![p] = @ + 1]
      /\ open' = open \cup {f}
      /\ handler' = [handler EXCEPT ![f] = p]
      /\ UNCHANGED <<phase, enabled, active, state, fd, ssrc, hsn, part, missed, katimer,
                     reconn, session, wr>>
  BY DEF Accept, linkVars
<1>2. conn \in PendingConns /\ conn.fd = f /\ conn # NoConn
  BY NumbersAssumption, NoConnAssumption DEF PendingConns
<1>3. /\ \A k \in Links : fd[k] # f
      /\ \A q \in Slots : ~ SlotOwns(q, f)
  BY <1>1 DEF FdOwnership, LinkOwns
<1> HIDE DEF conn
<1>4. TypeOK'
  BY <1>1, <1>2 DEF TypeOK
<1>5. \A q \in Slots, g \in Fds : SlotOwns(q, g)' <=> IF q = p THEN g = f ELSE SlotOwns(q, g)
  BY <1>1, <1>2 DEF SlotOwns, TypeOK
<1>6. \A k \in Links, g \in Fds : LinkOwns(k, g)' <=> LinkOwns(k, g)
  BY <1>1 DEF LinkOwns
<1>7. FdOwnership'
  <2>1. \A g \in Fds : ~ SlotOwns(p, g)
    BY <1>1 DEF SlotOwns
  <2> QED
    BY <1>1, <1>3, <1>5, <1>6, <2>1 DEF FdOwnership, LinkOwns
<1>8. Dispatch'
  <2>1. \A g \in Fds : handler'[g] = IF g = f THEN p ELSE handler[g]
    BY <1>1 DEF TypeOK
  <2>2. \A k \in Links, g \in Fds :
          handler'[g] = k <=> LinkOwns(k, g)' /\ state'[k] \in {"HANDSHAKING", "UP"}
    BY <1>1, <1>3, <1>6, <2>1, NamesAssumption DEF Dispatch, LinkOwns
  <2>3. \A q \in Slots, g \in Fds : handler'[g] = q <=> SlotOwns(q, g)'
    <3>1. \A g \in Fds : ~ SlotOwns(p, g)
      BY <1>1 DEF SlotOwns
    <3> QED
      BY <1>3, <1>5, <2>1, <3>1 DEF Dispatch
  <2>4. /\ \A k \in Links : fd'[k] \in wr' <=> state'[k] = "CONNECTING"
        /\ \A g \in wr' : \E k \in Links : fd'[k] = g
    BY <1>1 DEF Dispatch, LinkOwns
  <2> QED
    BY <2>2, <2>3, <2>4 DEF Dispatch, LinkOwns
<1>9. SsrcUnique' /\ Shape' /\ TimerDiscipline'
  BY <1>1, <1>2 DEF SsrcUnique, Shape, TimerDiscipline, TypeOK
<1> QED
  BY <1>4, <1>7, <1>8, <1>9

\* A line read into a pending slot that is not yet a Question.
LEMMA QuestionLineKeeps ==
    ASSUME IInv, NEW p \in Slots, QuestionLine(p)
    PROVE  IInv'
<1> USE DEF IInv
<1> DEFINE conn == [pend[p] EXCEPT !.qn = @ + 1]
<1>1. /\ pend[p] # NoConn /\ pend[p].qn + 1 < QuestionFields
      /\ pend' = [pend EXCEPT ![p] = conn]
      /\ UNCHANGED <<phase, enabled, active, state, fd, ssrc, hsn, part, missed, katimer,
                     reconn, session, ptimer, open, handler, wr>>
  BY DEF QuestionLine, linkVars, loopVars
<1>2. pend[p] \in PendingConns
  BY <1>1 DEF TypeOK
<1>3. conn \in PendingConns /\ conn.fd = pend[p].fd /\ conn # NoConn
  BY <1>1, <1>2, NumbersAssumption, NoConnAssumption DEF PendingConns
<1> HIDE DEF conn
<1>4. TypeOK'
  BY <1>1, <1>3 DEF TypeOK
<1>5. \A q \in Slots : /\ pend'[q] # NoConn <=> pend[q] # NoConn
                       /\ pend[q] # NoConn => pend'[q].fd = pend[q].fd
  BY <1>1, <1>3 DEF TypeOK
<1>6. \A g \in Fds : /\ \A q \in Slots : SlotOwns(q, g)' <=> SlotOwns(q, g)
                     /\ \A k \in Links : LinkOwns(k, g)' <=> LinkOwns(k, g)
  BY <1>1, <1>5 DEF SlotOwns, LinkOwns
<1>7. FdOwnership'
  BY <1>1, <1>6 DEF FdOwnership
<1>8. Dispatch'
  <2>1. /\ \A k \in Links : fd'[k] \in wr' <=> state'[k] = "CONNECTING"
        /\ \A g \in wr' : \E k \in Links : fd'[k] = g
    BY <1>1 DEF Dispatch, LinkOwns
  <2> QED
    BY <1>1, <1>6, <2>1 DEF Dispatch, LinkOwns
<1>9. SsrcUnique' /\ Shape' /\ TimerDiscipline'
  BY <1>1, <1>5 DEF SsrcUnique, Shape, TimerDiscipline
<1> QED
  BY <1>4, <1>7, <1>8, <1>9

\* A pending connection is closed and its timer goes with it.
LEMMA FreePendingKeeps ==
    ASSUME IInv, NEW p \in Slots, pend[p] # NoConn, FreePending(p),
           ptimer' = [ptimer EXCEPT ![p] = 0]
    PROVE  IInv'
<1> USE DEF IInv
<1> DEFINE f == pend[p].fd
<1>1. /\ pend' = [pend EXCEPT ![p] = NoConn]
      /\ open' = open \ {f}
      /\ handler' = [g \in Fds |-> IF g = f THEN NoOne ELSE handler[g]]
      /\ UNCHANGED <<phase, enabled, active, state, fd, ssrc, hsn, part, missed, katimer,
                     reconn, session, wr>>
  BY DEF FreePending, Unregistered, linkVars
<1>2. f \in Fds /\ SlotOwns(p, f)
  BY DEF TypeOK, PendingConns, SlotOwns
<1> HIDE DEF f
<1>3. TypeOK'
  BY <1>1 DEF TypeOK
<1>4. \A g \in Fds : /\ \A q \in Slots : SlotOwns(q, g)' <=> q # p /\ SlotOwns(q, g)
                     /\ \A k \in Links : LinkOwns(k, g)' <=> LinkOwns(k, g)
  BY <1>1 DEF SlotOwns, LinkOwns, TypeOK
<1>5. \A g \in Fds : SlotOwns(p, g) => g = f
  BY DEF SlotOwns, f
<1>6. FdOwnership'
  BY <1>1, <1>2, <1>4, <1>5 DEF FdOwnership
<1>7. Dispatch'
  <2>1. \A k \in Links : fd[k] # f
    BY <1>2 DEF FdOwnership, LinkOwns
  <2>3. \A q \in Slots, g \in Fds : handler'[g] = q <=> SlotOwns(q, g)'
    BY <1>1, <1>2, <1>4, <1>5, NamesAssumption DEF Dispatch, FdOwnership
  <2>4. \A k \in Links, g \in Fds :
          handler'[g] = k <=> LinkOwns(k, g)' /\ state'[k] \in {"HANDSHAKING", "UP"}
    BY <1>1, <2>1, <1>4, NamesAssumption DEF Dispatch, LinkOwns
  <2>5. /\ \A k \in Links : fd'[k] \in wr' <=> state'[k] = "CONNECTING"
        /\ \A g \in wr' : \E k \in Links : fd'[k] = g
    BY <1>1 DEF Dispatch, LinkOwns
  <2> QED
    BY <2>3, <2>4, <2>5 DEF Dispatch, LinkOwns
<1>8. SsrcUnique' /\ Shape' /\ TimerDiscipline'
  BY <1>1 DEF SsrcUnique, Shape, TimerDiscipline, TypeOK
<1> QED
  BY <1>3, <1>6, <1>7, <1>8

\* A complete Question gives the connection to link l, whose earlier
\* connection, if it has one, is closed.
LEMMA QuestionAcceptedKeeps ==
    ASSUME IInv, NEW p \in Slots, NEW lid \in Lids, NEW s \in Ssrcs, NEW l \in Inbound,
           QuestionAccepted(p, lid, s, l)
    PROVE  IInv'
<1> USE DEF IInv
<1> DEFINE f == pend[p].fd
           closed == {g \in Fds : fd[l] = g}
<1>1. /\ l \in Links /\ l \notin Outbound /\ state[l] \in {"DOWN", "UP"} /\ enabled[l]
      /\ pend[p] # NoConn /\ phase = "running" /\ ptimer[p] = 1
      /\ active[l]
      /\ \A k \in Links : ssrc[k] = s => k = l
  BY DEF QuestionAccepted, QuestionComplete, Matched, Collides, FindLink, Shape, Inbound,
         TimerDiscipline
<1>2. f \in Fds /\ SlotOwns(p, f) /\ \A g \in Fds : SlotOwns(p, g) => g = f
  BY <1>1 DEF TypeOK, PendingConns, SlotOwns
<1>3. \A k \in Links : fd[k] # f
  BY <1>2 DEF FdOwnership, LinkOwns
<1>4. /\ state' = [state EXCEPT ![l] = "UP"]
      /\ ssrc' = [ssrc EXCEPT ![l] = s]
      /\ fd' = [fd EXCEPT ![l] = f]
      /\ pend' = [pend EXCEPT ![p] = NoConn]
      /\ ptimer' = [ptimer EXCEPT ![p] = 0]
      /\ UNCHANGED <<phase, enabled, active, reconn>>
  BY <1>1 DEF QuestionAccepted, QuestionComplete, Cancelled, TypeOK
<1>5. katimer' = [katimer EXCEPT ![l] = 1]
  <2>1. katimer' = [katimer EXCEPT ![l] =
                      (IF state[l] # "DOWN" THEN Cancelled(katimer[l]) ELSE katimer[l]) + 1]
    BY DEF QuestionAccepted
  <2>2. katimer[l] = IF state[l] = "UP" THEN 1 ELSE 0
    BY <1>1 DEF TimerDiscipline
  <2>3. (IF state[l] # "DOWN" THEN Cancelled(katimer[l]) ELSE katimer[l]) + 1 = 1
    BY <1>1, <2>2 DEF Cancelled
  <2> QED
    BY <2>1, <2>3
<1>6. /\ open' = open \ closed
      /\ wr' = wr \ closed
      /\ handler' = [g \in Fds |-> IF g = f THEN l ELSE IF g \in closed THEN NoOne ELSE handler[g]]
  <2> DEFINE gone == IF state[l] # "DOWN" THEN {fd[l]} \ {NoFd} ELSE {}
  <2>1. /\ open' = open \ gone
        /\ wr' = wr \ gone
        /\ handler' = [[g \in Fds |-> IF g \in gone THEN NoOne ELSE handler[g]] EXCEPT ![f] = l]
    BY DEF QuestionAccepted, Unregistered
  <2>2. gone = closed
    BY <1>1, NamesAssumption DEF FdOwnership, TypeOK
  <2> HIDE DEF gone, closed, f
  <2> QED
    BY <1>2, <2>1, <2>2
<1>7. \A g \in closed : fd[l] = g /\ g # f
  BY <1>1, <1>3
<1>8. TypeOK'
  <2>1. hsn' \in [Links -> 0..(AnswerFields - 1)]
    <3>1. hsn' = [hsn EXCEPT ![l] = 0] /\ 0 \in 0..(AnswerFields - 1)
      BY NumbersAssumption DEF QuestionAccepted
    <3> QED
      BY <3>1 DEF TypeOK
  <2>2. missed' \in [Links -> Nat] /\ session' \in [Links -> BOOLEAN]
    BY <1>1 DEF QuestionAccepted, TypeOK
  <2>3. part' \in [Links -> BOOLEAN]
    BY EmptyBuffersType DEF QuestionAccepted, TypeOK
  <2> HIDE DEF f, closed
  <2> QED
    BY <1>1, <1>2, <1>4, <1>5, <1>6, <2>1, <2>2, <2>3 DEF TypeOK, LinkStates
<1> HIDE DEF f
<1>9. /\ \A k \in Links, g \in Fds : LinkOwns(k, g)' <=> IF k = l THEN g = f ELSE LinkOwns(k, g)
      /\ \A q \in Slots, g \in Fds : SlotOwns(q, g)' <=> q # p /\ SlotOwns(q, g)
  BY <1>1, <1>4 DEF LinkOwns, SlotOwns, TypeOK
<1>10. /\ \A g \in closed : LinkOwns(l, g)
       /\ \A g \in Fds : LinkOwns(l, g) => g \in closed
  BY DEF LinkOwns
<1> HIDE DEF closed
<1>11. FdOwnership'
  <2>1. ASSUME NEW g \in Fds
        PROVE  g \in open' <=> \/ \E k \in Links : LinkOwns(k, g)'
                               \/ \E q \in Slots : SlotOwns(q, g)'
    <3>1. CASE g = f
      BY <3>1, <1>1, <1>2, <1>6, <1>7, <1>9 DEF FdOwnership
    <3>2. CASE g \in closed
      BY <3>2, <1>6, <1>7, <1>9, <1>10, <1>1 DEF FdOwnership
    <3>3. CASE g # f /\ g \notin closed
      BY <3>3, <1>1, <1>2, <1>6, <1>9, <1>10 DEF FdOwnership
    <3> QED
      BY <3>1, <3>2, <3>3
  <2>2. ASSUME NEW g \in Fds
        PROVE  /\ \A j, k \in Links : LinkOwns(j, g)' /\ LinkOwns(k, g)' => j = k
               /\ \A q, r \in Slots : SlotOwns(q, g)' /\ SlotOwns(r, g)' => q = r
               /\ \A k \in Links, q \in Slots : ~ (LinkOwns(k, g)' /\ SlotOwns(q, g)')
    BY <1>2, <1>3, <1>9 DEF FdOwnership, LinkOwns
  <2>3. \A k \in Links : fd'[k] = NoFd <=> state'[k] = "DOWN"
    BY <1>1, <1>2, <1>4, NamesAssumption DEF FdOwnership, TypeOK
  <2> QED
    BY <2>1, <2>2, <2>3 DEF FdOwnership
<1>12. Dispatch'
  <2>1. \A k \in Links, g \in Fds :
          handler'[g] = k <=> LinkOwns(k, g)' /\ state'[k] \in {"HANDSHAKING", "UP"}
    <3> TAKE k \in Links, g \in Fds
    <3>1. state'[k] = IF k = l THEN "UP" ELSE state[k]
      BY <1>1, <1>4 DEF TypeOK
    <3>2. handler[g] = k <=> LinkOwns(k, g) /\ state[k] \in {"HANDSHAKING", "UP"}
      BY DEF Dispatch
    <3>3. g \in closed /\ LinkOwns(k, g) => k = l
      BY <1>1, <1>10 DEF FdOwnership
    <3> QED
      BY <1>1, <1>3, <1>6, <1>9, <1>10, <3>1, <3>2, <3>3, NamesAssumption DEF LinkOwns
  <2>2. \A q \in Slots, g \in Fds : handler'[g] = q <=> SlotOwns(q, g)'
    <3> TAKE q \in Slots, g \in Fds
    <3>1. handler[g] = q <=> SlotOwns(q, g)
      BY DEF Dispatch
    <3>2. g \in closed => ~ SlotOwns(q, g)
      BY <1>1, <1>10 DEF FdOwnership
    <3>3. SlotOwns(q, f) => q = p
      BY <1>2 DEF FdOwnership
    <3> QED
      BY <1>1, <1>2, <1>6, <1>9, <3>1, <3>2, <3>3, NamesAssumption
  <2>3. \A k \in Links : fd'[k] \in wr' <=> state'[k] = "CONNECTING"
    <3> TAKE k \in Links
    <3>1. fd'[k] = (IF k = l THEN f ELSE fd[k]) /\ state'[k] = (IF k = l THEN "UP" ELSE state[k])
      BY <1>1, <1>4 DEF TypeOK
    <3>2. f \notin wr
      BY <1>3 DEF Dispatch, LinkOwns
    <3>3. k # l => fd[k] \notin closed
      BY <1>1, <1>10, <1>7 DEF FdOwnership, LinkOwns, TypeOK, closed
    <3> QED
      BY <1>6, <3>1, <3>2, <3>3 DEF Dispatch
  <2>4. \A g \in wr' : \E k \in Links : fd'[k] = g
    BY <1>1, <1>4, <1>6, <1>10 DEF Dispatch, LinkOwns, TypeOK
  <2> QED
    BY <2>1, <2>2, <2>3, <2>4 DEF Dispatch, LinkOwns
<1>13. SsrcUnique'
  BY <1>1, <1>4 DEF SsrcUnique, TypeOK
<1>14. TimerDiscipline'
  BY <1>1, <1>4, <1>5 DEF TimerDiscipline, TypeOK
<1>15. Shape'
  BY <1>1, <1>4, NamesAssumption DEF Shape, TypeOK, Inbound
<1> QED
  BY <1>8, <1>11, <1>12, <1>13, <1>14, <1>15

\* The three ways a pending connection ends without becoming a link's.
LEMMA PendingEndsKeeps ==
    ASSUME IInv, NEW p \in Slots,
           \/ \E lid \in Lids, s \in Ssrcs : QuestionRefused(p, lid, s)
           \/ PendingClosed(p)
           \/ PendingTimeout(p)
    PROVE  IInv'
<1>1. pend[p] # NoConn /\ FreePending(p)
  BY DEF IInv, QuestionRefused, QuestionComplete, PendingClosed, PendingTimeout, TimerDiscipline
<1>2. ptimer' = [ptimer EXCEPT ![p] = 0]
  <2>1. ptimer[p] = 1 /\ ptimer \in [Slots -> Nat]
    BY <1>1 DEF IInv, TimerDiscipline, TypeOK
  <2>2. ptimer' = [ptimer EXCEPT ![p] = Cancelled(@)] \/ ptimer' = [ptimer EXCEPT ![p] = @ - 1]
    BY DEF QuestionRefused, QuestionComplete, PendingClosed, PendingTimeout
  <2> QED
    BY <2>1, <2>2 DEF Cancelled
<1> QED
  BY <1>1, <1>2, FreePendingKeeps

\* Every step keeps the inductive invariant.
LEMMA NextIInv == IInv /\ [Next]_vars => IInv'
<1> SUFFICES ASSUME IInv, [Next]_vars PROVE IInv'
  OBVIOUS
<1>1. CASE Lifecycle
  BY <1>1, StartKeeps, ReloadKeeps, StopKeeps DEF Lifecycle
<1>2. ASSUME NEW l \in Links, LinkEvent(l) PROVE IInv'
  BY <1>2, ReconnectTimerKeeps, ConnectKeeps, LinkQuietKeeps, AnswerAcceptedKeeps,
     LinkEndsKeeps DEF LinkEvent
<1>3. ASSUME NEW p \in Slots, SlotEvent(p) PROVE IInv'
  BY <1>3, AcceptKeeps, QuestionLineKeeps, PendingEndsKeeps, QuestionAcceptedKeeps
     DEF SlotEvent
<1>4. ASSUME NEW s \in Ssrcs, NEW h \in Hosts, KeepaliveReceived(s, h) PROVE IInv'
  BY <1>4, KeepaliveReceivedKeeps
<1>5. CASE UNCHANGED vars
  <2>1. TypeOK'
    BY <1>5 DEF IInv, TypeOK, vars, linkVars, slotVars, loopVars
  <2> QED
    BY <1>5, <2>1, QuietKeeps DEF vars, linkVars, slotVars, loopVars
<1> QED
  BY <1>1, <1>2, <1>3, <1>4, <1>5 DEF Next

\* The invariant holds in every state of every behaviour.
THEOREM Invariance == Spec => []IInv
<1>1. Init => IInv
  BY InitIInv
<1>2. IInv /\ [Next]_vars => IInv'
  BY NextIInv
<1> QED
  BY <1>1, <1>2, PTL DEF Spec

\* Every variable of a link, a slot and the event loop keeps its type: in
\* particular no timer count goes below zero and no field index leaves its
\* table (hslines, qlines).
THEOREM TypeCorrect == Spec => []TypeOK
<1>1. IInv => TypeOK
  BY DEF IInv
<1> QED
  BY <1>1, Invariance, PTL

\* No TCP connection leaks and none is shared, for any number of links, slots
\* and descriptors.
THEOREM OwnershipHolds == Spec => []FdOwnership
<1>1. IInv => FdOwnership
  BY DEF IInv
<1> QED
  BY <1>1, Invariance, PTL

\* The event loop calls the owner of a descriptor and nobody else.
THEOREM DispatchHolds == Spec => []Dispatch
<1>1. IInv => Dispatch
  BY DEF IInv
<1> QED
  BY <1>1, Invariance, PTL

\* Reconnect, keepalive and pending timers are armed exactly when they should be.
THEOREM TimersHold == Spec => []TimerDiscipline
<1>1. IInv => TimerDiscipline
  BY DEF IInv
<1> QED
  BY <1>1, Invariance, PTL

\* Sync sources identify links (protocol 4.1).
THEOREM SsrcsHold == Spec => []SsrcUnique
<1>1. IInv => SsrcUnique
  BY DEF IInv
<1> QED
  BY <1>1, Invariance, PTL

\* A disabled link, and every link of a stopped program, is dark.
THEOREM DarkHolds == Spec => []DarkWhenDisabled
<1>1. IInv => DarkWhenDisabled
  <2> SUFFICES ASSUME IInv, NEW l \in Links, ~ (phase = "running" /\ enabled[l])
               PROVE  state[l] = "DOWN" /\ ssrc[l] = NoSsrc /\ reconn[l] = 0 /\ katimer[l] = 0
    BY DEF DarkWhenDisabled
  <2>1. ~ active[l] /\ state[l] = "DOWN" /\ ssrc[l] = NoSsrc
    BY DEF IInv, Shape
  <2> QED
    BY <2>1 DEF IInv, TimerDiscipline
<1> QED
  BY <1>1, Invariance, PTL

-----------------------------------------------------------------------------

\* One link's share of BuffersFresh.
FreshAt(l) == fd'[l] # fd[l] /\ fd'[l] # NoFd => hsn'[l] = 0 /\ ~part'[l]

\* A dial empties the link's buffers.
LEMMA ConnectionsFresh ==
    ASSUME TypeOK, NEW ending \in SUBSET Links, NEW D \in SUBSET Links,
           NEW dial \in [D -> Fds \cup {NoFd}], Connections(ending, dial),
           NEW emptied, D \subseteq emptied, EmptyBuffers(emptied)
    PROVE  \A l \in Links : FreshAt(l)
<1> SUFFICES ASSUME NEW l \in Links PROVE FreshAt(l)
  OBVIOUS
<1>1. DOMAIN dial = D
  OBVIOUS
<1>2. /\ fd' = [k \in Links |-> IF k \in ending THEN NoFd
                                ELSE IF k \in D THEN dial[k] ELSE fd[k]]
      /\ hsn' = [k \in Links |-> IF k \in ending \cup D THEN 0 ELSE hsn[k]]
  BY <1>1 DEF Connections
<1>3. part' = [k \in Links |-> part[k] /\ k \notin emptied]
  BY DEF EmptyBuffers
<1> QED
  BY <1>2, <1>3 DEF FreshAt

\* Steps that hand out no descriptor.
LEMMA SameFdFresh == ASSUME fd' = fd PROVE \A l \in Links : FreshAt(l)
  BY DEF FreshAt

\* A link that ends gets no connection, so no stale buffer.
LEMMA TeardownFresh ==
    ASSUME TypeOK, NEW l \in Links, Teardown(l)
    PROVE  \A k \in Links : FreshAt(k)
<1> DEFINE dial == [k \in {} |-> NoFd]
<1>1. Connections({l}, dial) /\ DOMAIN dial = {}
  BY DEF Teardown
<1> HIDE DEF dial
<1>2. fd' = [k \in Links |-> IF k \in {l} THEN NoFd ELSE fd[k]]
  BY <1>1 DEF Connections
<1> QED
  BY <1>2 DEF FreshAt

\* Whatever the step, a link with a new connection has empty buffers.
LEMMA NextFresh == ASSUME IInv, [Next]_vars PROVE \A l \in Links : FreshAt(l)
<1> USE DEF IInv
<1>1. CASE Start
  <2> DEFINE D == {l \in Outbound : enabled[l]}
  <2>1. PICK dial \in [D -> Fds \cup {NoFd}] : Connections({}, dial) /\ EmptyBuffers(D)
    BY <1>1 DEF Start
  <2>2. D \in SUBSET Links
    BY LinksAssumption
  <2> HIDE DEF D
  <2> QED
    BY <2>1, <2>2, ConnectionsFresh
<1>2. ASSUME NEW en \in [Links -> BOOLEAN], Reload(en) PROVE \A l \in Links : FreshAt(l)
  <2> DEFINE D == {l \in Outbound : en[l] /\ ~active[l]}
             stopping == {l \in Outbound : ~en[l] /\ active[l]}
             ending   == {l \in stopping \cup Inbound : ~en[l] /\ state[l] # "DOWN"}
  <2>1. PICK dial \in [D -> Fds \cup {NoFd}] :
          Connections(ending, dial) /\ EmptyBuffers(ending \cup D)
    BY <1>2 DEF Reload
  <2>2. D \in SUBSET Links /\ ending \in SUBSET Links
    BY LinksAssumption DEF Inbound
  <2> HIDE DEF D, ending
  <2> QED
    BY <2>1, <2>2, ConnectionsFresh
<1>3. CASE Stop
  <2>1. fd' = [l \in Links |-> IF state[l] # "DOWN" THEN NoFd ELSE fd[l]]
    BY <1>3 DEF Stop
  <2> QED
    BY <2>1 DEF FreshAt
<1>4. ASSUME NEW l \in Links, LinkEvent(l) PROVE \A k \in Links : FreshAt(k)
  <2>1. CASE ReconnectTimer(l)
    <3>1. CASE active[l]
      <4>1. PICK f \in Fds \cup {NoFd} :
              Connections({}, [k \in {l} |-> f]) /\ EmptyBuffers({l})
        BY <2>1, <3>1 DEF ReconnectTimer
      <4> DEFINE dial == [k \in {l} |-> f]
      <4>2. dial \in [{l} -> Fds \cup {NoFd}] /\ Connections({}, dial) /\ {l} \in SUBSET Links
        BY <4>1
      <4> HIDE DEF dial
      <4> QED
        BY <4>1, <4>2, ConnectionsFresh
    <3>2. CASE ~active[l]
      BY <2>1, <3>2, SameFdFresh DEF ReconnectTimer
    <3> QED
      BY <3>1, <3>2
  <2>2. CASE ConnectFails(l)
    BY <2>2 DEF ConnectFails, FreshAt, TypeOK
  <2>3. CASE AnswerRejected(l) \/ PeerClosed(l) \/ KeepaliveExpired(l)
    BY <2>3, TeardownFresh DEF AnswerRejected, PeerClosed, KeepaliveExpired
  <2>4. CASE ConnectSucceeds(l) \/ AnswerLine(l) \/ AnswerAccepted(l) \/ LinkBytes(l)
             \/ KeepaliveSent(l)
    BY <2>4, SameFdFresh
       DEF ConnectSucceeds, AnswerLine, AnswerAccepted, LinkBytes, KeepaliveSent
  <2> QED
    BY <1>4, <2>1, <2>2, <2>3, <2>4 DEF LinkEvent
<1>5. ASSUME NEW p \in Slots, SlotEvent(p) PROVE \A k \in Links : FreshAt(k)
  <2>1. ASSUME NEW lid \in Lids, NEW s \in Ssrcs, NEW l \in Inbound,
               QuestionAccepted(p, lid, s, l)
        PROVE  \A k \in Links : FreshAt(k)
    <3>1. /\ fd' = [fd EXCEPT ![l] = pend[p].fd]
          /\ hsn' = [hsn EXCEPT ![l] = 0]
          /\ part' = [k \in Links |-> part[k] /\ k \notin {l}]
      BY <2>1 DEF QuestionAccepted, EmptyBuffers
    <3> QED
      BY <3>1 DEF FreshAt, TypeOK
  <2>2. CASE fd' = fd
    BY <2>2, SameFdFresh
  <2> QED
    BY <1>5, <2>1, <2>2
       DEF SlotEvent, Accept, QuestionLine, PendingClosed, PendingTimeout, QuestionRefused,
           FreePending, linkVars
<1>6. ASSUME NEW s \in Ssrcs, NEW h \in Hosts, KeepaliveReceived(s, h)
      PROVE  \A k \in Links : FreshAt(k)
  BY <1>6, SameFdFresh DEF KeepaliveReceived
<1>7. CASE UNCHANGED vars
  BY <1>7, SameFdFresh DEF vars, linkVars
<1> QED
  BY <1>1, <1>2, <1>3, <1>4, <1>5, <1>6, <1>7 DEF Next, Lifecycle

\* A connection starts with empty buffers, whatever its link was doing before.
THEOREM BuffersStartEmpty == Spec => BuffersFresh
<1>1. IInv /\ [Next]_vars =>
        [\A l \in Links : fd'[l] # fd[l] /\ fd'[l] # NoFd => hsn'[l] = 0 /\ ~part'[l]]_vars
  BY NextFresh DEF FreshAt
<1> QED
  BY <1>1, Invariance, PTL DEF Spec, BuffersFresh

-----------------------------------------------------------------------------
(* The detailed link specification implements LinkService: a step of       *)
(* CcccLink establishes, replaces or ends the session of one link, or ends *)
(* those a reload or the end of the program takes away, or leaves the      *)
(* service as it is.                                                       *)

\* A step of LinkService, or a stutter, under that mapping.
ServiceStep == [Service!Next]_<<phase, enabled, Up, session>>

\* No link is up at first, in either specification.
LEMMA InitImplements == Init => Service!Init
  BY DEF Init, Service!Init

\* What LinkService sees of a set of connections that end and are dialed.
LEMMA ConnectionsUp ==
    ASSUME IInv, NEW ending \in SUBSET Links, NEW D \in SUBSET Links,
           NEW dial \in [D -> Fds \cup {NoFd}], Connections(ending, dial),
           \A l \in D : state[l] # "UP"
    PROVE  /\ Up' = [l \in Links |-> Up[l] /\ l \notin ending]
           /\ session' = [l \in Links |-> IF l \in ending /\ Up[l] THEN ~session[l] ELSE session[l]]
<1>1. DOMAIN dial = D
  OBVIOUS
<1>2. \A l \in Links : state'[l] = IF l \in ending THEN "DOWN"
                                   ELSE IF l \in {k \in D : dial[k] # NoFd} THEN "CONNECTING"
                                   ELSE state[l]
  BY <1>1 DEF Connections
<1>3. \A l \in Links : state'[l] = "UP" <=> state[l] = "UP" /\ l \notin ending
  BY <1>2
<1>4. Up' = [l \in Links |-> Up[l] /\ l \notin ending]
  BY <1>3 DEF Up
<1>5. session' = [l \in Links |-> IF l \in ending /\ state[l] = "UP"
                                  THEN ~session[l] ELSE session[l]]
  BY DEF Connections
<1> QED
  BY <1>4, <1>5 DEF Up

\* Steps that neither end nor establish a session.
LEMMA SameUp ==
    ASSUME IInv, UNCHANGED <<phase, enabled, session>>,
           \A l \in Links : state'[l] = "UP" <=> state[l] = "UP"
    PROVE  ServiceStep
  BY DEF ServiceStep, Up

\* Starting establishes no session yet.
LEMMA StartImplements == ASSUME IInv, Start PROVE Service!Start
<1> DEFINE D == {l \in Outbound : enabled[l]}
<1>1. PICK dial \in [D -> Fds \cup {NoFd}] : Connections({}, dial)
  BY DEF Start
<1>2. phase = "new" /\ phase' = "running" /\ enabled' = enabled
  BY DEF Start
<1>3. D \in SUBSET Links /\ \A l \in Links : state[l] = "DOWN"
  BY <1>2, LinksAssumption DEF IInv, Shape
<1> HIDE DEF D
<1>4. /\ Up' = [l \in Links |-> Up[l] /\ l \notin {}]
      /\ session' = [l \in Links |-> IF l \in {} /\ Up[l] THEN ~session[l] ELSE session[l]]
  BY <1>1, <1>3, ConnectionsUp
<1>5. Up' = Up /\ session' = session
  BY <1>4 DEF IInv, TypeOK, Up
<1> QED
  BY <1>2, <1>5 DEF Service!Start, Up

\* A reload ends the sessions of the links it takes away, and no other.
LEMMA ReloadImplements ==
    ASSUME IInv, NEW en \in [Links -> BOOLEAN], Reload(en)
    PROVE  Service!Reload(en)
<1> DEFINE D == {l \in Outbound : en[l] /\ ~active[l]}
           stopping == {l \in Outbound : ~en[l] /\ active[l]}
           ending   == {l \in stopping \cup Inbound : ~en[l] /\ state[l] # "DOWN"}
<1>1. PICK dial \in [D -> Fds \cup {NoFd}] : Connections(ending, dial)
  BY DEF Reload
<1>2. phase = "running" /\ phase' = phase /\ enabled' = en
  BY DEF Reload
<1>3. /\ D \in SUBSET Links /\ ending \in SUBSET Links
      /\ \A l \in D : state[l] # "UP"
  BY LinksAssumption DEF IInv, Shape, Inbound
<1>4. \A l \in Links : l \in ending /\ Up[l] <=> ~en[l] /\ Up[l]
  BY LinksAssumption DEF IInv, Shape, Inbound, Up
<1> HIDE DEF D, stopping, ending
<1>5. /\ Up' = [l \in Links |-> Up[l] /\ l \notin ending]
      /\ session' = [l \in Links |-> IF l \in ending /\ Up[l] THEN ~session[l] ELSE session[l]]
  BY <1>1, <1>3, ConnectionsUp
<1> DEFINE S == {l \in {k \in Links : Up[k]} : ~en[l]}
<1>6. \A l \in Links : /\ l \in S <=> l \in ending /\ Up[l]
                       /\ Up[l] \in BOOLEAN
  BY <1>4 DEF Up
<1> HIDE DEF S
<1>7. /\ Up' = [l \in Links |-> Up[l] /\ l \notin S]
      /\ session' = [l \in Links |-> IF l \in S THEN ~session[l] ELSE session[l]]
  BY <1>5, <1>6
<1> QED
  BY <1>2, <1>7 DEF Service!Reload, Service!SessionsEnd, Service!UpLinks, S, Up

\* The end of the program ends every session.
LEMMA StopImplements == ASSUME IInv, Stop PROVE Service!Stop
<1>1. /\ phase = "running" /\ phase' = "stopped" /\ enabled' = enabled
      /\ state' = [l \in Links |-> "DOWN"]
      /\ session' = [l \in Links |-> IF state[l] = "UP" THEN ~session[l] ELSE session[l]]
  BY DEF Stop
<1> QED
  BY <1>1 DEF Service!Stop, Service!SessionsEnd, Service!UpLinks, Up

\* A link torn down is the service's link going down, or a stutter.
LEMMA TeardownImplements ==
    ASSUME IInv, NEW l \in Links, Teardown(l)
    PROVE  ServiceStep
<1> DEFINE dial == [k \in {} |-> NoFd]
<1>1. /\ Connections({l}, dial) /\ dial \in [{} -> Fds \cup {NoFd}]
      /\ phase' = phase /\ enabled' = enabled
  BY DEF Teardown
<1> HIDE DEF dial
<1>2. /\ Up' = [k \in Links |-> Up[k] /\ k \notin {l}]
      /\ session' = [k \in Links |-> IF k \in {l} /\ Up[k] THEN ~session[k] ELSE session[k]]
  BY <1>1, ConnectionsUp
<1>3. CASE Up[l]
  <2>1. session' = [k \in Links |-> IF k \in {l} THEN ~session[k] ELSE session[k]]
    BY <1>2, <1>3
  <2>2. Service!LinkDown(l)
    BY <1>1, <1>2, <1>3, <2>1 DEF Service!LinkDown, Service!SessionsEnd, Up
  <2> QED
    BY <2>2 DEF ServiceStep, Service!Next
<1>4. CASE ~Up[l]
  <2>1. \A k \in Links : Up'[k] = Up[k]
    BY <1>2, <1>4 DEF Up
  <2>2. session' = session
    BY <1>2, <1>4 DEF IInv, TypeOK
  <2> QED
    BY <1>1, <2>1, <2>2, SameUp DEF Up
<1> QED
  BY <1>3, <1>4

\* A session is established, over the old one if there is one.
LEMMA LinkComesUp ==
    ASSUME IInv, NEW l \in Links, phase = "running", enabled[l],
           UNCHANGED <<phase, enabled>>, state' = [state EXCEPT ![l] = "UP"],
           session' = [session EXCEPT ![l] = IF state[l] = "UP" THEN ~@ ELSE @]
    PROVE  ServiceStep
<1>1. \A k \in Links : Up'[k] = IF k = l THEN TRUE ELSE Up[k]
  BY DEF IInv, TypeOK, Up
<1>2. CASE Up[l]
  <2>1. Up' = Up
    BY <1>1, <1>2 DEF Up
  <2>2. session' = [session EXCEPT ![l] = ~session[l]]
    BY <1>2 DEF Up
  <2>3. Service!LinkReplaced(l)
    BY <1>2, <2>1, <2>2 DEF Service!LinkReplaced, Up
  <2> QED
    BY <2>3 DEF ServiceStep, Service!Next
<1>3. CASE ~Up[l]
  <2>1. session' = session
    BY <1>3 DEF IInv, TypeOK, Up
  <2>2. Up' = [Up EXCEPT ![l] = TRUE]
    BY <1>1 DEF Up
  <2>3. Service!LinkUp(l)
    BY <1>3, <2>1, <2>2 DEF Service!LinkUp, Up
  <2> QED
    BY <2>3 DEF ServiceStep, Service!Next
<1> QED
  BY <1>2, <1>3

\* What happens on one link is a step of the service, or a stutter.
LEMMA LinkEventImplements ==
    ASSUME IInv, NEW l \in Links, LinkEvent(l)
    PROVE  ServiceStep
<1> USE DEF IInv
<1>1. CASE ReconnectTimer(l)
  <2>1. active[l] /\ state[l] = "DOWN" /\ phase' = phase /\ enabled' = enabled
    BY <1>1 DEF ReconnectTimer, TimerDiscipline
  <2>2. PICK f \in Fds \cup {NoFd} : Connections({}, [k \in {l} |-> f])
    BY <1>1, <2>1 DEF ReconnectTimer
  <2> DEFINE dial == [k \in {l} |-> f]
  <2>3. dial \in [{l} -> Fds \cup {NoFd}] /\ Connections({}, dial) /\ {l} \in SUBSET Links
    BY <2>2
  <2> HIDE DEF dial
  <2>4. /\ Up' = [k \in Links |-> Up[k] /\ k \notin {}]
        /\ session' = [k \in Links |-> IF k \in {} /\ Up[k] THEN ~session[k] ELSE session[k]]
    BY <2>1, <2>3, ConnectionsUp
  <2>5. session' = session /\ \A k \in Links : Up'[k] = Up[k]
    BY <2>4 DEF TypeOK, Up
  <2> QED
    BY <2>1, <2>5, SameUp DEF Up
<1>2. CASE ConnectSucceeds(l) \/ ConnectFails(l)
  <2>1. state[l] = "CONNECTING"
    BY <1>2 DEF ConnectSucceeds, ConnectFails, Dispatch
  <2>2. \A k \in Links : state'[k] = "UP" <=> state[k] = "UP"
    BY <1>2, <2>1 DEF ConnectSucceeds, ConnectFails, TypeOK
  <2> QED
    BY <1>2, <2>2, SameUp DEF ConnectSucceeds, ConnectFails
<1>3. CASE AnswerLine(l) \/ LinkBytes(l) \/ KeepaliveSent(l)
  <2>1. state' = state /\ UNCHANGED <<phase, enabled, session>>
    BY <1>3 DEF AnswerLine, LinkBytes, KeepaliveSent
  <2> QED
    BY <2>1, SameUp
<1>4. CASE AnswerAccepted(l)
  <2>1. state[l] = "HANDSHAKING" /\ state' = [state EXCEPT ![l] = "UP"]
        /\ UNCHANGED <<phase, enabled, session>>
    BY <1>4 DEF AnswerAccepted
  <2>2. phase = "running" /\ enabled[l]
    BY <2>1 DEF Shape
  <2>3. session' = [session EXCEPT ![l] = IF state[l] = "UP" THEN ~@ ELSE @]
    BY <2>1 DEF TypeOK
  <2> QED
    BY <2>1, <2>2, <2>3, LinkComesUp
<1>5. CASE AnswerRejected(l) \/ PeerClosed(l) \/ KeepaliveExpired(l)
  BY <1>5, TeardownImplements DEF AnswerRejected, PeerClosed, KeepaliveExpired
<1> QED
  BY <1>1, <1>2, <1>3, <1>4, <1>5 DEF LinkEvent

\* An accepted Question establishes or replaces a session; the rest is a stutter.
LEMMA SlotEventImplements ==
    ASSUME IInv, NEW p \in Slots, SlotEvent(p)
    PROVE  ServiceStep
<1> USE DEF IInv
<1>1. ASSUME NEW lid \in Lids, NEW s \in Ssrcs, NEW l \in Inbound,
             QuestionAccepted(p, lid, s, l)
      PROVE  ServiceStep
  <2>1. l \in Links /\ enabled[l] /\ phase = "running"
    BY <1>1 DEF QuestionAccepted, QuestionComplete, Matched, Inbound, Shape
  <2>2. /\ UNCHANGED <<phase, enabled>> /\ state' = [state EXCEPT ![l] = "UP"]
        /\ session' = [session EXCEPT ![l] = IF state[l] = "UP" THEN ~@ ELSE @]
    BY <1>1 DEF QuestionAccepted
  <2> QED
    BY <2>1, <2>2, LinkComesUp
<1>2. CASE UNCHANGED <<phase, enabled, state, session>>
  BY <1>2, SameUp
<1> QED
  BY <1>1, <1>2
     DEF SlotEvent, Accept, QuestionLine, PendingClosed, PendingTimeout, QuestionRefused,
         FreePending, linkVars

\* Every step maps to a step of the service or a stutter.
LEMMA NextImplements == IInv /\ [Next]_vars => ServiceStep
<1> SUFFICES ASSUME IInv, [Next]_vars PROVE ServiceStep
  OBVIOUS
<1>1. CASE Lifecycle
  BY <1>1, StartImplements, ReloadImplements, StopImplements
     DEF Lifecycle, ServiceStep, Service!Next
<1>2. ASSUME NEW s \in Ssrcs, NEW h \in Hosts, KeepaliveReceived(s, h) PROVE ServiceStep
  BY <1>2, SameUp DEF KeepaliveReceived
<1>3. CASE UNCHANGED vars
  BY <1>3, SameUp DEF vars, linkVars
<1> QED
  BY <1>1, <1>2, <1>3, LinkEventImplements, SlotEventImplements DEF Next

\* cccc_link.c implements the link service: for any number of links, slots,
\* descriptors and sync sources, every ended session is reported to the
\* translator exactly once, and sessions exist only on enabled links of a
\* running program.
THEOREM LinkImplementsService == Spec => ImplementsLinkService
<1>1. Init => Service!Init
  BY InitImplements
<1>2. IInv /\ [Next]_vars => [Service!Next]_Service!vars
  BY NextImplements DEF ServiceStep, Service!vars, Up
<1> QED
  BY <1>1, <1>2, Invariance, PTL DEF Spec, ImplementsLinkService, Service!Spec
-----------------------------------------------------------------------------
(* The program as it runs (System): its links are those of CcccLink, and   *)
(* the bridge over them is that of Cc2obp, step by step.  What the         *)
(* callbacks of cccc_link.c do is seen through the service they implement. *)

BP == INSTANCE Cc2obpProofs WITH up <- Up

\* The bridge as System names it and as its proofs do.
LEMMA SameBridge == (B!Init <=> BP!Init) /\ ([B!Next]_B!vars <=> [BP!Next]_BP!vars)
<1>1. B!Init <=> BP!Init
  BY DEF B!Init, BP!Init, B!CcLinks!Init, BP!CcLinks!Init, B!NoCall, BP!NoCall
<1>2. UNCHANGED B!vars <=> UNCHANGED BP!vars
  BY DEF B!vars, BP!vars, B!linkVars, BP!linkVars, B!peerVars, BP!peerVars, B!callVars,
     BP!callVars
<1>3. /\ B!Start <=> BP!Start
      /\ B!Stop <=> BP!Stop
      /\ B!TickCallback <=> BP!TickCallback
      /\ \A l \in Links : /\ B!LinkComesUp(l) <=> BP!LinkComesUp(l)
                          /\ B!SessionEnds(l) <=> BP!SessionEnds(l)
  BY DEF B!Start, BP!Start, B!Stop, BP!Stop, B!LinkComesUp, BP!LinkComesUp, B!SessionEnds,
     BP!SessionEnds, B!TickCallback, BP!TickCallback, B!Tick, BP!Tick, B!TickReload,
     BP!TickReload, B!CcLinks!Start, BP!CcLinks!Start, B!CcLinks!Stop, BP!CcLinks!Stop,
     B!CcLinks!LinkUp, BP!CcLinks!LinkUp, B!CcLinks!LinkDown, BP!CcLinks!LinkDown,
     B!CcLinks!LinkReplaced, BP!CcLinks!LinkReplaced, B!CcLinks!Reload, BP!CcLinks!Reload,
     B!CcLinks!SessionsEnd, BP!CcLinks!SessionsEnd, B!CcLinks!UpLinks, BP!CcLinks!UpLinks,
     B!Reconcile, BP!Reconcile, B!Expirable, BP!Expirable, B!MayIdle, BP!MayIdle,
     B!MustIdle, BP!MustIdle, B!CallsEnd, BP!CallsEnd, B!Aged, BP!Aged, B!Rested, BP!Rested,
     B!NearAfter, BP!NearAfter, B!TermSent, BP!TermSent, B!BoffSent, BP!BoffSent,
     B!NoCall, BP!NoCall, B!linkVars, BP!linkVars, B!peerVars, BP!peerVars, B!callVars,
     BP!callVars
<1>4. \A l \in Links : B!FromObp(l) <=> BP!FromObp(l)
  BY DEF B!FromObp, BP!FromObp, B!ObpHead, BP!ObpHead, B!ObpBurst, BP!ObpBurst, B!ObpTerm,
     BP!ObpTerm, B!ObpReceived, BP!ObpReceived, B!GateOpen, BP!GateOpen, B!Admits, BP!Admits,
     B!BonSent, BP!BonSent, B!BoffSent, BP!BoffSent, B!VoiceSent, BP!VoiceSent, B!ObpCall,
     BP!ObpCall, B!NoCall, BP!NoCall, B!linkVars, BP!linkVars, B!peerVars, BP!peerVars
<1>5. \A l \in Links : B!FromCc(l) <=> BP!FromCc(l)
  BY DEF B!FromCc, BP!FromCc, B!CcBon, BP!CcBon, B!CcVoice, BP!CcVoice, B!CcBoff, BP!CcBoff,
     B!GateOpen, BP!GateOpen, B!HeadSent, BP!HeadSent, B!BurstSent, BP!BurstSent,
     B!TermSent, BP!TermSent, B!CcCall, BP!CcCall, B!NoCall, BP!NoCall, B!linkVars,
     BP!linkVars, B!peerVars, BP!peerVars
<1>6. B!Next <=> BP!Next
  BY <1>3, <1>4, <1>5 DEF B!Next, BP!Next
<1> QED
  BY <1>1, <1>2, <1>6

\* What the bridge is to the links: a step of System is one of theirs.
LEMMA SystemStepsLinks == [SystemNext]_systemVars => [Next]_vars
<1>1. LinkCallback => Next
  BY DEF LinkCallback, Next
<1>2. \A l \in Links : CallLine(l) => Next
  BY DEF CallLine, LinkEvent, Next
<1>3. Begin \/ End => Next
  BY DEF Begin, End, Lifecycle, Next
<1>4. ASSUME NEW en \in [Links -> BOOLEAN], NEW x, NEW pe, ReloadTick(en, x, pe)
      PROVE  Next
  BY <1>4 DEF ReloadTick, Lifecycle, Next
<1>5. IdleTick \/ (\E l \in Links : PeerPacket(l))
      \/ (\E s \in Ssrcs, h \in Hosts : VoicePacket(s, h)) => UNCHANGED vars
  BY DEF IdleTick, PeerPacket, VoicePacket
<1>6. UNCHANGED systemVars => UNCHANGED vars
  BY DEF systemVars
<1> QED
  BY <1>1, <1>2, <1>3, <1>4, <1>5, <1>6 DEF SystemNext, AnyTick

\* The invariant of the links holds under the bridge.
LEMMA LinksUnderBridge == SystemSpec => Spec /\ []IInv
<1>1. SystemInit => Init
  BY DEF SystemInit
<1> QED
  BY <1>1, SystemStepsLinks, Invariance, PTL DEF SystemSpec, Spec

\* A callback of a connection or a timer leaves the life cycle alone; of the
\* service's steps it can only be the coming, the replacement or the end of
\* one session.
LEMMA CallbackOfService ==
    ASSUME IInv, LinkCallback
    PROVE  /\ UNCHANGED <<phase, enabled>>
           /\ \/ UNCHANGED <<Up, session>>
              \/ \E l \in Links :
                   Service!LinkUp(l) \/ Service!LinkReplaced(l) \/ Service!LinkDown(l)
<1>1. UNCHANGED <<phase, enabled>>
  <2>1. ASSUME NEW l \in Links, LinkEvent(l) PROVE UNCHANGED <<phase, enabled>>
    BY <2>1 DEF LinkEvent, ReconnectTimer, ConnectSucceeds, ConnectFails, AnswerLine,
       AnswerAccepted, AnswerRejected, LinkBytes, PeerClosed, KeepaliveSent,
       KeepaliveExpired, Teardown
  <2>2. ASSUME NEW p \in Slots, SlotEvent(p) PROVE UNCHANGED <<phase, enabled>>
    BY <2>2 DEF SlotEvent, Accept, QuestionLine, PendingClosed, PendingTimeout,
       QuestionRefused, QuestionAccepted, FreePending
  <2> QED
    BY <2>1, <2>2 DEF LinkCallback, KeepaliveReceived
<1>2. ServiceStep
  <2>1. Next
    BY DEF LinkCallback, Next
  <2> QED
    BY <2>1, NextImplements
<1>3. CASE UNCHANGED <<phase, enabled, Up, session>>
  BY <1>1, <1>3
<1>4. ASSUME NEW en \in [Links -> BOOLEAN], Service!Reload(en)
      PROVE  UNCHANGED <<Up, session>>
  <2> DEFINE S == {l \in {k \in Links : Up[k]} : ~en[l]}
  <2>1. /\ enabled' = en
        /\ Up' = [l \in Links |-> Up[l] /\ l \notin S]
        /\ session' = [l \in Links |-> IF l \in S THEN ~session[l] ELSE session[l]]
    BY <1>4 DEF Service!Reload, Service!SessionsEnd, Service!UpLinks, Up
  <2>2. S = {}
    BY <1>1, <2>1 DEF IInv, Shape, Up
  <2> HIDE DEF S
  <2>3. Up' = Up /\ session' = session
    BY <2>1, <2>2 DEF Up, IInv, TypeOK
  <2> QED
    BY <2>3
<1>5. ~Service!Start /\ ~Service!Stop
  BY <1>1 DEF Service!Start, Service!Stop
<1> QED
  BY <1>1, <1>2, <1>3, <1>4, <1>5 DEF ServiceStep, Service!Next

\* A callback that ends a session, or lets one come up, is what Cc2obp says
\* of it: the translator is told within the same step.
LEMMA CallbackOfBridge == ASSUME IInv, LinkCallback PROVE [B!Next]_B!vars
<1>1. UNCHANGED <<phase, enabled, penabled, xc, bound>>
  BY CallbackOfService DEF LinkCallback
<1>2. session \in [Links -> BOOLEAN]
  BY DEF IInv, TypeOK
<1>3. CASE UNCHANGED <<Up, session>>
  <2>1. Ended = {}
    BY <1>3 DEF Ended
  <2>2. UNCHANGED callVars
    BY <2>1 DEF LinkCallback, TranslatorTold
  <2> QED
    BY <1>1, <1>3, <2>2 DEF B!vars, B!linkVars, B!peerVars, B!callVars, callVars
<1>4. ASSUME NEW l \in Links, Service!LinkUp(l) PROVE B!Next
  <2>1. B!CcLinks!LinkUp(l) /\ session' = session
    BY <1>4 DEF Service!LinkUp, B!CcLinks!LinkUp, Up
  <2>2. Ended = {}
    BY <2>1 DEF Ended
  <2>3. UNCHANGED callVars
    BY <2>2 DEF LinkCallback, TranslatorTold
  <2>4. B!LinkComesUp(l)
    BY <1>1, <2>1, <2>3 DEF B!LinkComesUp, B!peerVars, B!callVars, callVars
  <2> QED
    BY <2>4 DEF B!Next
<1>5. ASSUME NEW l \in Links, Service!LinkReplaced(l) \/ Service!LinkDown(l) PROVE B!Next
  <2>1. B!CcLinks!LinkReplaced(l) \/ B!CcLinks!LinkDown(l)
    BY <1>5 DEF Service!LinkReplaced, Service!LinkDown, Service!SessionsEnd,
       B!CcLinks!LinkReplaced, B!CcLinks!LinkDown, B!CcLinks!SessionsEnd, Up
  <2>2. \A k \in Links : session'[k] = IF k = l THEN ~session[k] ELSE session[k]
    BY <1>2, <1>5 DEF Service!LinkReplaced, Service!LinkDown, Service!SessionsEnd
  <2>3. Ended = {l}
    BY <1>2, <2>2 DEF Ended
  <2>4. B!CallsEnd({}, {l}, {}) /\ B!Rested
    BY <2>3 DEF LinkCallback, TranslatorTold
  <2>5. B!SessionEnds(l)
    BY <1>1, <2>1, <2>4 DEF B!SessionEnds, B!peerVars
  <2> QED
    BY <2>5 DEF B!Next
<1> QED
  BY <1>3, <1>4, <1>5, CallbackOfService

\* What the far ends send reaches the translator as Cc2obp has it; a link that
\* hands on a line is up, and the program runs.
LEMMA TrafficOfBridge ==
    ASSUME IInv, \/ \E l \in Links : CallLine(l) \/ PeerPacket(l)
                 \/ \E s \in Ssrcs, h \in Hosts : VoicePacket(s, h)
    PROVE  B!Next
<1>1. UNCHANGED vars => UNCHANGED <<phase, enabled, Up, session>>
  BY DEF vars, linkVars, Up
<1>2. ASSUME NEW l \in Links, CallLine(l) PROVE B!FromCc(l)
  <2>1. /\ UNCHANGED <<phase, enabled, state, session, penabled, xc, bound>>
        /\ state[l] = "UP"
        /\ B!CcBon(l) \/ B!CcBoff(l)
    BY <1>2 DEF CallLine, LinkBytes
  <2>2. phase = "running"
    BY <2>1 DEF IInv, Shape
  <2>3. UNCHANGED Up
    BY <2>1 DEF Up
  <2> QED
    BY <1>2, <2>1, <2>2, <2>3 DEF CallLine, B!FromCc, B!linkVars, B!peerVars
<1>3. ASSUME NEW s \in Ssrcs, NEW h \in Hosts, VoicePacket(s, h)
      PROVE  \E l \in Links : B!FromCc(l)
  BY <1>1, <1>3 DEF VoicePacket, FindLink, B!FromCc, B!linkVars, B!peerVars
<1>4. ASSUME NEW l \in Links, PeerPacket(l) PROVE B!FromObp(l)
  BY <1>1, <1>4 DEF PeerPacket, B!FromObp, B!linkVars, B!peerVars
<1> QED
  BY <1>2, <1>3, <1>4 DEF B!Next

\* Starting, the tick, with a reload or without, and the end of the program.
LEMMA MainOfBridge == ASSUME IInv, Begin \/ AnyTick \/ End PROVE B!Next
<1>1. CASE Begin
  <2>1. B!CcLinks!Start
    BY <1>1, StartImplements DEF Begin, Service!Start, B!CcLinks!Start, Up
  <2>2. B!Start
    BY <1>1, <2>1 DEF Begin, B!Start, B!callVars, callVars
  <2> QED
    BY <2>2 DEF B!Next
<1>2. CASE IdleTick
  <2>1. UNCHANGED <<phase, enabled, Up, session>>
    BY <1>2 DEF IdleTick, vars, linkVars, Up
  <2>2. B!Tick
    BY <1>2, <2>1 DEF IdleTick, B!Tick, B!linkVars, B!peerVars
  <2> QED
    BY <2>2 DEF B!Next, B!TickCallback
<1>3. session \in [Links -> BOOLEAN]
  BY DEF IInv, TypeOK
<1>4. ASSUME NEW en \in [Links -> BOOLEAN], NEW x \in [Links -> BOOLEAN],
             NEW pe \in [Peers -> BOOLEAN], ReloadTick(en, x, pe)
      PROVE  B!TickReload(en, x, pe)
  <2> DEFINE S == {l \in B!CcLinks!UpLinks : ~en[l]}
  <2>1. Service!Reload(en)
    BY <1>4, ReloadImplements DEF ReloadTick
  <2>2. B!CcLinks!Reload(en)
    BY <2>1 DEF Service!Reload, Service!SessionsEnd, Service!UpLinks, B!CcLinks!Reload,
       B!CcLinks!SessionsEnd, B!CcLinks!UpLinks, Up
  <2>3. S \subseteq Links
        /\ session' = [l \in Links |-> IF l \in S THEN ~session[l] ELSE session[l]]
    BY <2>2 DEF B!CcLinks!Reload, B!CcLinks!SessionsEnd, B!CcLinks!UpLinks
  <2> HIDE DEF S
  <2>4. Ended = S
    BY <1>3, <2>3 DEF Ended
  <2>5. /\ xc' = x /\ penabled' = pe /\ B!Reconcile(pe) /\ B!Aged
        /\ \E expired \in B!Expirable : B!CallsEnd(expired, S, bound \ bound')
    BY <1>4, <2>4 DEF ReloadTick
  <2> QED
    BY <2>2, <2>5 DEF B!TickReload, S
<1>5. CASE End
  <2> DEFINE S == B!CcLinks!UpLinks
  <2>1. B!CcLinks!Stop
    BY <1>5, StopImplements DEF End, Service!Stop, Service!SessionsEnd, Service!UpLinks,
       B!CcLinks!Stop, B!CcLinks!SessionsEnd, B!CcLinks!UpLinks, Up
  <2>2. S \subseteq Links
        /\ session' = [l \in Links |-> IF l \in S THEN ~session[l] ELSE session[l]]
    BY <2>1 DEF B!CcLinks!Stop, B!CcLinks!SessionsEnd, B!CcLinks!UpLinks
  <2> HIDE DEF S
  <2>3. Ended = S
    BY <1>3, <2>2 DEF Ended
  <2>4. B!CallsEnd({}, S, bound)
    BY <1>5, <2>3 DEF End
  <2>5. B!Stop
    BY <1>5, <2>1, <2>4 DEF End, B!Stop, S
  <2> QED
    BY <2>5 DEF B!Next
<1> QED
  BY <1>1, <1>2, <1>4, <1>5 DEF AnyTick, B!Next, B!TickCallback

\* Every step of the program is one of the bridge, or none.
LEMMA SystemStepsBridge == IInv /\ [SystemNext]_systemVars => [B!Next]_B!vars
<1> SUFFICES ASSUME IInv, [SystemNext]_systemVars PROVE [B!Next]_B!vars
  OBVIOUS
<1>1. CASE UNCHANGED systemVars
  BY <1>1 DEF systemVars, vars, linkVars, bridgeVars, callVars, B!vars, B!linkVars,
     B!peerVars, B!callVars, Up
<1> QED
  BY <1>1, CallbackOfBridge, TrafficOfBridge, MainOfBridge DEF SystemNext

\* The translator and the peers over the code of cccc_link.c: for any number
\* of links, slots, descriptors, peers and streams the program does only what
\* Cc2obp allows, so what is proved of Cc2obp holds of it.
THEOREM SystemImplementsBridge == SystemSpec => BridgeHolds
<1>1. SystemInit => B!Init
  BY DEF SystemInit
<1> QED
  BY <1>1, LinksUnderBridge, SystemStepsBridge, PTL DEF SystemSpec, BridgeHolds, B!Spec

\* The bridge's inductive invariant, carried over to the program.
LEMMA BridgeInvariance == SystemSpec => [](IInv /\ BP!IInv)
<1>1. B!Spec => BP!Spec
  BY SameBridge, PTL DEF B!Spec, BP!Spec
<1>2. BP!Spec => []BP!IInv
  BY BP!Invariance, BridgeAssumption
     DEF BP!PeerAssumption, BP!StreamAssumption, BP!TickAssumption
<1> QED
  BY <1>1, <1>2, LinksUnderBridge, SystemImplementsBridge, PTL DEF BridgeHolds

\* The peers see whole streams and the CC-CC ends whole calls, never both at
\* once, whatever connections, timers, reloads and the end of the program do
\* to the links under them (handlers of translate.c over cccc_link.c).
THEOREM SystemStreamsWhole == SystemSpec => [](B!NearBracketed /\ B!FarInStep /\ B!HalfDuplex)
<1>1. BP!IInv => B!NearBracketed /\ B!FarInStep /\ B!HalfDuplex
  BY DEF BP!IInv, BP!LinkInv, B!NearBracketed, B!FarInStep, B!HalfDuplex
<1> QED
  BY <1>1, BridgeInvariance, PTL

\* A call that the CC-CC end takes part in can always be ended: its link has
\* a connection that is read, one keepalive timer and a sync source.
THEOREM CallsSupervised == SystemSpec => []CallSupervised
<1>1. ASSUME IInv, BP!IInv PROVE CallSupervised
  <2> SUFFICES ASSUME NEW l \in Links, call[l].origin = "cc" \/ far[l] \in {"call", "voice"}
               PROVE  /\ phase = "running" /\ enabled[l]
                      /\ fd[l] \in open /\ handler[fd[l]] = l
                      /\ katimer[l] = 1
                      /\ ssrc[l] # NoSsrc
    BY DEF CallSupervised
  <2>1. state[l] = "UP"
    BY <1>1 DEF BP!IInv, BP!LinkInv, Up
  <2>2. phase = "running" /\ enabled[l] /\ ssrc[l] # NoSsrc /\ katimer[l] = 1
    BY <1>1, <2>1 DEF IInv, Shape, TimerDiscipline
  <2>3. fd[l] \in Fds
    BY <1>1, <2>1 DEF IInv, TypeOK, FdOwnership
  <2>4. fd[l] \in open /\ handler[fd[l]] = l
    BY <1>1, <2>1, <2>3 DEF IInv, FdOwnership, Dispatch, LinkOwns
  <2> QED
    BY <2>2, <2>4
<1> QED
  BY <1>1, BridgeInvariance, PTL

\* A call from the CC-CC side that ends while its peer has a socket ends with
\* a VOICE_TERM, also when a callback of cccc_link.c ends it.
THEOREM SystemCallsTerminated == SystemSpec => B!EndedCallsTerminated
<1>1. BP!Spec => BP!EndedCallsTerminated
  BY BP!EndedCallsHold, BridgeAssumption
     DEF BP!PeerAssumption, BP!StreamAssumption, BP!TickAssumption
<1>2. B!Spec => BP!Spec
  BY SameBridge, PTL DEF B!Spec, BP!Spec
<1>3. [\A l \in Links : call[l].origin = "cc" /\ call'[l] = BP!NoCall /\ Peer[l] \in bound
                        => near'[l] = "idle"]_BP!vars
      => [\A l \in Links : call[l].origin = "cc" /\ call'[l] = B!NoCall /\ Peer[l] \in bound
                           => near'[l] = "idle"]_B!vars
  BY DEF B!vars, BP!vars, B!linkVars, BP!linkVars, B!peerVars, BP!peerVars, B!callVars,
     BP!callVars, B!NoCall, BP!NoCall
<1> QED
  BY <1>1, <1>2, <1>3, SystemImplementsBridge, PTL
     DEF BridgeHolds, B!EndedCallsTerminated, BP!EndedCallsTerminated
=============================================================================
