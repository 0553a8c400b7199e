---------------------------- MODULE Cc2obpProofs ----------------------------
(***************************************************************************)
(* The safety properties of Cc2obp for any number of links, peers and      *)
(* streams.  Their conjunction is inductive: what the peer has been told   *)
(* follows the calls from the CC-CC side, those calls exist only on links  *)
(* that are up, and what the CC-CC end has been told follows the calls     *)
(* from the peer.                                                          *)
(***************************************************************************)
EXTENDS Cc2obp, TLAPS

\* The invariant of one link: every step is checked against it link by link.
LinkInv(l) ==
    /\ near[l] # "stray"
    /\ near[l] = "open" => call[l].origin = "cc" /\ Peer[l] \in bound
    /\ call[l].origin = "cc" => near[l] \in {"open", "abandoned"}
    /\ far[l] \in {"call", "voice"} => call[l].origin = "obp" /\ up[l]
    /\ far[l] = "call" => ~call[l].sent
    /\ far[l] = "voice" => call[l].sent
    /\ call[l].origin = "cc" => up[l] /\ enabled[l] /\ phase = "running"

IInv == TypeOK /\ \A l \in Links : LinkInv(l)

\* The three shapes of a call slot are calls.
LEMMA CallTypes ==
    /\ NoCall \in Calls /\ NoCall.origin = "none"
    /\ CcCall \in Calls /\ CcCall.origin = "cc"
    /\ \A s \in Streams : /\ ObpCall(s) \in Calls
                          /\ ObpCall(s).origin = "obp" /\ ~ObpCall(s).sent
    /\ \A c \in Calls : /\ c.origin \in {"none", "cc", "obp"}
                        /\ c.origin = "none" <=> c = NoCall
                        /\ c.origin = "obp" => [c EXCEPT !.sent = TRUE] \in Calls
                        /\ [c EXCEPT !.sent = TRUE].origin = c.origin
                        /\ [c EXCEPT !.sent = TRUE].sent
<1>1. /\ NoCall \in Calls /\ NoCall.origin = "none"
      /\ CcCall \in Calls /\ CcCall.origin = "cc"
  BY DEF Calls, NoCall, CcCall
<1>2. \A s \in Streams : /\ ObpCall(s) \in Calls
                         /\ ObpCall(s).origin = "obp" /\ ~ObpCall(s).sent
  BY DEF Calls, ObpCall
<1>3. ASSUME NEW c \in Calls
      PROVE  /\ c.origin \in {"none", "cc", "obp"}
             /\ c.origin = "none" <=> c = NoCall
             /\ c.origin = "obp" => [c EXCEPT !.sent = TRUE] \in Calls
             /\ [c EXCEPT !.sent = TRUE].origin = c.origin
             /\ [c EXCEPT !.sent = TRUE].sent
  <2>1. CASE c = NoCall
    BY <2>1 DEF NoCall
  <2>2. CASE c = CcCall
    BY <2>2 DEF NoCall, CcCall
  <2>3. CASE c \in [origin : {"obp"}, stream : Streams, sent : BOOLEAN]
    <3>1. c.origin = "obp" /\ c # NoCall
      BY <2>3 DEF NoCall
    <3>2. [c EXCEPT !.sent = TRUE] \in [origin : {"obp"}, stream : Streams, sent : BOOLEAN]
      BY <2>3
    <3>3. [c EXCEPT !.sent = TRUE].origin = c.origin /\ [c EXCEPT !.sent = TRUE].sent
      BY <2>3
    <3> QED
      BY <3>1, <3>2, <3>3 DEF Calls
  <2> QED
    BY <2>1, <2>2, <2>3 DEF Calls
<1> QED
  BY <1>1, <1>2, <1>3

\* No call is in progress at first.
LEMMA InitIInv == Init => IInv
<1> SUFFICES ASSUME Init PROVE IInv
  OBVIOUS
<1>1. TypeOK
  BY CallTypes DEF Init, TypeOK, TranslatorTypeOK, FarViews, NearViews, CcLinks!Init,
     CcLinks!TypeOK
<1>2. ASSUME NEW l \in Links PROVE LinkInv(l)
  <2>1. call[l] = NoCall /\ far[l] = "idle" /\ near[l] = "idle"
    BY DEF Init
  <2> QED
    BY <2>1, CallTypes DEF LinkInv
<1> QED
  BY <1>1, <1>2 DEF IInv

\* The far ends stay among their views, whatever they are sent.
LEMMA SentTypes ==
    ASSUME TranslatorTypeOK, NEW l \in Links
    PROVE  /\ \A v \in FarViews : BonSent(l, v) \in FarViews
           /\ \A m \in BOOLEAN : VoiceSent(l, m) \in FarViews
           /\ BoffSent(l) \in FarViews
           /\ HeadSent(l) \in NearViews
           /\ BurstSent(l) \in NearViews
           /\ TermSent(l) \in NearViews
           /\ \A closing : \A e \in BOOLEAN : NearAfter(l, e, closing) \in NearViews
  BY DEF TranslatorTypeOK, FarViews, NearViews, BonSent, VoiceSent, BoffSent, HeadSent,
         BurstSent, TermSent, NearAfter

\* A step of one link's call leaves the other links alone.
LEMMA OneCall ==
    ASSUME IInv, NEW l \in Links, UNCHANGED <<linkVars, peerVars, xc>>,
           NEW c \in Calls, NEW i \in Nat, NEW f \in FarViews, NEW n \in NearViews,
           call' = [call EXCEPT ![l] = c],
           idle' = [idle EXCEPT ![l] = i],
           far'  = [far EXCEPT ![l] = f],
           near' = [near EXCEPT ![l] = n],
           LinkInv(l)'
    PROVE  IInv'
<1> USE DEF IInv
<1>1. TypeOK'
  BY DEF TypeOK, CcLinks!TypeOK, TranslatorTypeOK, linkVars, peerVars
<1>2. ASSUME NEW k \in Links, k # l PROVE LinkInv(k)'
  BY <1>2 DEF LinkInv, linkVars, peerVars, TypeOK, TranslatorTypeOK
<1> QED
  BY <1>1, <1>2

\* A DMRD packet from a peer opens, continues or ends that link's call only.
LEMMA FromObpKeeps == ASSUME IInv, NEW l \in Links, FromObp(l) PROVE IInv'
<1> USE DEF IInv
<1>1. PICK s \in Streams : ObpHead(l, s) \/ ObpBurst(l, s) \/ ObpTerm(l, s)
  BY DEF FromObp
<1>2. UNCHANGED <<linkVars, peerVars, xc>> /\ TranslatorTypeOK /\ LinkInv(l)
  BY DEF FromObp, TypeOK
<1>3. /\ call[l] \in Calls /\ idle[l] \in Nat /\ far[l] \in FarViews /\ near[l] \in NearViews
      /\ near = [near EXCEPT ![l] = near[l]]
  BY <1>2 DEF TranslatorTypeOK
<1>4. CASE ObpHead(l, s)
  <2> DEFINE w == IF call[l].origin = "obp" THEN BoffSent(l) ELSE far[l]
             f == BonSent(l, w)
  <2>1. w \in FarViews /\ f \in FarViews
    BY <1>2, <1>3, SentTypes
  <2>2. /\ call' = [call EXCEPT ![l] = ObpCall(s)]
        /\ idle' = [idle EXCEPT ![l] = 0]
        /\ far'  = [far EXCEPT ![l] = f]
        /\ near' = [near EXCEPT ![l] = near[l]]
        /\ call[l].origin # "cc"
    BY <1>3, <1>4 DEF ObpHead, Admits
  <2>3. near[l] # "open"
    BY <1>2, <2>2 DEF LinkInv
  <2>4. f \in {"call", "voice"} => f = "call" /\ up[l]
    BY <1>2, <1>3 DEF BonSent, BoffSent, LinkInv, FarViews
  <2> HIDE DEF f, w
  <2>5. /\ call'[l] = ObpCall(s) /\ far'[l] = f /\ near'[l] = near[l]
    BY <2>2, <1>2 DEF TranslatorTypeOK
  <2>6. LinkInv(l)'
    BY <1>2, <2>3, <2>4, <2>5, CallTypes DEF LinkInv, linkVars, peerVars
  <2> QED
    BY <1>2, <1>3, <2>1, <2>2, <2>6, CallTypes, OneCall
<1>5. CASE ObpBurst(l, s)
  <2> DEFINE f == VoiceSent(l, ~call[l].sent)
             c == [call[l] EXCEPT !.sent = TRUE]
  <2>1. f \in FarViews
    BY <1>2, <1>3, SentTypes
  <2>2. /\ call' = [call EXCEPT ![l] = c]
        /\ idle' = [idle EXCEPT ![l] = 0]
        /\ far'  = [far EXCEPT ![l] = f]
        /\ near' = [near EXCEPT ![l] = near[l]]
        /\ call[l].origin = "obp"
    BY <1>3, <1>5 DEF ObpBurst
  <2>3. c \in Calls /\ c.origin = "obp" /\ c.sent
    BY <1>3, <2>2, CallTypes
  <2>4. near[l] # "open" /\ (f \in {"call", "voice"} => f = "voice" /\ up[l])
    BY <1>2, <1>3, <2>2 DEF LinkInv, VoiceSent
  <2> HIDE DEF f, c
  <2>5. /\ call'[l] = c /\ far'[l] = f /\ near'[l] = near[l]
    BY <2>2, <1>2 DEF TranslatorTypeOK
  <2>6. LinkInv(l)'
    BY <1>2, <2>3, <2>4, <2>5 DEF LinkInv, linkVars, peerVars
  <2> QED
    BY <1>2, <1>3, <2>1, <2>2, <2>3, <2>6, OneCall
<1>6. CASE ObpTerm(l, s)
  <2> DEFINE f == BoffSent(l)
  <2>1. f \in FarViews
    BY <1>2, SentTypes
  <2>2. /\ call' = [call EXCEPT ![l] = NoCall]
        /\ idle' = [idle EXCEPT ![l] = 0]
        /\ far'  = [far EXCEPT ![l] = f]
        /\ near' = [near EXCEPT ![l] = near[l]]
        /\ call[l].origin = "obp"
    BY <1>3, <1>6 DEF ObpTerm
  <2>3. near[l] # "open" /\ f \notin {"call", "voice"}
    BY <1>2, <1>3, <2>2 DEF LinkInv, BoffSent
  <2> HIDE DEF f
  <2>4. /\ call'[l] = NoCall /\ far'[l] = f /\ near'[l] = near[l]
    BY <2>2, <1>2 DEF TranslatorTypeOK
  <2>5. LinkInv(l)'
    BY <1>2, <2>3, <2>4, CallTypes DEF LinkInv, linkVars, peerVars
  <2> QED
    BY <1>2, <1>3, <2>1, <2>2, <2>5, CallTypes, OneCall
<1> QED
  BY <1>1, <1>4, <1>5, <1>6

\* A CC-CC packet opens, continues or ends its own link's call only.
LEMMA FromCcKeeps == ASSUME IInv, NEW l \in Links, FromCc(l) PROVE IInv'
<1> USE DEF IInv
<1>1. UNCHANGED <<linkVars, peerVars, xc>> /\ TranslatorTypeOK /\ LinkInv(l) /\ phase = "running"
  BY DEF FromCc, TypeOK
<1>2. /\ call[l] \in Calls /\ idle[l] \in Nat /\ far[l] \in FarViews /\ near[l] \in NearViews
      /\ far = [far EXCEPT ![l] = far[l]]
      /\ call = [call EXCEPT ![l] = call[l]]
  BY <1>1 DEF TranslatorTypeOK
<1>3. CASE CcBon(l)
  <2> DEFINE n == HeadSent(l)
  <2>1. n \in NearViews
    BY <1>1, SentTypes
  <2>2. /\ call' = [call EXCEPT ![l] = CcCall]
        /\ idle' = [idle EXCEPT ![l] = 0]
        /\ far'  = [far EXCEPT ![l] = far[l]]
        /\ near' = [near EXCEPT ![l] = n]
        /\ call[l] = NoCall /\ up[l] /\ enabled[l] /\ Peer[l] \in bound
    BY <1>2, <1>3 DEF CcBon, GateOpen
  <2>3. n = "open" /\ far[l] \notin {"call", "voice"}
    BY <1>1, <2>2, CallTypes DEF LinkInv, HeadSent
  <2> HIDE DEF n
  <2>4. /\ call'[l] = CcCall /\ far'[l] = far[l] /\ near'[l] = n
    BY <2>2, <1>1 DEF TranslatorTypeOK
  <2>5. LinkInv(l)'
    BY <1>1, <2>2, <2>3, <2>4, CallTypes DEF LinkInv, linkVars, peerVars
  <2> QED
    BY <1>1, <1>2, <2>1, <2>2, <2>5, CallTypes, OneCall
<1>4. CASE CcVoice(l)
  <2> DEFINE n == BurstSent(l)
  <2>1. /\ call' = [call EXCEPT ![l] = call[l]]
        /\ idle' = [idle EXCEPT ![l] = 0]
        /\ far'  = [far EXCEPT ![l] = far[l]]
        /\ near' = [near EXCEPT ![l] = n]
        /\ call[l].origin = "cc"
    BY <1>2, <1>4 DEF CcVoice
  <2>2. n = near[l]
    BY <1>1, <2>1 DEF LinkInv, BurstSent
  <2> HIDE DEF n
  <2>3. /\ call'[l] = call[l] /\ far'[l] = far[l] /\ near'[l] = near[l]
    BY <2>1, <2>2, <1>1 DEF TranslatorTypeOK
  <2>4. LinkInv(l)'
    BY <1>1, <2>3 DEF LinkInv, linkVars, peerVars
  <2> QED
    BY <1>1, <1>2, <2>1, <2>2, <2>4, OneCall
<1>5. CASE CcBoff(l)
  <2> DEFINE n == TermSent(l)
  <2>1. n \in NearViews
    BY <1>1, SentTypes
  <2>2. /\ call' = [call EXCEPT ![l] = NoCall]
        /\ idle' = [idle EXCEPT ![l] = 0]
        /\ far'  = [far EXCEPT ![l] = far[l]]
        /\ near' = [near EXCEPT ![l] = n]
        /\ call[l].origin = "cc"
    BY <1>2, <1>5 DEF CcBoff
  <2>3. n \notin {"open", "stray"} /\ far[l] \notin {"call", "voice"}
    BY <1>1, <2>2 DEF LinkInv, TermSent
  <2> HIDE DEF n
  <2>4. /\ call'[l] = NoCall /\ far'[l] = far[l] /\ near'[l] = n
    BY <2>2, <1>1 DEF TranslatorTypeOK
  <2>5. LinkInv(l)'
    BY <1>1, <2>3, <2>4, CallTypes DEF LinkInv, linkVars, peerVars
  <2> QED
    BY <1>1, <1>2, <2>1, <2>2, <2>5, CallTypes, OneCall
<1> QED
  BY <1>3, <1>4, <1>5 DEF FromCc

\* Calls that end by themselves or with their links.  What the step does to
\* the links and the sockets must leave those of the other calls in place.
LEMMA CallsEndKeeps ==
    ASSUME IInv, TypeOK => CcLinks!TypeOK', xc' \in [Links -> BOOLEAN],
           penabled' \in [Peers -> BOOLEAN], bound' \subseteq Peers,
           NEW expired \in SUBSET Links, NEW down \in SUBSET Links, NEW closing,
           bound \ closing \subseteq bound',
           \A l \in Links \ down :
             up[l] => up'[l] /\ (enabled[l] /\ phase = "running" => enabled'[l] /\ phase' = "running"),
           CallsEnd(expired, down, closing), Aged \/ Rested
    PROVE  IInv'
<1> USE DEF IInv
<1> DEFINE ended == expired \cup down
<1>1. TranslatorTypeOK /\ \A l \in Links : LinkInv(l)
  BY DEF TypeOK
<1>2. \A l \in Links :
        /\ call'[l] = IF l \in ended THEN NoCall ELSE call[l]
        /\ far'[l] = IF l \in down THEN "idle"
                     ELSE IF l \in expired /\ call[l].origin = "obp" THEN BoffSent(l) ELSE far[l]
        /\ near'[l] = NearAfter(l, l \in ended /\ call[l].origin = "cc", closing)
  BY DEF CallsEnd
<1>3. TranslatorTypeOK'
  <2>1. call' \in [Links -> Calls]
    <3>1. call' = [l \in Links |-> IF l \in ended THEN NoCall ELSE call[l]]
      BY DEF CallsEnd
    <3> QED
      BY <1>1, <3>1, CallTypes DEF TranslatorTypeOK
  <2>2. idle' \in [Links -> Nat]
    BY <1>1 DEF Aged, Rested, TranslatorTypeOK
  <2>3. far' \in [Links -> FarViews]
    <3>1. \A l \in Links : far'[l] \in FarViews
      BY <1>1, <1>2, SentTypes DEF TranslatorTypeOK, FarViews
    <3>2. far' = [l \in Links |-> far'[l]]
      BY DEF CallsEnd
    <3> QED
      BY <3>1, <3>2
  <2>4. near' \in [Links -> NearViews]
    <3>1. near' = [l \in Links |-> NearAfter(l, l \in ended /\ call[l].origin = "cc", closing)]
      BY DEF CallsEnd
    <3> QED
      BY <1>1, <3>1, SentTypes
  <2> QED
    BY <2>1, <2>2, <2>3, <2>4 DEF TranslatorTypeOK
<1>4. ASSUME NEW l \in Links PROVE LinkInv(l)'
  <2>1. LinkInv(l) /\ call[l] \in Calls /\ near[l] \in NearViews /\ far[l] \in FarViews
    BY <1>1 DEF TranslatorTypeOK
  <2>2. CASE l \in ended
    <3>1. call'[l] = NoCall
      BY <1>2, <2>2
    <3>2. near'[l] \notin {"open", "stray"}
      BY <1>2, <2>1, <2>2 DEF LinkInv, NearAfter, TermSent, NearViews
    <3>3. far'[l] \notin {"call", "voice"}
      BY <1>2, <2>1, <2>2 DEF LinkInv, BoffSent, FarViews
    <3> QED
      BY <3>1, <3>2, <3>3, CallTypes DEF LinkInv
  <2>3. CASE l \notin ended
    <3>1. call'[l] = call[l] /\ far'[l] = far[l]
      BY <1>2, <2>3
    <3>2. near'[l] = IF Peer[l] \in closing /\ near[l] = "open" THEN "abandoned" ELSE near[l]
      BY <1>2, <2>3 DEF NearAfter
    <3>3. up[l] => up'[l] /\ (enabled[l] /\ phase = "running" => enabled'[l] /\ phase' = "running")
      BY <2>3
    <3> HIDE DEF ended
    <3> QED
      BY <2>1, <3>1, <3>2, <3>3 DEF LinkInv
  <2> QED
    BY <2>2, <2>3
<1> QED
  BY <1>3, <1>4 DEF TypeOK

\* A session that ends takes its call with it.
LEMMA SessionEndsKeeps == ASSUME IInv, NEW l \in Links, SessionEnds(l) PROVE IInv'
<1>1. /\ CallsEnd({}, {l}, {}) /\ Rested
      /\ UNCHANGED <<peerVars, xc, phase, enabled>>
  BY DEF SessionEnds, CcLinks!LinkDown, CcLinks!LinkReplaced
<1>2. /\ TypeOK => CcLinks!TypeOK'
      /\ \A k \in Links \ {l} : up[k] => up'[k]
  BY DEF SessionEnds, CcLinks!LinkDown, CcLinks!LinkReplaced, CcLinks!SessionsEnd,
         TypeOK, CcLinks!TypeOK
<1>3. {} \in SUBSET Links /\ {l} \in SUBSET Links
  OBVIOUS
<1> QED
  BY <1>1, <1>2, <1>3, CallsEndKeeps DEF IInv, TypeOK, peerVars

\* tick_cb without a reload: idle calls time out.
LEMMA TickKeeps == ASSUME IInv, Tick PROVE IInv'
<1>1. PICK expired \in Expirable : CallsEnd(expired, {}, {})
  BY DEF Tick
<1>2. expired \in SUBSET Links /\ {} \in SUBSET Links
  BY DEF Expirable
<1>3. UNCHANGED <<linkVars, peerVars, xc>> /\ Aged
  BY DEF Tick
<1> QED
  BY <1>1, <1>2, <1>3, CallsEndKeeps DEF IInv, TypeOK, CcLinks!TypeOK, linkVars, peerVars

\* tick_cb with a reload: what it takes away loses its calls.
LEMMA TickReloadKeeps ==
    ASSUME IInv, NEW en \in [Links -> BOOLEAN], NEW x \in [Links -> BOOLEAN],
           NEW pe \in [Peers -> BOOLEAN], TickReload(en, x, pe)
    PROVE  IInv'
<1> DEFINE down == {l \in CcLinks!UpLinks : ~en[l]}
           closing == bound \ bound'
<1>1. PICK expired \in Expirable : CallsEnd(expired, down, closing)
  BY DEF TickReload
<1>2. expired \in SUBSET Links /\ down \in SUBSET Links
  BY DEF Expirable, CcLinks!UpLinks
<1>3. /\ xc' = x /\ penabled' = pe /\ bound' \subseteq Peers /\ Aged
      /\ phase = "running" /\ phase' = phase /\ enabled' = en
  BY DEF TickReload, Reconcile, CcLinks!Reload
<1>4. /\ up' = [l \in Links |-> up[l] /\ l \notin down]
      /\ session' = [l \in Links |-> IF l \in down THEN ~session[l] ELSE session[l]]
  BY DEF TickReload, CcLinks!Reload, CcLinks!SessionsEnd
<1>5. TypeOK => CcLinks!TypeOK'
  BY <1>3, <1>4 DEF TypeOK, CcLinks!TypeOK
<1>6. \A l \in Links \ down : up[l] => up'[l] /\ en[l]
  BY <1>4 DEF CcLinks!UpLinks
<1>7. bound \ closing \subseteq bound'
  OBVIOUS
<1> HIDE DEF down, closing
<1> QED
  BY <1>1, <1>2, <1>3, <1>5, <1>6, <1>7, CallsEndKeeps

\* The end of the program ends every call.
LEMMA StopKeeps == ASSUME IInv, Stop PROVE IInv'
<1>1. /\ CallsEnd({}, CcLinks!UpLinks, bound) /\ Rested /\ bound' = {}
      /\ penabled' = penabled /\ xc' = xc
  BY DEF Stop
<1>2. {} \in SUBSET Links /\ CcLinks!UpLinks \in SUBSET Links
  BY DEF CcLinks!UpLinks
<1>3. TypeOK => CcLinks!TypeOK'
  BY DEF Stop, CcLinks!Stop, CcLinks!SessionsEnd, TypeOK, CcLinks!TypeOK
<1>4. \A l \in Links \ CcLinks!UpLinks : ~up[l]
  BY DEF CcLinks!UpLinks
<1> QED
  BY <1>1, <1>2, <1>3, <1>4, CallsEndKeeps DEF IInv, TypeOK

\* A step that leaves the calls alone and takes no link or peer away.
LEMMA QuietCallsKeep ==
    ASSUME IInv, UNCHANGED callVars, TypeOK',
           bound \subseteq bound',
           \A l \in Links : up[l] => up'[l],
           UNCHANGED enabled, phase = "running" => phase' = "running"
    PROVE  IInv'
  BY DEF IInv, LinkInv, callVars

\* Starting opens sockets and no call.
LEMMA StartKeeps == ASSUME IInv, Start PROVE IInv'
<1>1. /\ UNCHANGED <<penabled, xc, call, idle, far, near, enabled, up, session>>
      /\ phase = "new" /\ phase' = "running" /\ bound' \subseteq Peers
  BY DEF Start, callVars, CcLinks!Start, Reconcile
<1>2. TypeOK'
  BY <1>1 DEF IInv, TypeOK, CcLinks!TypeOK, TranslatorTypeOK
<1> QED
  BY <1>1, <1>2 DEF IInv, LinkInv

\* A link that comes up has no call yet.
LEMMA LinkComesUpKeeps == ASSUME IInv, NEW l \in Links, LinkComesUp(l) PROVE IInv'
<1>1. /\ UNCHANGED <<phase, enabled, session, penabled, bound, xc, callVars>>
      /\ up' = [up EXCEPT ![l] = TRUE]
  BY DEF LinkComesUp, CcLinks!LinkUp, peerVars
<1>2. TypeOK'
  BY <1>1 DEF IInv, TypeOK, CcLinks!TypeOK, TranslatorTypeOK, callVars
<1>3. \A k \in Links : up[k] => up'[k]
  BY <1>1 DEF IInv, TypeOK, CcLinks!TypeOK
<1> QED
  BY <1>1, <1>2, <1>3, QuietCallsKeep

\* Every step keeps the inductive invariant.
LEMMA NextIInv == IInv /\ [Next]_vars => IInv'
<1> SUFFICES ASSUME IInv, [Next]_vars PROVE IInv'
  OBVIOUS
<1>1. CASE Start \/ TickCallback \/ Stop
  BY <1>1, StartKeeps, TickKeeps, TickReloadKeeps, StopKeeps DEF TickCallback
<1>2. ASSUME NEW l \in Links, LinkComesUp(l) \/ SessionEnds(l) \/ FromObp(l) \/ FromCc(l)
      PROVE  IInv'
  BY <1>2, LinkComesUpKeeps, SessionEndsKeeps, FromObpKeeps, FromCcKeeps
<1>3. CASE UNCHANGED vars
  <2>1. TypeOK'
    BY <1>3 DEF IInv, TypeOK, CcLinks!TypeOK, TranslatorTypeOK, vars, linkVars, peerVars, callVars
  <2> QED
    BY <1>3, <2>1, QuietCallsKeep DEF vars, linkVars, peerVars
<1> QED
  BY <1>1, <1>2, <1>3 DEF Next

-----------------------------------------------------------------------------

\* The invariant holds in every state of every behaviour of the bridge.
THEOREM Invariance == Spec => []IInv
<1>1. Init => IInv
  BY InitIInv
<1>2. IInv /\ [Next]_vars => IInv'
  BY NextIInv
<1> QED
  BY <1>1, <1>2, PTL DEF Spec

\* The translator's calls and the configuration keep their types.
THEOREM TypeCorrect == Spec => []TypeOK
<1>1. IInv => TypeOK
  BY DEF IInv
<1> QED
  BY <1>1, Invariance, PTL

\* OpenBridge streams are bracketed by VOICE_HEAD and VOICE_TERM.
THEOREM NearHolds == Spec => []NearBracketed
<1>1. IInv => NearBracketed
  BY DEF IInv, LinkInv, NearBracketed
<1> QED
  BY <1>1, Invariance, PTL

\* An announced call is the call in progress, and its first packet has the marker.
THEOREM FarHolds == Spec => []FarInStep
<1>1. IInv => FarInStep
  BY DEF IInv, LinkInv, FarInStep
<1> QED
  BY <1>1, Invariance, PTL

\* The two ends never hold a link at the same time.
THEOREM HalfDuplexHolds == Spec => []HalfDuplex
<1>1. IInv => HalfDuplex
  BY DEF IInv, LinkInv, HalfDuplex
<1> QED
  BY <1>1, Invariance, PTL

\* CC-CC calls live on links that are up.
THEOREM CcCallsHold == Spec => []CcCallNeedsLink
<1>1. IInv => CcCallNeedsLink
  BY DEF IInv, LinkInv, CcCallNeedsLink
<1> QED
  BY <1>1, Invariance, PTL

\* One link's share of EndedCallsTerminated.
Terminated(l) ==
    call[l].origin = "cc" /\ call'[l] = NoCall /\ Peer[l] \in bound => near'[l] = "idle"

\* The VOICE_TERM of a call that is ended reaches a peer that has a socket,
\* whether or not that socket closes afterwards.
LEMMA CallsEndTerminates ==
    ASSUME IInv, NEW expired, NEW down, NEW closing, CallsEnd(expired, down, closing),
           NEW l \in Links
    PROVE  Terminated(l)
<1>1. /\ call'[l] = IF l \in expired \cup down THEN NoCall ELSE call[l]
      /\ near'[l] = NearAfter(l, l \in expired \cup down /\ call[l].origin = "cc", closing)
  BY DEF CallsEnd
<1>2. CASE l \in expired \cup down
  BY <1>1, <1>2 DEF IInv, LinkInv, Terminated, NearAfter, TermSent
<1>3. CASE l \notin expired \cup down
  BY <1>1, <1>3, CallTypes DEF Terminated
<1> QED
  BY <1>2, <1>3

\* Nothing from the peer ends a call of the CC-CC side.
LEMMA FromObpTerminates ==
    ASSUME IInv, NEW k \in Links, FromObp(k), NEW l \in Links
    PROVE  Terminated(l)
<1>1. call \in [Links -> Calls]
  BY DEF IInv, TypeOK, TranslatorTypeOK
<1>2. PICK s \in Streams : ObpHead(k, s) \/ ObpBurst(k, s) \/ ObpTerm(k, s)
  BY DEF FromObp
<1>3. call[k].origin # "cc" \/ call'[k] = call[k]
  BY <1>2 DEF ObpHead, ObpBurst, ObpTerm, Admits
<1>4. l # k => call'[l] = call[l]
  BY <1>1, <1>2 DEF ObpHead, ObpBurst, ObpTerm
<1> QED
  BY <1>3, <1>4, CallTypes DEF Terminated

\* Of what the CC-CC side sends, only a B-off ends a call of its own, and the
\* VOICE_TERM goes out with it.
LEMMA FromCcTerminates ==
    ASSUME IInv, NEW k \in Links, FromCc(k), NEW l \in Links
    PROVE  Terminated(l)
<1>1. call \in [Links -> Calls] /\ near \in [Links -> NearViews] /\ LinkInv(l)
  BY DEF IInv, TypeOK, TranslatorTypeOK
<1>2. CASE CcBon(k)
  BY <1>1, <1>2, CallTypes DEF CcBon, Terminated
<1>3. CASE CcVoice(k)
  BY <1>3, CallTypes DEF CcVoice, Terminated
<1>4. CASE CcBoff(k) /\ l = k
  <2>1. near'[l] = TermSent(l)
    BY <1>1, <1>4 DEF CcBoff
  <2> QED
    BY <1>1, <2>1 DEF LinkInv, Terminated, TermSent
<1>5. CASE CcBoff(k) /\ l # k
  <2>1. call'[l] = call[l]
    BY <1>1, <1>5 DEF CcBoff
  <2> QED
    BY <2>1, CallTypes DEF Terminated
<1> QED
  BY <1>2, <1>3, <1>4, <1>5 DEF FromCc

\* Whatever the step, a call that ends is terminated on the other side.
LEMMA NextTerminates ==
    ASSUME IInv, [Next]_vars, NEW l \in Links
    PROVE  Terminated(l)
<1>1. CASE UNCHANGED callVars
  BY <1>1, CallTypes DEF callVars, Terminated
<1>2. CASE TickCallback \/ Stop
  BY <1>2, CallsEndTerminates DEF TickCallback, Tick, TickReload, Stop
<1>3. ASSUME NEW k \in Links, SessionEnds(k) \/ FromObp(k) \/ FromCc(k)
      PROVE  Terminated(l)
  BY <1>3, CallsEndTerminates, FromObpTerminates, FromCcTerminates DEF SessionEnds
<1> QED
  BY <1>1, <1>2, <1>3 DEF Next, Start, LinkComesUp, vars

\* Whatever ends a call of the CC-CC side, a peer with a socket is told.
THEOREM EndedCallsHold == Spec => EndedCallsTerminated
<1>1. IInv /\ [Next]_vars => [\A l \in Links : Terminated(l)]_vars
  BY NextTerminates
<1> QED
  BY <1>1, Invariance, PTL DEF Spec, EndedCallsTerminated, Terminated

-----------------------------------------------------------------------------
(* The bridge over the links *)

\* Every step of the bridge is one of LinkService on its links, or leaves them
\* alone: the translator and main never rely on more than cccc_link.c promises,
\* and never take part in its steps.
THEOREM UsesLinkService == Spec => CcLinks!Spec
<1>1. Init => CcLinks!Init
  BY DEF Init
<1>2. [Next]_vars => [CcLinks!Next]_(CcLinks!vars)
  <2> SUFFICES ASSUME [Next]_vars PROVE CcLinks!Next \/ UNCHANGED CcLinks!vars
    OBVIOUS
  <2>1. CASE Start \/ Stop
    BY <2>1 DEF Start, Stop, CcLinks!Next
  <2>2. CASE TickCallback
    BY <2>2 DEF TickCallback, Tick, TickReload, CcLinks!Next, CcLinks!vars, linkVars
  <2>3. ASSUME NEW l \in Links, LinkComesUp(l) \/ SessionEnds(l) \/ FromObp(l) \/ FromCc(l)
        PROVE  CcLinks!Next \/ UNCHANGED CcLinks!vars
    BY <2>3 DEF LinkComesUp, SessionEnds, FromObp, FromCc, CcLinks!Next, CcLinks!vars, linkVars
  <2>4. CASE UNCHANGED vars
    BY <2>4 DEF vars, linkVars, CcLinks!vars
  <2> QED
    BY <2>1, <2>2, <2>3, <2>4 DEF Next
<1> QED
  BY <1>1, <1>2, PTL DEF Spec, CcLinks!Spec
=============================================================================
