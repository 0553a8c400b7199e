---------------------------- MODULE ReloadProofs ----------------------------
(***************************************************************************)
(* The safety properties of the configuration for any files and any        *)
(* sequence of edits, signals and reloads.  A merge changes the toggles of *)
(* an entry and nothing that entries are told apart by, so what            *)
(* config_load checked of the first file stays true of the running         *)
(* configuration, whatever the later files held.                           *)
(***************************************************************************)
EXTENDS Reload, SequenceTheorems, TLAPS

\* The fields that the properties are about.
PeerKeys == {"name", "enabled"}
LinkKeys ==
    {"name", "enabled", "cross_connect_active", "tgid", "openbridge_idx", "cc_role", "cc_lid",
     "cc_remote_ip"}

\* The lists of a configuration: arrays of entries that have their fields.
Entries(es, keys) ==
    /\ \E n \in Nat : DOMAIN es = 1..n
    /\ \A i \in DOMAIN es : keys \subseteq DOMAIN es[i]

\* Both lists.
Shaped(c) == Entries(c.openbridge, PeerKeys) /\ Entries(c.link, LinkKeys)

\* No two entries share a name.
NamesUnique(es) == \A p \in Pairs(es) : ~SameName(es, p)

\* A configuration that config_load has just accepted.
FreshOK(c) == Shaped(c) /\ NamesUnique(c.openbridge) /\ ~LinksClash(c.link)

\* The inductive invariant: the properties, and what a reload holds in hand.
IInv ==
    /\ DisabledPeersDark
    /\ Running => Shaped(cfg)
    /\ KeysStayUnique
    /\ TogglesFollowFile
    /\ pc = "apply" \/ fresh # NoConfig => FreshOK(fresh)

-----------------------------------------------------------------------------
(* config_load *)

\* Of two places in a list one comes first; there is no place 0.
LEMMA Places ==
    ASSUME NEW n \in Nat
    PROVE  /\ \A i, j \in 1..n : i # j => i < j \/ j < i
           /\ \A i \in 1..n : i # 0
           /\ \A i \in 1..n : \A k \in 1..(i - 1) : k \in 1..n /\ k # i
  OBVIOUS

\* As many entries as fit are an array again.
LEMMA HeldPlaces ==
    ASSUME NEW s, Len(s) \in Nat, DOMAIN s = 1..Len(s), NEW max \in Nat \ {0}
    PROVE  \E n \in Nat : DOMAIN Held(s, max) = 1..n
<1> DEFINE S == {s[i] : i \in 1..Len(s)}
           n == IF Len(s) > max THEN max ELSE Len(s)
<1>1. n \in Nat /\ n <= Len(s) /\ \A i \in 1..n : s[i] \in S
  OBVIOUS
<1> HIDE DEF S, n
<1>2. SubSeq(s, 1, n) \in Seq(S)
  BY <1>1, SubSeqProperties
<1>3. Held(s, max) = SubSeq(s, 1, n)
  BY DEF Held, n
<1> QED
  BY <1>2, <1>3, LenProperties

\* What config_load returns is well formed and free of clashes.
LEMMA LoadedIsFresh ==
    ASSUME file \in Files \cup {Unreadable}, LoadSucceeds
    PROVE  /\ FreshOK(Loaded(file))
           /\ ~PeersClash(Loaded(file).openbridge) /\ ~LinksClash(Loaded(file).link)
<1>1. /\ file \in Files /\ Accepted(file)
      /\ Len(file.openbridge) \in Nat /\ DOMAIN file.openbridge = 1..Len(file.openbridge)
      /\ Len(file.link) \in Nat /\ DOMAIN file.link = 1..Len(file.link)
  BY FilesAssumption DEF LoadSucceeds
<1>2. Loaded(file).openbridge = Peers(file) /\ Loaded(file).link = Links(file)
  BY DEF Loaded
<1>3. Entries(Peers(file), PeerKeys)
  <2>1. DOMAIN Peers(file) = DOMAIN Held(file.openbridge, MaxOpenbridge)
    BY DEF Peers
  <2>2. \A i \in DOMAIN Peers(file) : Peers(file)[i] = Peer(file.openbridge[i])
    BY DEF Peers
  <2>3. \A t : PeerKeys \subseteq DOMAIN Peer(t)
    BY DEF PeerKeys, Peer
  <2> QED
    BY <1>1, <2>1, <2>2, <2>3, HeldPlaces, MaxAssumption DEF Entries
<1>4. Entries(Links(file), LinkKeys)
  <2>1. DOMAIN Links(file) = DOMAIN Held(file.link, MaxLinks)
    BY DEF Links
  <2>2. \A i \in DOMAIN Links(file) : Links(file)[i] = Link(file.link[i], Peers(file))
    BY DEF Links
  <2>3. \A t, ps : LinkKeys \subseteq DOMAIN Link(t, ps)
    BY DEF LinkKeys, Link
  <2> QED
    BY <1>1, <2>1, <2>2, <2>3, HeldPlaces, MaxAssumption DEF Entries
<1>5. ~PeersClash(Peers(file)) /\ ~LinksClash(Links(file))
  BY <1>1 DEF Accepted
<1> QED
  BY <1>2, <1>3, <1>4, <1>5 DEF FreshOK, Shaped, NamesUnique, PeersClash

-----------------------------------------------------------------------------
(* config_reload_toggles *)

\* An entry keeps all that is not a toggle.
LEMMA MergedKeeps ==
    ASSUME NEW e, NEW new, NEW toggles
    PROVE  /\ DOMAIN Merged(e, new, toggles) = DOMAIN e
           /\ \A k \in DOMAIN e \ toggles : Merged(e, new, toggles)[k] = e[k]
  BY DEF Merged

\* The search by name finds the entry of that name.
LEMMA NameFound ==
    ASSUME NEW es, NEW keys, Entries(es, keys), NamesUnique(es),
           NEW j \in DOMAIN es, es[j].name # ""
    PROVE  FindByName(es, es[j].name) = j
<1> DEFINE name == es[j].name
           First(i) == es[i].name = name /\ \A k \in 1..(i - 1) : es[k].name # name
<1>1. PICK n \in Nat : DOMAIN es = 1..n
  BY DEF Entries
<1>2. \A i \in DOMAIN es : es[i].name = name => i = j
  <2> SUFFICES ASSUME NEW i \in DOMAIN es, es[i].name = name, i # j PROVE FALSE
    OBVIOUS
  <2>1. i < j \/ j < i
    <3>1. i \in 1..n /\ j \in 1..n
      BY <1>1
    <3> QED
      BY <3>1, Places
  <2>2. <<i, j>> \in Pairs(es) \/ <<j, i>> \in Pairs(es)
    BY <2>1 DEF Pairs
  <2>3. SameName(es, <<i, j>>) /\ SameName(es, <<j, i>>)
    BY DEF SameName
  <2> QED
    BY <2>2, <2>3 DEF NamesUnique
<1>3. First(j)
  <2>1. j \in 1..n /\ \A k \in 1..(j - 1) : k \in 1..n /\ k # j
    <3>1. j \in 1..n
      BY <1>1
    <3> QED
      BY <3>1, Places
  <2> QED
    BY <1>1, <1>2, <2>1
<1>4. (CHOOSE i \in DOMAIN es : First(i)) = j
  BY <1>2, <1>3
<1>5. FindByName(es, name) = CHOOSE i \in DOMAIN es : First(i)
  BY DEF FindByName
<1> QED
  BY <1>4, <1>5

\* The lists keep their places and their entries all that is not a toggle.
LEMMA MergedAllKeeps ==
    ASSUME NEW es, NEW keys, Entries(es, keys), NEW new, NEW toggles
    PROVE  /\ Entries(MergedAll(es, new, toggles), keys)
           /\ DOMAIN MergedAll(es, new, toggles) = DOMAIN es
           /\ \A i \in DOMAIN es : \A k \in keys \ toggles :
                MergedAll(es, new, toggles)[i][k] = es[i][k]
<1> DEFINE m == MergedAll(es, new, toggles)
<1>1. DOMAIN m = DOMAIN es /\ \A i \in DOMAIN es : m[i] = Merged(es[i], new, toggles)
  BY DEF MergedAll
<1> HIDE DEF m
<1>2. \A i \in DOMAIN es : DOMAIN m[i] = DOMAIN es[i]
  BY <1>1, MergedKeeps
<1>3. \A i \in DOMAIN es : \A k \in keys \ toggles : m[i][k] = es[i][k]
  BY <1>1, MergedKeeps DEF Entries
<1> QED
  BY <1>1, <1>2, <1>3 DEF Entries, m

\* After the merge of one list the toggles are those of the file.
LEMMA MergedAllFollow ==
    ASSUME NEW es, NEW keys, Entries(es, keys), NEW new, Entries(new, keys), NamesUnique(new),
           NEW toggles \in SUBSET keys, "name" \in keys \ toggles
    PROVE  Follow(MergedAll(es, new, toggles), new, toggles)
<1> DEFINE m == MergedAll(es, new, toggles)
<1>1. DOMAIN m = DOMAIN es /\ \A i \in DOMAIN es : \A k \in keys \ toggles : m[i][k] = es[i][k]
  BY MergedAllKeeps
<1>2. \A i \in DOMAIN es : m[i] = Merged(es[i], new, toggles)
  BY DEF MergedAll
<1> HIDE DEF m
<1>3. \A i \in DOMAIN es : m[i].name = es[i].name
  BY <1>1
<1>4. ASSUME NEW i \in DOMAIN es, NEW j \in DOMAIN new, es[i].name = new[j].name,
             es[i].name # "", NEW k \in toggles
      PROVE  m[i][k] = new[j][k]
  <2>1. k \in DOMAIN es[i]
    BY DEF Entries
  <2>2. FindByName(new, new[j].name) = j
    BY <1>4, NameFound
  <2>3. j # 0
    <3>1. PICK n \in Nat : DOMAIN new = 1..n
      BY DEF Entries
    <3> QED
      BY <3>1, Places
  <2>4. FindByName(new, es[i].name) = j
    BY <1>4, <2>2
  <2>5. Merged(es[i], new, toggles) =
          [n \in DOMAIN es[i] |-> IF n \in toggles THEN new[j][n] ELSE es[i][n]]
    BY <2>3, <2>4, Zenon DEF Merged
  <2> QED
    BY <1>2, <2>1, <2>5
<1> QED
  BY <1>1, <1>3, <1>4, ZenonT(30) DEF Follow, m

\* A merge brings about no clash of names, routes or callers.
LEMMA MergedLinksClashNot ==
    ASSUME NEW es, Entries(es, LinkKeys), NEW new, ~LinksClash(es)
    PROVE  ~LinksClash(MergedAll(es, new, LinkToggles))
<1> DEFINE m == MergedAll(es, new, LinkToggles)
<1>1. DOMAIN m = DOMAIN es
  BY MergedAllKeeps
<1>2. \A i \in DOMAIN es : /\ m[i].name = es[i].name /\ m[i].tgid = es[i].tgid
                           /\ m[i].openbridge_idx = es[i].openbridge_idx
                           /\ m[i].cc_role = es[i].cc_role /\ m[i].cc_lid = es[i].cc_lid
                           /\ m[i].cc_remote_ip = es[i].cc_remote_ip
  <2>1. {"name", "tgid", "openbridge_idx", "cc_role", "cc_lid", "cc_remote_ip"}
          \subseteq LinkKeys \ LinkToggles
    BY DEF LinkKeys, LinkToggles
  <2> QED
    BY <2>1, MergedAllKeeps
<1> HIDE DEF m
<1>3. Pairs(m) = Pairs(es) /\ \A p \in Pairs(es) : p[1] \in DOMAIN es /\ p[2] \in DOMAIN es
  BY <1>1 DEF Pairs
<1>4. \A p \in Pairs(es) : /\ SameName(m, p) <=> SameName(es, p)
                           /\ SameRoute(m, p) <=> SameRoute(es, p)
                           /\ SameCaller(m, p) <=> SameCaller(es, p)
  BY <1>2, <1>3 DEF SameName, SameRoute, SameCaller
<1> QED
  BY <1>3, <1>4 DEF LinksClash, m

\* A merge brings about no clash of peers' names.
LEMMA MergedNamesUnique ==
    ASSUME NEW es, Entries(es, PeerKeys), NEW new, NamesUnique(es)
    PROVE  NamesUnique(MergedAll(es, new, PeerToggles))
<1> DEFINE m == MergedAll(es, new, PeerToggles)
<1>1. DOMAIN m = DOMAIN es /\ \A i \in DOMAIN es : m[i].name = es[i].name
  <2>1. "name" \in PeerKeys \ PeerToggles
    BY DEF PeerKeys, PeerToggles
  <2> QED
    BY <2>1, MergedAllKeeps
<1> HIDE DEF m
<1>2. Pairs(m) = Pairs(es) /\ \A p \in Pairs(es) : p[1] \in DOMAIN es /\ p[2] \in DOMAIN es
  BY <1>1 DEF Pairs
<1>3. \A p \in Pairs(es) : SameName(m, p) <=> SameName(es, p)
  BY <1>1, <1>2 DEF SameName
<1> QED
  BY <1>2, <1>3 DEF NamesUnique, m

-----------------------------------------------------------------------------
(* Every step keeps IInv *)

\* Nothing is loaded yet.
LEMMA InitIInv == Init => IInv
  BY DEF Init, IInv, DisabledPeersDark, TypeOK, Running, KeysStayUnique, TogglesFollowFile, Points

\* The program starts with a file that config_load accepted.
LEMMA StartKeeps ==
    ASSUME IInv, Start
    PROVE  IInv'
<1>1. TypeOK /\ fresh = NoConfig
  BY DEF IInv, DisabledPeersDark, TypeOK, Start
<1>2. /\ cfg' = Loaded(file) /\ pc' = "wait" /\ active' \subseteq EnabledPeers(cfg')
      /\ UNCHANGED <<file, fresh, reload_requested, shutdown_requested, unread>>
  BY DEF Start, flags
<1>3. FreshOK(cfg')
  BY <1>1, <1>2, LoadedIsFresh DEF TypeOK, Start
<1>4. DisabledPeersDark'
  BY <1>1, <1>2 DEF DisabledPeersDark, TypeOK, Points, EnabledPeers
<1> QED
  BY <1>1, <1>2, <1>3, <1>4 DEF IInv, Running, KeysStayUnique, NamesUnique, FreshOK,
     TogglesFollowFile

\* A reload reads a file that config_load accepts.
LEMMA ReloadLoadsKeeps ==
    ASSUME IInv, ReloadLoads
    PROVE  IInv'
<1>1. TypeOK /\ DisabledPeersDark
  BY DEF IInv, DisabledPeersDark
<1>2. /\ fresh' = Loaded(file) /\ pc = "load" /\ pc' = "apply" /\ unread' = FALSE
      /\ UNCHANGED <<file, cfg, active, reload_requested, shutdown_requested>>
  BY DEF ReloadLoads, flags
<1>3. FreshOK(fresh') /\ ~PeersClash(fresh'.openbridge) /\ ~LinksClash(fresh'.link)
  BY <1>1, <1>2, LoadedIsFresh DEF TypeOK, ReloadLoads
<1>4. DisabledPeersDark'
  BY <1>1, <1>2, <1>3 DEF DisabledPeersDark, TypeOK, Points, EnabledPeers, Running
<1> QED
  BY <1>2, <1>3, <1>4 DEF IInv, Running, KeysStayUnique, TogglesFollowFile

\* The merge, and obp_mux_reconcile after it.
LEMMA ReloadAppliesKeeps ==
    ASSUME IInv, ReloadApplies
    PROVE  IInv'
<1> DEFINE os == MergedAll(cfg.openbridge, fresh.openbridge, PeerToggles)
           ls == MergedAll(cfg.link, fresh.link, LinkToggles)
<1>1. /\ TypeOK /\ pc = "apply" /\ Running /\ FreshOK(fresh) /\ Shaped(cfg)
      /\ NamesUnique(cfg.openbridge) /\ ~LinksClash(cfg.link)
  BY DEF IInv, DisabledPeersDark, ReloadApplies, Running, KeysStayUnique, NamesUnique
<1>2. /\ cfg'.openbridge = os /\ cfg'.link = ls /\ pc' = "rest"
      /\ active' \in SUBSET EnabledPeers(cfg')
      /\ UNCHANGED <<file, fresh, reload_requested, shutdown_requested, unread>>
  BY DEF ReloadApplies, flags, Reconciled
<1>3. /\ Entries(cfg.openbridge, PeerKeys) /\ Entries(cfg.link, LinkKeys)
      /\ Entries(fresh.openbridge, PeerKeys) /\ Entries(fresh.link, LinkKeys)
      /\ NamesUnique(fresh.openbridge) /\ NamesUnique(fresh.link)
  BY <1>1 DEF Shaped, FreshOK, LinksClash, NamesUnique
<1>4. /\ Entries(os, PeerKeys) /\ Entries(ls, LinkKeys)
      /\ DOMAIN os = DOMAIN cfg.openbridge /\ DOMAIN ls = DOMAIN cfg.link
  BY <1>3, MergedAllKeeps
<1>5. NamesUnique(os) /\ ~LinksClash(ls)
  BY <1>1, <1>3, MergedNamesUnique, MergedLinksClashNot
<1>6. DisabledPeersDark'
  BY <1>1, <1>2 DEF DisabledPeersDark, TypeOK, Points, EnabledPeers, Running
<1>7. Follow(os, fresh.openbridge, PeerToggles)
  <2>1. PeerToggles \in SUBSET PeerKeys /\ "name" \in PeerKeys \ PeerToggles
    BY DEF PeerKeys, PeerToggles
  <2> QED
    BY <1>3, <2>1, MergedAllFollow
<1>8. Follow(ls, fresh.link, LinkToggles)
  <2>1. LinkToggles \in SUBSET LinkKeys /\ "name" \in LinkKeys \ LinkToggles
    BY DEF LinkKeys, LinkToggles
  <2> QED
    BY <1>3, <2>1, MergedAllFollow
<1> HIDE DEF os, ls
<1>9. TogglesFollowFile'
  BY <1>2, <1>7, <1>8 DEF TogglesFollowFile
<1>10. KeysStayUnique' /\ Shaped(cfg')
  BY <1>2, <1>4, <1>5 DEF KeysStayUnique, NamesUnique, Shaped
<1> QED
  BY <1>1, <1>2, <1>6, <1>9, <1>10 DEF IInv, FreshOK, Running

\* The steps that leave the configuration and the sockets alone, or end.
LEMMA OtherStepsKeep ==
    ASSUME IInv, Sighup \/ Sigterm \/ Edit \/ Tick \/ ReloadFails \/ TickEnds
    PROVE  IInv'
<1>1. TypeOK /\ DisabledPeersDark
  BY DEF IInv, DisabledPeersDark
<1>2. /\ UNCHANGED cfg /\ (active' = active \/ active' = {})
      /\ pc = "off" <=> pc' = "off"
      /\ fresh' = fresh \/ fresh' = NoConfig
      /\ pc' = "apply" => pc = "apply" /\ fresh' = fresh
      /\ fresh' # NoConfig => pc' = pc
      /\ pc' \in Points /\ file' \in Files \cup {Unreadable}
      /\ reload_requested' \in BOOLEAN /\ shutdown_requested' \in BOOLEAN /\ unread' \in BOOLEAN
  <2>1. CASE Sighup
    BY <1>1, <2>1 DEF Sighup, TypeOK
  <2>2. CASE Sigterm
    BY <1>1, <2>2 DEF Sigterm, TypeOK
  <2>3. CASE Edit
    BY <1>1, <2>3 DEF Edit, TypeOK, flags
  <2>4. CASE Tick
    BY <1>1, <2>4 DEF Tick, TypeOK, Points
  <2>5. CASE ReloadFails
    BY <1>1, <2>5 DEF ReloadFails, TypeOK, Points, flags
  <2>6. CASE TickEnds
    BY <1>1, <2>6 DEF TickEnds, TypeOK, Points, flags
  <2> QED
    BY <2>1, <2>2, <2>3, <2>4, <2>5, <2>6
<1>3. DisabledPeersDark'
  BY <1>1, <1>2 DEF DisabledPeersDark, TypeOK, Running, EnabledPeers
<1>4. KeysStayUnique' /\ (Running' => Shaped(cfg'))
  BY <1>2 DEF IInv, KeysStayUnique, Running
<1>5. TogglesFollowFile'
  <2>1. CASE fresh' = NoConfig
    BY <2>1 DEF TogglesFollowFile
  <2>2. CASE fresh' # NoConfig
    <3>1. fresh' = fresh /\ pc' = pc /\ cfg' = cfg /\ TogglesFollowFile
      BY <1>2, <2>2 DEF IInv
    <3> QED
      BY <3>1 DEF TogglesFollowFile
  <2> QED
    BY <2>1, <2>2
<1>6. pc' = "apply" \/ fresh' # NoConfig => FreshOK(fresh')
  BY <1>2 DEF IInv
<1> QED
  BY <1>3, <1>4, <1>5, <1>6 DEF IInv

\* Every step of the program, the signals and the editor keeps the invariant.
LEMMA NextKeeps ==
    ASSUME IInv, [Next]_vars
    PROVE  IInv'
<1>1. CASE Next
  BY <1>1, StartKeeps, ReloadLoadsKeeps, ReloadAppliesKeeps, OtherStepsKeep DEF Next, Step
<1>2. CASE UNCHANGED vars
  BY <1>2 DEF vars, flags, IInv, DisabledPeersDark, TypeOK, Running, KeysStayUnique,
     TogglesFollowFile, EnabledPeers
<1> QED
  BY <1>1, <1>2

\* The invariant holds after any edits, signals and reloads, of any files.
THEOREM Invariance == Spec => []IInv
<1>1. IInv /\ [Next]_vars => IInv'
  BY NextKeeps
<1> QED
  BY <1>1, InitIInv, PTL DEF Spec

\* config_reload_toggles never makes two entries of g_cfg share a key that
\* calls, handshakes or the next reload look entries up by.
THEOREM KeysUnique == Spec => []KeysStayUnique
<1>1. IInv => KeysStayUnique
  BY DEF IInv
<1> QED
  BY <1>1, Invariance, PTL

\* After config_reload_toggles every entry that the file has under its name
\* carries the file's toggles, wherever in the file it stands.
THEOREM TogglesFollow == Spec => []TogglesFollowFile
<1>1. IInv => TogglesFollowFile
  BY DEF IInv
<1> QED
  BY <1>1, Invariance, PTL

\* After main's start and after every do_reload no disabled peer has a socket.
THEOREM DisabledDark == Spec => []DisabledPeersDark
<1>1. IInv => DisabledPeersDark
  BY DEF IInv
<1> QED
  BY <1>1, Invariance, PTL
=============================================================================
