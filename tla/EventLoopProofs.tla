--------------------------- MODULE EventLoopProofs ---------------------------
(***************************************************************************)
(* The safety properties of the event loop for any number of descriptors,  *)
(* owners and timers.                                                      *)
(*                                                                         *)
(* For the descriptors: each operation on a table keeps it faithful to its *)
(* callers, an open socket is in exactly one table, and what poll saw of   *)
(* an entry that is still to be dispatched stays true, unless its number   *)
(* is closed or given out again.  The timers are in EventTimersProofs; the *)
(* last section joins the two sides as MCEventLoop does.                   *)
(***************************************************************************)
EXTENDS MCEventLoop, FiniteSetTheorems, SequenceTheorems, TLAPS

\* TablesFaithful for one table, with the map of those who registered there.
Faithful(s, o) ==
    /\ s \in Seq(Entry)
    /\ \A i, j \in DOMAIN s : s[i].fd = s[j].fd => i = j
    /\ \A f \in Fds, u \in Uds : o[f] = u <=> \E i \in DOMAIN s : s[i] = [fd |-> f, ud |-> u]

\* owner[k]
Owners == [Fds -> Uds \cup {NoUd}]

\* A connect is in progress, or over and not yet looked at.
Dialings == {"dialing", "dialed"}

\* What poll saw of an entry that is still to be dispatched holds, unless the
\* number has been closed, or given out again.
SeenHolds(e) ==
    e.fd \notin opened =>
        /\ e.kind = "read" => /\ sock[e.fd] \notin Dialings
                              /\ e.rev /\ sock[e.fd] # "closed" => e.fd \in ready
        /\ e.kind = "write" /\ e.rev => sock[e.fd] # "dialing"

\* The entries still to come are distinct, and what poll saw of them holds.
RoundInv ==
    /\ \A i, j \in DOMAIN pfd :
         pfd[i].kind = pfd[j].kind /\ pfd[i].fd = pfd[j].fd => i = j
    /\ \A i \in pos..Len(pfd) : SeenHolds(pfd[i])

\* What the tables are for: their callers' registrations, and open sockets.
TablesInv ==
    /\ \A k \in Kinds : Faithful(tab[k], owner[k])
    /\ OpenIsWatched

\* ev_stop comes in the dispatch: no round begins, and no timer fires, after it.
StopInv ==
    /\ pc \in {"poll", "timers"} => running
    /\ pc = "timers" => cb = NoCb

\* The inductive invariant.
IInv == TypeOK /\ TablesInv /\ RoundInv /\ StopInv

-----------------------------------------------------------------------------
(* ev_add_fd and ev_del_fd *)

\* A registration is its number and its owner.
LEMMA EntryTypes ==
    /\ \A f \in Fds, u \in Uds : /\ [fd |-> f, ud |-> u] \in Entry
                                 /\ [fd |-> f, ud |-> u].fd = f
                                 /\ [fd |-> f, ud |-> u].ud = u
    /\ \A e \in Entry : e.fd \in Fds /\ e.ud \in Uds /\ e = [fd |-> e.fd, ud |-> e.ud]
  BY DEF Entry

\* A table has a place for each number, so one that is not in it has room.
LEMMA Room ==
    ASSUME NEW s \in Seq(Entry),
           \A i, j \in DOMAIN s : s[i].fd = s[j].fd => i = j
    PROVE  /\ Len(s) <= MaxFds
           /\ \A f \in Fds : ~Has(s, f) => Len(s) < MaxFds
<1>1. Len(s) \in Nat /\ DOMAIN s = 1..Len(s) /\ \A i \in 1..Len(s) : s[i] \in Entry
  BY LenProperties, ElementOfSeq
<1>2. Cardinality(1..Len(s)) = Len(s)
  BY <1>1, FS_Interval
<1>3. ASSUME NEW S \in SUBSET Fds, \A i \in DOMAIN s : s[i].fd \in S
      PROVE  Len(s) <= Cardinality(S)
  <2> DEFINE m == [i \in 1..Len(s) |-> s[i].fd]
  <2>1. m \in Injection(1..Len(s), S)
    BY <1>1, <1>3 DEF Injection, IsInjective
  <2>2. IsFiniteSet(S)
    BY RoomAssumption, FS_Subset
  <2> QED
    BY <1>2, <2>1, <2>2, FS_Injection
<1>4. Len(s) <= Cardinality(Fds)
  BY <1>1, <1>3, EntryTypes
<1>5. Cardinality(Fds) \in Nat
  BY RoomAssumption, FS_CardinalityType
<1>6. ASSUME NEW f \in Fds, ~Has(s, f) PROVE Len(s) < MaxFds
  <2>1. Len(s) <= Cardinality(Fds \ {f})
    BY <1>1, <1>3, <1>6, EntryTypes DEF Has
  <2>2. Cardinality(Fds \ {f}) = Cardinality(Fds) - 1
    BY RoomAssumption, FS_RemoveElement
  <2> QED
    BY <1>1, <1>5, <2>1, <2>2, RoomAssumption
<1> QED
  BY <1>1, <1>4, <1>5, <1>6, RoomAssumption

\* The search finds the entry of the number.
LEMMA IndexFinds ==
    ASSUME NEW s \in Seq(Entry), NEW f \in Fds, Has(s, f),
           \A i, j \in DOMAIN s : s[i].fd = s[j].fd => i = j
    PROVE  /\ IndexOf(s, f) \in DOMAIN s
           /\ s[IndexOf(s, f)].fd = f
           /\ \A j \in DOMAIN s : s[j].fd = f <=> j = IndexOf(s, f)
<1>1. DOMAIN s = 1..Len(s) /\ Len(s) \in Nat
  BY LenProperties
<1>2. PICK i \in DOMAIN s : s[i].fd = f
  BY DEF Has
<1>3. \A j \in 1..(i - 1) : s[j].fd # f
  BY <1>1, <1>2
<1>4. \E n \in DOMAIN s : s[n].fd = f /\ \A j \in 1..(n - 1) : s[j].fd # f
  BY <1>2, <1>3
<1>5. IndexOf(s, f) \in DOMAIN s /\ s[IndexOf(s, f)].fd = f
  BY <1>4 DEF IndexOf
<1> QED
  BY <1>5

\* ev_add_fd: the number has its new owner, the others keep theirs.
LEMMA AddIsFaithful ==
    ASSUME NEW s, NEW o \in Owners, Faithful(s, o), NEW f \in Fds, NEW u \in Uds
    PROVE  /\ Faithful(EvAdd(s, f, u), [o EXCEPT ![f] = u])
           /\ \A g \in Fds : Has(EvAdd(s, f, u), g) <=> g = f \/ Has(s, g)
<1> DEFINE e == [fd |-> f, ud |-> u]
           r == EvAdd(s, f, u)
           p == [o EXCEPT ![f] = u]
<1>1. /\ s \in Seq(Entry) /\ DOMAIN s = 1..Len(s) /\ Len(s) \in Nat
      /\ \A i \in 1..Len(s) : s[i] \in Entry
  BY LenProperties, ElementOfSeq DEF Faithful
<1>2. e \in Entry /\ e.fd = f
  BY EntryTypes
<1>3. p[f] = u /\ \A g \in Fds : g # f => p[g] = o[g]
  BY DEF Owners
<1>4. CASE Has(s, f)
  <2> DEFINE n == IndexOf(s, f)
  <2>1. n \in 1..Len(s) /\ s[n].fd = f /\ \A j \in DOMAIN s : s[j].fd = f <=> j = n
    BY <1>1, <1>4, IndexFinds DEF Faithful
  <2>2. r = [s EXCEPT ![n] = e]
    BY <1>4 DEF EvAdd
  <2> HIDE DEF n, r, e
  <2>3. /\ r \in Seq(Entry) /\ Len(r) = Len(s) /\ DOMAIN r = DOMAIN s
        /\ \A j \in DOMAIN s : r[j] = IF j = n THEN e ELSE s[j]
    BY <1>1, <1>2, <2>1, <2>2, ExceptSeq, LenProperties
  <2>4. \A j \in DOMAIN s : r[j].fd = s[j].fd
    BY <1>2, <2>1, <2>3
  <2>5. \A i, j \in DOMAIN r : r[i].fd = r[j].fd => i = j
    BY <2>3, <2>4 DEF Faithful
  <2>6. ASSUME NEW g \in Fds, NEW v \in Uds
        PROVE  p[g] = v <=> \E i \in DOMAIN r : r[i] = [fd |-> g, ud |-> v]
    <3>1. CASE g = f
      BY <3>1, <1>3, <2>1, <2>3, <2>4, EntryTypes DEF e
    <3>2. CASE g # f
      <4>1. \A i \in DOMAIN s : r[i] = [fd |-> g, ud |-> v] <=> s[i] = [fd |-> g, ud |-> v]
        BY <3>2, <2>1, <2>3, <1>2, EntryTypes
      <4> QED
        BY <4>1, <3>2, <1>3, <2>3 DEF Faithful
    <3> QED
      BY <3>1, <3>2
  <2>7. \A g \in Fds : Has(r, g) <=> g = f \/ Has(s, g)
    BY <1>4, <2>3, <2>4 DEF Has
  <2> QED
    BY <2>3, <2>5, <2>6, <2>7 DEF Faithful, r
<1>5. CASE ~Has(s, f)
  <2>1. Len(s) < MaxFds
    BY <1>1, <1>5, Room DEF Faithful
  <2>2. r = Append(s, e)
    BY <1>5, <2>1 DEF EvAdd
  <2> HIDE DEF r, e
  <2>3. /\ r \in Seq(Entry) /\ Len(r) = Len(s) + 1 /\ DOMAIN r = 1..(Len(s) + 1)
        /\ \A j \in 1..Len(s) : r[j] = s[j]
        /\ r[Len(s) + 1] = e
    BY <1>1, <1>2, <2>2, AppendProperties, LenProperties
  <2>4. \A j \in 1..Len(s) : s[j].fd # f
    BY <1>1, <1>5 DEF Has
  <2>5. \A i, j \in DOMAIN r : r[i].fd = r[j].fd => i = j
    <3> SUFFICES ASSUME NEW i \in DOMAIN r, NEW j \in DOMAIN r, r[i].fd = r[j].fd PROVE i = j
      OBVIOUS
    <3>1. CASE i \in 1..Len(s) /\ j \in 1..Len(s)
      BY <3>1, <1>1, <2>3 DEF Faithful
    <3>2. CASE i = Len(s) + 1 /\ j \in 1..Len(s)
      BY <3>2, <1>2, <2>3, <2>4
    <3>3. CASE j = Len(s) + 1 /\ i \in 1..Len(s)
      BY <3>3, <1>2, <2>3, <2>4
    <3>4. CASE j = Len(s) + 1 /\ i = Len(s) + 1
      BY <3>4
    <3> QED
      BY <3>1, <3>2, <3>3, <3>4, <1>1, <2>3
  <2>6. ASSUME NEW g \in Fds, NEW v \in Uds
        PROVE  p[g] = v <=> \E i \in DOMAIN r : r[i] = [fd |-> g, ud |-> v]
    <3>1. CASE g = f
      <4>1. \A i \in 1..Len(s) : r[i] # [fd |-> g, ud |-> v]
        BY <3>1, <2>3, <2>4, EntryTypes
      <4>2. e = [fd |-> g, ud |-> v] <=> u = v
        BY <3>1, EntryTypes DEF e
      <4> QED
        BY <4>1, <4>2, <3>1, <1>3, <2>3, <1>1
    <3>2. CASE g # f
      <4>1. e # [fd |-> g, ud |-> v]
        BY <3>2, <1>2, EntryTypes
      <4>2. (\E i \in DOMAIN r : r[i] = [fd |-> g, ud |-> v])
              <=> \E i \in DOMAIN s : s[i] = [fd |-> g, ud |-> v]
        BY <4>1, <1>1, <2>3
      <4> QED
        BY <4>2, <3>2, <1>3 DEF Faithful
    <3> QED
      BY <3>1, <3>2
  <2>7. \A g \in Fds : Has(r, g) <=> g = f \/ Has(s, g)
    BY <1>1, <1>2, <2>3 DEF Has
  <2> QED
    BY <2>3, <2>5, <2>6, <2>7 DEF Faithful, r
<1> QED
  BY <1>4, <1>5

\* ev_del_fd: the number is gone, the others keep their owners.
LEMMA DelIsFaithful ==
    ASSUME NEW s, NEW o \in Owners, Faithful(s, o), NEW f \in Fds
    PROVE  /\ Faithful(EvDel(s, f), [o EXCEPT ![f] = NoUd])
           /\ \A g \in Fds : Has(EvDel(s, f), g) <=> g # f /\ Has(s, g)
<1> DEFINE r == EvDel(s, f)
           p == [o EXCEPT ![f] = NoUd]
<1>1. /\ s \in Seq(Entry) /\ DOMAIN s = 1..Len(s) /\ Len(s) \in Nat
      /\ \A i \in 1..Len(s) : s[i] \in Entry
  BY LenProperties, ElementOfSeq DEF Faithful
<1>2. p[f] = NoUd /\ \A g \in Fds : g # f => p[g] = o[g]
  BY DEF Owners
<1>3. CASE ~Has(s, f)
  <2>1. r = s
    BY <1>3 DEF EvDel
  <2>2. \A u \in Uds : \A i \in DOMAIN s : s[i] # [fd |-> f, ud |-> u]
    BY <1>3, EntryTypes DEF Has
  <2>3. ASSUME NEW g \in Fds, NEW v \in Uds
        PROVE  p[g] = v <=> \E i \in DOMAIN s : s[i] = [fd |-> g, ud |-> v]
    BY <1>2, <2>2, UdAssumption DEF Faithful
  <2> QED
    BY <1>3, <2>1, <2>3 DEF Faithful
<1>4. CASE Has(s, f)
  <2> DEFINE n == IndexOf(s, f)
             m == Len(s) - 1
  <2>1. n \in 1..Len(s) /\ s[n].fd = f /\ \A j \in DOMAIN s : s[j].fd = f <=> j = n
    BY <1>1, <1>4, IndexFinds DEF Faithful
  <2>2. r = [j \in 1..m |-> IF j = n THEN s[Len(s)] ELSE s[j]]
    BY <1>4 DEF EvDel
  <2>3. m \in Nat /\ Len(s) = m + 1
    BY <1>1, <2>1
  <2> HIDE DEF n, r, m
  <2>4. r \in Seq(Entry)
    <3>1. r \in [1..m -> Entry]
      BY <1>1, <2>1, <2>2, <2>3
    <3> QED
      BY <2>3, <3>1, SeqDef
  <2>5. DOMAIN r = 1..m /\ \A j \in 1..m : r[j] = IF j = n THEN s[m + 1] ELSE s[j]
    BY <2>2, <2>3
  <2>6. \A i, j \in DOMAIN r : r[i].fd = r[j].fd => i = j
    <3> SUFFICES ASSUME NEW i \in 1..m, NEW j \in 1..m, r[i].fd = r[j].fd PROVE i = j
      BY <2>5
    <3>1. CASE i # n /\ j # n
      BY <3>1, <1>1, <2>3, <2>5 DEF Faithful
    <3>2. CASE i = n /\ j # n
      <4>1. s[m + 1].fd = s[j].fd
        BY <3>2, <2>5
      <4> QED
        BY <4>1, <1>1, <2>3 DEF Faithful
    <3>3. CASE i # n /\ j = n
      <4>1. s[m + 1].fd = s[i].fd
        BY <3>3, <2>5
      <4> QED
        BY <4>1, <1>1, <2>3 DEF Faithful
    <3> QED
      BY <3>1, <3>2, <3>3
  <2>7. ASSUME NEW x, x.fd # f
        PROVE  (\E i \in DOMAIN r : r[i] = x) <=> \E i \in DOMAIN s : s[i] = x
    <3>1. ASSUME NEW i \in DOMAIN r, r[i] = x PROVE \E j \in DOMAIN s : s[j] = x
      BY <3>1, <1>1, <2>3, <2>5
    <3>2. ASSUME NEW i \in DOMAIN s, s[i] = x PROVE \E j \in DOMAIN r : r[j] = x
      <4>1. i # n
        BY <3>2, <2>7, <2>1
      <4>2. CASE i = m + 1
        <5>1. n \in 1..m /\ r[n] = x
          BY <4>1, <4>2, <3>2, <1>1, <2>1, <2>3, <2>5
        <5> QED
          BY <5>1, <2>5
      <4>3. CASE i # m + 1
        BY <4>1, <4>3, <3>2, <1>1, <2>3, <2>5
      <4> QED
        BY <4>2, <4>3
    <3> QED
      BY <3>1, <3>2
  <2>8. \A i \in DOMAIN r : r[i].fd # f
    BY <1>1, <2>1, <2>3, <2>5
  <2>9. ASSUME NEW g \in Fds, NEW v \in Uds
        PROVE  p[g] = v <=> \E i \in DOMAIN r : r[i] = [fd |-> g, ud |-> v]
    <3>1. CASE g = f
      BY <3>1, <1>2, <2>8, EntryTypes, UdAssumption
    <3>2. CASE g # f
      BY <3>2, <1>2, <2>7, EntryTypes DEF Faithful
    <3> QED
      BY <3>1, <3>2
  <2>10. ASSUME NEW g \in Fds PROVE Has(r, g) <=> g # f /\ Has(s, g)
    <3>1. CASE g = f
      BY <3>1, <2>8 DEF Has
    <3>2. CASE g # f
      BY <3>2, <2>7 DEF Has
    <3> QED
      BY <3>1, <3>2
  <2> QED
    BY <2>4, <2>6, <2>9, <2>10 DEF Faithful, r
<1> QED
  BY <1>3, <1>4

-----------------------------------------------------------------------------
(* The invariant *)

\* What TypeOK says of tables, owners and pfd, in the form the steps use.
LEMMA TypeFacts ==
    ASSUME TypeOK
    PROVE  /\ \A k \in Kinds : owner[k] \in Owners /\ tab[k] \in Seq(Entry)
           /\ tab = [k \in Kinds |-> tab[k]] /\ owner = [k \in Kinds |-> owner[k]]
           /\ "read" \in Kinds /\ "write" \in Kinds /\ Kinds = {"read", "write"}
           /\ Len(pfd) \in Nat /\ pos \in Nat /\ DOMAIN pfd = 1..Len(pfd)
           /\ \A i \in 1..Len(pfd) : pfd[i] \in Polled
  BY LenProperties, ElementOfSeq DEF TypeOK, Kinds, Owners

\* Nothing is registered at first.
LEMMA InitIInv == Init => IInv
<1> SUFFICES ASSUME Init PROVE IInv
  OBVIOUS
<1>1. TypeOK
  BY EmptySeq DEF Init, TypeOK, Kinds, SockStates
<1>2. \A k \in Kinds : tab[k] = <<>> /\ owner[k] = [f \in Fds |-> NoUd]
  BY DEF Init
<1>3. Faithful(<<>>, [f \in Fds |-> NoUd])
  BY UdAssumption, EmptySeq DEF Faithful
<1>4. OpenIsWatched
  BY <1>2 DEF OpenIsWatched, Has, Init, Kinds
<1>5. RoundInv
  BY DEF RoundInv, Init
<1> QED
  BY <1>1, <1>2, <1>3, <1>4, <1>5 DEF IInv, TablesInv, StopInv, Init

-----------------------------------------------------------------------------
(* The tables *)

\* A step that adds f for u to table k and leaves the other alone.
LEMMA AddKeepsTables ==
    ASSUME TypeOK, TablesInv, NEW k \in Kinds, NEW f \in Fds, NEW u \in Uds,
           tab' = [tab EXCEPT ![k] = EvAdd(@, f, u)],
           owner' = [owner EXCEPT ![k][f] = u]
    PROVE  /\ tab' \in [Kinds -> Seq(Entry)]
           /\ owner' \in [Kinds -> Owners]
           /\ \A j \in Kinds : Faithful(tab'[j], owner'[j])
           /\ \A j \in Kinds, g \in Fds : Has(tab'[j], g) <=> (j = k /\ g = f) \/ Has(tab[j], g)
<1>1. owner[k] \in Owners /\ Faithful(tab[k], owner[k])
  BY TypeFacts DEF TablesInv
<1>2. tab'[k] = EvAdd(tab[k], f, u) /\ owner'[k] = [owner[k] EXCEPT ![f] = u]
  BY DEF TypeOK
<1>3. \A j \in Kinds \ {k} : tab'[j] = tab[j] /\ owner'[j] = owner[j]
  BY DEF TypeOK
<1>4. /\ Faithful(tab'[k], owner'[k]) /\ owner'[k] \in Owners
      /\ \A g \in Fds : Has(tab'[k], g) <=> g = f \/ Has(tab[k], g)
  BY <1>1, <1>2, AddIsFaithful DEF Owners
<1>5. \A j \in Kinds : Faithful(tab'[j], owner'[j]) /\ owner'[j] \in Owners
  BY <1>3, <1>4, TypeFacts DEF TablesInv
<1>6. tab' \in [Kinds -> Seq(Entry)] /\ owner' \in [Kinds -> Owners]
  BY <1>5 DEF Faithful, TypeOK
<1> QED
  BY <1>3, <1>4, <1>5, <1>6

\* A step that removes f from the tables of ks.
LEMMA DelKeepsTables ==
    ASSUME TypeOK, TablesInv, NEW f \in Fds, NEW ks \in SUBSET Kinds,
           tab' = [k \in Kinds |-> IF k \in ks THEN EvDel(tab[k], f) ELSE tab[k]],
           owner' = [k \in Kinds |-> IF k \in ks THEN [owner[k] EXCEPT ![f] = NoUd]
                                     ELSE owner[k]]
    PROVE  /\ tab' \in [Kinds -> Seq(Entry)]
           /\ owner' \in [Kinds -> Owners]
           /\ \A k \in Kinds : Faithful(tab'[k], owner'[k])
           /\ \A k \in Kinds, g \in Fds :
                Has(tab'[k], g) <=> ~(k \in ks /\ g = f) /\ Has(tab[k], g)
<1>1. ASSUME NEW k \in Kinds
      PROVE  /\ Faithful(tab'[k], owner'[k]) /\ owner'[k] \in Owners
             /\ \A g \in Fds : Has(tab'[k], g) <=> ~(k \in ks /\ g = f) /\ Has(tab[k], g)
  <2>1. owner[k] \in Owners /\ Faithful(tab[k], owner[k])
    BY TypeFacts DEF TablesInv
  <2>2. CASE k \in ks
    BY <2>1, <2>2, DelIsFaithful DEF Owners
  <2>3. CASE k \notin ks
    BY <2>1, <2>3
  <2> QED
    BY <2>2, <2>3
<1>2. tab' \in [Kinds -> Seq(Entry)] /\ owner' \in [Kinds -> Owners]
  BY <1>1 DEF Faithful
<1> QED
  BY <1>1, <1>2

\* A step that leaves pfd alone is checked entry by entry.
LEMMA RoundKept ==
    ASSUME TypeOK, RoundInv, UNCHANGED pfd, pos' \in {pos, pos + 1},
           \A i \in 1..Len(pfd) : i >= pos' /\ SeenHolds(pfd[i]) => SeenHolds(pfd[i])'
    PROVE  RoundInv'
<1>1. Len(pfd) \in Nat /\ pos \in Nat /\ pos >= 1 /\ pos' \in Nat /\ pos' >= pos
  BY TypeFacts DEF TypeOK
<1>2. ASSUME NEW i \in pos'..Len(pfd') PROVE SeenHolds(pfd[i])'
  <2>1. i \in 1..Len(pfd) /\ i \in pos..Len(pfd) /\ i >= pos'
    BY <1>1
  <2> QED
    BY <2>1 DEF RoundInv
<1> QED
  BY <1>2 DEF RoundInv

\* A number that the step does not touch is seen as before.
LEMMA SeenStays ==
    ASSUME TypeOK, UNCHANGED pfd, NEW i \in 1..Len(pfd), SeenHolds(pfd[i]),
           opened \subseteq opened',
           \/ pfd[i].fd \in opened'
           \/ /\ sock'[pfd[i].fd] = sock[pfd[i].fd]
              /\ pfd[i].fd \in ready => pfd[i].fd \in ready'
    PROVE  SeenHolds(pfd[i])'
  BY DEF SeenHolds

-----------------------------------------------------------------------------
(* Every step keeps IInv *)

\* A closed number is given out and registered in one of the tables.
LEMMA OpeningKeeps ==
    ASSUME IInv, NEW f \in Fds, NEW u \in Uds, NEW k \in Kinds, NEW type,
           type \in (IF k = "read" THEN {"udp", "tcp"} ELSE {"dialing"}),
           sock[f] = "closed",
           sock' = [sock EXCEPT ![f] = type],
           tab' = [tab EXCEPT ![k] = EvAdd(@, f, u)],
           owner' = [owner EXCEPT ![k][f] = u],
           opened' = opened \cup {f},
           UNCHANGED <<loopVars, cb, ready>>
    PROVE  IInv'
<1>1. /\ TypeOK /\ TablesInv /\ RoundInv /\ sock \in [Fds -> SockStates]
      /\ Kinds = {"read", "write"}
  BY DEF IInv, TypeOK, Kinds
<1>2. /\ tab' \in [Kinds -> Seq(Entry)] /\ owner' \in [Kinds -> Owners]
      /\ \A j \in Kinds : Faithful(tab'[j], owner'[j])
      /\ \A j \in Kinds, g \in Fds : Has(tab'[j], g) <=> (j = k /\ g = f) \/ Has(tab[j], g)
  BY <1>1, AddKeepsTables
<1>3. UNCHANGED <<running, pc, pfd, pos, cb, ready>>
  BY DEF loopVars
<1>4. TypeOK'
  BY <1>1, <1>2, <1>3 DEF TypeOK, SockStates, Owners
<1>5. OpenIsWatched'
  BY <1>1, <1>2 DEF TablesInv, OpenIsWatched
<1>6. RoundInv'
  <2>1. ASSUME NEW i \in 1..Len(pfd), SeenHolds(pfd[i]) PROVE SeenHolds(pfd[i])'
    <3>1. pfd[i].fd \in Fds
      BY <1>1, TypeFacts DEF Polled
    <3> QED
      BY <1>1, <1>3, <2>1, <3>1, SeenStays
  <2> QED
    BY <1>1, <1>3, <2>1, RoundKept
<1> QED
  BY <1>2, <1>3, <1>4, <1>5, <1>6 DEF IInv, TablesInv, StopInv

\* A callback opens a socket and registers it for reading.
LEMMA OpenForReadingKeeps ==
    ASSUME IInv, NEW f \in Fds, NEW u \in Uds, NEW type \in {"udp", "tcp"},
           OpenForReading(f, u, type)
    PROVE  IInv'
<1>1. "read" \in Kinds
  BY DEF Kinds
<1>2. /\ sock[f] = "closed" /\ sock' = [sock EXCEPT ![f] = type]
      /\ tab' = [tab EXCEPT !["read"] = EvAdd(@, f, u)]
      /\ owner' = [owner EXCEPT !["read"][f] = u]
      /\ opened' = opened \cup {f}
      /\ UNCHANGED <<loopVars, cb, ready>>
  BY DEF OpenForReading, Free
<1> QED
  BY <1>1, <1>2, OpeningKeeps, Zenon

\* A callback starts a connection and registers it for writing.
LEMMA DialKeeps ==
    ASSUME IInv, NEW f \in Fds, NEW u \in Uds, Dial(f, u)
    PROVE  IInv'
<1>1. "write" \in Kinds
  BY DEF Kinds
<1> QED
  BY <1>1, OpeningKeeps DEF Dial, Free

\* A callback hands a connection to another owner (its pending slot to its link).
LEMMA HandOverKeeps ==
    ASSUME IInv, NEW f \in Fds, NEW u \in Uds, HandOver(f, u)
    PROVE  IInv'
<1>1. /\ TypeOK /\ TablesInv /\ RoundInv /\ sock[f] = "tcp"
      /\ "read" \in Kinds /\ Kinds = {"read", "write"}
  BY DEF IInv, HandOver, Kinds
<1>2. /\ tab' \in [Kinds -> Seq(Entry)] /\ owner' \in [Kinds -> Owners]
      /\ \A j \in Kinds : Faithful(tab'[j], owner'[j])
      /\ \A j \in Kinds, g \in Fds : Has(tab'[j], g) <=> (j = "read" /\ g = f) \/ Has(tab[j], g)
  <2>1. /\ tab' = [tab EXCEPT !["read"] = EvAdd(@, f, u)]
        /\ owner' = [owner EXCEPT !["read"][f] = u]
    BY DEF HandOver
  <2> QED
    BY <1>1, <2>1, AddKeepsTables
<1>3. UNCHANGED <<running, pc, pfd, pos, cb, sock, ready, opened>>
  BY DEF HandOver, loopVars
<1>4. TypeOK'
  BY <1>1, <1>2, <1>3 DEF TypeOK, Owners
<1>5. OpenIsWatched'
  BY <1>1, <1>2, <1>3 DEF TablesInv, OpenIsWatched
<1>6. RoundInv'
  BY <1>1, <1>3, RoundKept, SeenStays
<1> QED
  BY <1>2, <1>3, <1>4, <1>5, <1>6 DEF IInv, TablesInv, StopInv

\* A callback removes a descriptor and closes it.
LEMMA DropKeeps ==
    ASSUME IInv, NEW f \in Fds, Drop(f)
    PROVE  IInv'
<1>1. /\ TypeOK /\ TablesInv /\ RoundInv /\ sock \in [Fds -> SockStates]
      /\ Kinds = {"read", "write"}
  BY DEF IInv, TypeOK, Kinds
<1>2. /\ tab' \in [Kinds -> Seq(Entry)] /\ owner' \in [Kinds -> Owners]
      /\ \A k \in Kinds : Faithful(tab'[k], owner'[k])
      /\ \A k \in Kinds, g \in Fds : Has(tab'[k], g) <=> g # f /\ Has(tab[k], g)
  <2>1. /\ tab' = [k \in Kinds |-> IF k \in Kinds THEN EvDel(tab[k], f) ELSE tab[k]]
        /\ owner' = [k \in Kinds |-> IF k \in Kinds THEN [owner[k] EXCEPT ![f] = NoUd]
                                     ELSE owner[k]]
    BY DEF Drop
  <2> QED
    BY <1>1, <2>1, DelKeepsTables
<1>3. /\ sock' = [sock EXCEPT ![f] = "closed"] /\ ready' = ready \ {f}
      /\ UNCHANGED <<running, pc, pfd, pos, cb, opened>>
  BY DEF Drop, Closed, loopVars
<1>4. TypeOK'
  BY <1>1, <1>2, <1>3 DEF TypeOK, SockStates, Owners
<1>5. OpenIsWatched'
  BY <1>1, <1>2, <1>3 DEF TablesInv, OpenIsWatched
<1>6. RoundInv'
  <2>1. ASSUME NEW i \in 1..Len(pfd), SeenHolds(pfd[i]) PROVE SeenHolds(pfd[i])'
    <3>1. pfd[i].fd \in Fds
      BY <1>1, TypeFacts DEF Polled
    <3>2. CASE pfd[i].fd = f
      BY <1>1, <1>3, <3>1, <3>2 DEF SeenHolds, Dialings
    <3>3. CASE pfd[i].fd # f
      BY <1>1, <1>3, <2>1, <3>1, <3>3, SeenStays
    <3> QED
      BY <3>2, <3>3
  <2> QED
    BY <1>1, <1>3, <2>1, RoundKept
<1> QED
  BY <1>2, <1>3, <1>4, <1>5, <1>6 DEF IInv, TablesInv, StopInv

\* The kernel's steps do not take back what poll saw.
LEMMA KernelKeeps ==
    ASSUME IInv, NEW f \in Fds, Arrives(f) \/ ConnectOver(f)
    PROVE  IInv'
<1>1. /\ TypeOK /\ TablesInv /\ RoundInv /\ sock \in [Fds -> SockStates]
  BY DEF IInv, TypeOK
<1>2. UNCHANGED <<tab, owner, running, pc, pfd, pos, cb, opened>>
  BY DEF Arrives, ConnectOver, loopVars
<1>3. CASE Arrives(f)
  <2>1. TypeOK' /\ OpenIsWatched'
    BY <1>1, <1>2, <1>3 DEF TypeOK, TablesInv, OpenIsWatched, Arrives
  <2>2. RoundInv'
    BY <1>1, <1>2, <1>3, RoundKept, SeenStays DEF Arrives
  <2> QED
    BY <1>1, <1>2, <2>1, <2>2 DEF IInv, TablesInv, StopInv
<1>4. CASE ConnectOver(f)
  <2>1. sock' = [sock EXCEPT ![f] = "dialed"] /\ sock[f] = "dialing" /\ ready' = ready
    BY <1>4 DEF ConnectOver
  <2>2. TypeOK'
    BY <1>1, <1>2, <2>1 DEF TypeOK, SockStates
  <2>3. OpenIsWatched'
    BY <1>1, <1>2, <2>1 DEF TablesInv, OpenIsWatched
  <2>4. RoundInv'
    <3>1. ASSUME NEW i \in 1..Len(pfd), SeenHolds(pfd[i]) PROVE SeenHolds(pfd[i])'
      <4>1. pfd[i].fd \in Fds
        BY <1>1, TypeFacts DEF Polled
      <4> QED
        BY <1>1, <1>2, <2>1, <3>1, <4>1 DEF SeenHolds, Dialings
    <3> QED
      BY <1>1, <1>2, <3>1, RoundKept
  <2> QED
    BY <1>1, <1>2, <2>2, <2>3, <2>4 DEF IInv, TablesInv, StopInv
<1> QED
  BY <1>3, <1>4

\* An entry that is found at its index is that of its number's owner.
LEMMA HitIsOwned ==
    ASSUME IInv, AtEntry, Hit(pfd[pos])
    PROVE  LET e == pfd[pos]
               u == tab[e.kind][e.idx].ud
           IN  /\ pos \in 1..Len(pfd) /\ e.kind \in Kinds /\ e.fd \in Fds /\ e.rev /\ u \in Uds
               /\ Has(tab[e.kind], e.fd) /\ owner[e.kind][e.fd] = u
               /\ SeenHolds(e)
<1> DEFINE e == pfd[pos]
           u == tab[e.kind][e.idx].ud
<1>1. TypeOK /\ TablesInv /\ RoundInv
  BY DEF IInv
<1>2. pos \in 1..Len(pfd) /\ pos \in pos..Len(pfd)
  BY <1>1, TypeFacts DEF AtEntry, TypeOK
<1>3. e \in Polled /\ e.kind \in Kinds /\ e.fd \in Fds /\ e.idx \in Nat /\ e.idx >= 1
  BY <1>1, <1>2, TypeFacts DEF Polled
<1>4. e.rev /\ e.idx <= Len(tab[e.kind]) /\ tab[e.kind][e.idx].fd = e.fd
  BY DEF Hit
<1>5. Faithful(tab[e.kind], owner[e.kind]) /\ tab[e.kind] \in Seq(Entry)
  BY <1>1, <1>3 DEF TablesInv, Faithful
<1>6. e.idx \in DOMAIN tab[e.kind] /\ tab[e.kind][e.idx] \in Entry
  BY <1>3, <1>4, <1>5, LenProperties, ElementOfSeq
<1>7. u \in Uds /\ tab[e.kind][e.idx] = [fd |-> e.fd, ud |-> u]
  BY <1>4, <1>6, EntryTypes
<1>8. owner[e.kind][e.fd] = u
  BY <1>3, <1>5, <1>6, <1>7 DEF Faithful
<1>9. Has(tab[e.kind], e.fd)
  BY <1>4, <1>6 DEF Has
<1> QED
  BY <1>1, <1>2, <1>3, <1>4, <1>7, <1>8, <1>9 DEF RoundInv

\* Only one entry of pfd is for the reading of a number.
LEMMA CallReaderKeeps ==
    ASSUME IInv, CallReader
    PROVE  IInv'
<1> DEFINE f == pfd[pos].fd
<1>1. /\ TypeOK /\ TablesInv /\ RoundInv /\ pos \in 1..Len(pfd) /\ f \in Fds
      /\ tab["read"][pfd[pos].idx].ud \in Uds /\ pfd[pos].kind = "read"
  BY HitIsOwned DEF IInv, CallReader
<1>2. /\ UNCHANGED <<tab, running, pc, pfd, sock, owner, opened>>
      /\ pos' = pos + 1 /\ ready' = ready \ {f}
      /\ cb' = [fd |-> f, ud |-> tab["read"][pfd[pos].idx].ud]
  BY DEF CallReader
<1>3. Len(pfd) \in Nat /\ pos \in Nat /\ DOMAIN pfd = 1..Len(pfd)
  BY <1>1, TypeFacts
<1>4. TypeOK'
  <2>1. cb' \in Entry
    BY <1>1, <1>2, EntryTypes
  <2>2. pos' \in 1..(Len(pfd') + 1)
    BY <1>1, <1>2, <1>3
  <2> QED
    BY <1>1, <1>2, <2>1, <2>2 DEF TypeOK
<1>5. OpenIsWatched'
  BY <1>1, <1>2 DEF TablesInv, OpenIsWatched
<1>6. RoundInv'
  <2>1. ASSUME NEW i \in 1..Len(pfd), i >= pos', SeenHolds(pfd[i]) PROVE SeenHolds(pfd[i])'
    <3>1. CASE pfd[i].fd = f
      <4>1. pfd[i].kind # "read"
        BY <1>1, <1>2, <1>3, <2>1, <3>1 DEF RoundInv
      <4> QED
        BY <4>1, <1>2, <2>1 DEF SeenHolds
    <3>2. CASE pfd[i].fd # f
      BY <1>1, <1>2, <2>1, <3>2, SeenStays
    <3> QED
      BY <3>1, <3>2
  <2> QED
    BY <1>1, <1>2, <2>1, RoundKept
<1> QED
  BY <1>1, <1>2, <1>4, <1>5, <1>6 DEF IInv, TablesInv, StopInv, CallReader, AtEntry

\* The number leaves the table of connects; an entry for its reading, if there
\* is one, is of an earlier socket.
LEMMA CallConnectedKeeps ==
    ASSUME IInv, NEW failed \in BOOLEAN, CallConnected(failed)
    PROVE  IInv'
<1> DEFINE f == pfd[pos].fd
           u == tab["write"][pfd[pos].idx].ud
<1>1. /\ TypeOK /\ TablesInv /\ RoundInv /\ pos \in 1..Len(pfd) /\ f \in Fds
      /\ u \in Uds /\ pfd[pos].kind = "write" /\ Has(tab["write"], f)
      /\ Kinds = {"read", "write"} /\ "write" \in Kinds /\ "read" \in Kinds
      /\ sock \in [Fds -> SockStates]
  BY HitIsOwned DEF IInv, CallConnected, TypeOK, Kinds
<1>2. /\ UNCHANGED <<running, pc, pfd, opened>> /\ pos' = pos + 1
      /\ cb' = [fd |-> f, ud |-> u]
  BY DEF CallConnected
<1>3. Len(pfd) \in Nat /\ pos \in Nat /\ DOMAIN pfd = 1..Len(pfd)
  BY <1>1, TypeFacts
<1>4. sock[f] \in Dialings
  BY <1>1 DEF TablesInv, OpenIsWatched, Dialings
<1>5. cb' \in Entry /\ pos' \in 1..(Len(pfd') + 1)
  BY <1>1, <1>2, <1>3, EntryTypes
<1> HIDE DEF f, u
<1>6. CASE failed
  <2>1. /\ sock' = [sock EXCEPT ![f] = "closed"] /\ ready' = ready \ {f}
        /\ tab' = [tab EXCEPT !["write"] = EvDel(@, f)]
        /\ owner' = [owner EXCEPT !["write"][f] = NoUd]
    BY <1>6 DEF CallConnected, Closed, f
  <2>2. /\ tab' = [k \in Kinds |-> IF k \in {"write"} THEN EvDel(tab[k], f) ELSE tab[k]]
        /\ owner' = [k \in Kinds |-> IF k \in {"write"} THEN [owner[k] EXCEPT ![f] = NoUd]
                                     ELSE owner[k]]
    BY <1>1, <2>1 DEF TypeOK
  <2>3. /\ tab' \in [Kinds -> Seq(Entry)] /\ owner' \in [Kinds -> Owners]
        /\ \A k \in Kinds : Faithful(tab'[k], owner'[k])
        /\ \A k \in Kinds, g \in Fds :
             Has(tab'[k], g) <=> ~(k \in {"write"} /\ g = f) /\ Has(tab[k], g)
    BY <1>1, <2>2, DelKeepsTables
  <2>4. TypeOK'
    BY <1>1, <1>2, <1>5, <2>1, <2>3 DEF TypeOK, SockStates, Owners
  <2>5. OpenIsWatched'
    BY <1>1, <1>4, <2>1, <2>3 DEF TablesInv, OpenIsWatched, Dialings
  <2>6. RoundInv'
    <3>1. ASSUME NEW i \in 1..Len(pfd), SeenHolds(pfd[i]) PROVE SeenHolds(pfd[i])'
      <4>1. CASE pfd[i].fd = f
        BY <1>1, <1>2, <2>1, <4>1 DEF SeenHolds, Dialings
      <4>2. CASE pfd[i].fd # f
        <5>1. pfd[i].fd \in Fds
          BY <1>1, TypeFacts DEF Polled
        <5> QED
          BY <1>1, <1>2, <2>1, <3>1, <4>2, <5>1, SeenStays
      <4> QED
        BY <4>1, <4>2
    <3> QED
      BY <1>1, <1>2, <3>1, RoundKept
  <2> QED
    BY <1>2, <2>3, <2>4, <2>5, <2>6 DEF IInv, TablesInv, StopInv, CallConnected, AtEntry
<1>7. CASE ~failed
  <2>1. /\ sock' = [sock EXCEPT ![f] = "tcp"] /\ ready' = ready
        /\ tab' = [tab EXCEPT !["write"] = EvDel(@, f), !["read"] = EvAdd(@, f, u)]
        /\ owner' = [owner EXCEPT !["write"][f] = NoUd, !["read"][f] = u]
    BY <1>7 DEF CallConnected, f, u
  <2>2. /\ owner["read"] \in Owners /\ owner["write"] \in Owners
        /\ Faithful(tab["read"], owner["read"]) /\ Faithful(tab["write"], owner["write"])
    BY <1>1, TypeFacts DEF TablesInv
  <2>3. /\ tab'["write"] = EvDel(tab["write"], f) /\ tab'["read"] = EvAdd(tab["read"], f, u)
        /\ owner'["write"] = [owner["write"] EXCEPT ![f] = NoUd]
        /\ owner'["read"] = [owner["read"] EXCEPT ![f] = u]
        /\ DOMAIN tab' = Kinds /\ DOMAIN owner' = Kinds
        /\ tab' = [k \in Kinds |-> tab'[k]] /\ owner' = [k \in Kinds |-> owner'[k]]
    BY <1>1, <2>1 DEF TypeOK
  <2>4. /\ Faithful(tab'["write"], owner'["write"])
        /\ \A g \in Fds : Has(tab'["write"], g) <=> g # f /\ Has(tab["write"], g)
    BY <1>1, <2>2, <2>3, DelIsFaithful
  <2>5. /\ Faithful(tab'["read"], owner'["read"])
        /\ \A g \in Fds : Has(tab'["read"], g) <=> g = f \/ Has(tab["read"], g)
    BY <1>1, <2>2, <2>3, AddIsFaithful
  <2>6. owner'["read"] \in Owners /\ owner'["write"] \in Owners
    BY <1>1, <2>2, <2>3 DEF Owners
  <2>7. TypeOK'
    <3>1. tab' \in [Kinds -> Seq(Entry)] /\ owner' \in [Kinds -> Owners]
      BY <1>1, <2>3, <2>4, <2>5, <2>6 DEF Faithful
    <3> QED
      BY <1>1, <1>2, <1>5, <2>1, <3>1 DEF TypeOK, SockStates, Owners
  <2>8. OpenIsWatched'
    BY <1>1, <1>4, <2>1, <2>4, <2>5 DEF TablesInv, OpenIsWatched, Dialings
  <2>9. RoundInv'
    <3>1. ASSUME NEW i \in 1..Len(pfd), i >= pos', SeenHolds(pfd[i]) PROVE SeenHolds(pfd[i])'
      <4>1. CASE pfd[i].fd = f
        <5>1. pfd[i].kind # "write"
          BY <1>1, <1>2, <1>3, <3>1, <4>1 DEF RoundInv, f
        <5>2. pfd[i].kind = "read"
          BY <5>1, <1>1, TypeFacts DEF Polled
        <5> QED
          BY <1>2, <1>4, <3>1, <4>1, <5>2 DEF SeenHolds
      <4>2. CASE pfd[i].fd # f
        <5>1. pfd[i].fd \in Fds
          BY <1>1, TypeFacts DEF Polled
        <5> QED
          BY <1>1, <1>2, <2>1, <3>1, <4>2, <5>1, SeenStays
      <4> QED
        BY <4>1, <4>2
    <3> QED
      BY <1>1, <1>2, <3>1, RoundKept
  <2> QED
    BY <1>1, <1>2, <2>4, <2>5, <2>7, <2>8, <2>9
    DEF IInv, TablesInv, StopInv, CallConnected, AtEntry
<1> QED
  BY <1>6, <1>7

\* pfd lists the registrations of a table, with what poll says of each.
LEMMA SnapshotOf ==
    ASSUME IInv, NEW k \in Kinds
    PROVE  /\ Snapshot(k) \in Seq(Polled)
           /\ \A i \in 1..Len(Snapshot(k)) :
                LET e == Snapshot(k)[i]
                IN  /\ e.kind = k /\ e.fd \in Fds /\ Has(tab[k], e.fd)
                    /\ e.rev <=> Revents(k, e.fd)
           /\ \A i, j \in 1..Len(Snapshot(k)) :
                Snapshot(k)[i].fd = Snapshot(k)[j].fd => i = j
<1> DEFINE s == tab[k]
<1>1. /\ Faithful(s, owner[k]) /\ s \in Seq(Entry)
      /\ Len(s) \in Nat /\ DOMAIN s = 1..Len(s) /\ \A i \in 1..Len(s) : s[i] \in Entry
  BY LenProperties, ElementOfSeq DEF IInv, TablesInv, Faithful
<1>2. Len(s) <= MaxFds /\ MaxFds \in Nat
  BY <1>1, Room, RoomAssumption DEF Faithful
<1>3. \A f \in Fds : Revents(k, f) \in BOOLEAN
  <2>1. CASE k = "read"
    BY <2>1 DEF Revents
  <2>2. CASE k = "write"
    BY <2>2 DEF Revents
  <2> QED
    BY <2>1, <2>2 DEF Kinds
<1> HIDE DEF s
<1>4. Snapshot(k) = [i \in 1..Len(s) |->
                       [kind |-> k, fd |-> s[i].fd, idx |-> i, rev |-> Revents(k, s[i].fd)]]
  BY <1>1 DEF Snapshot, s
<1>5. ASSUME NEW i \in 1..Len(s)
      PROVE  [kind |-> k, fd |-> s[i].fd, idx |-> i, rev |-> Revents(k, s[i].fd)] \in Polled
  BY <1>1, <1>2, <1>3, EntryTypes DEF Polled
<1>6. Snapshot(k) \in [1..Len(s) -> Polled]
  BY <1>4, <1>5
<1>7. Snapshot(k) \in Seq(Polled)
  BY <1>1, <1>6, SeqDef
<1>8. Len(Snapshot(k)) = Len(s)
  BY <1>1, <1>6, <1>7, LenProperties
<1>9. \A i \in 1..Len(s) :
        LET e == Snapshot(k)[i]
        IN  /\ e.kind = k /\ e.fd = s[i].fd /\ e.fd \in Fds
            /\ e.rev <=> Revents(k, e.fd)
  BY <1>1, <1>4, EntryTypes
<1>10. \A i \in 1..Len(s) : Has(tab[k], s[i].fd)
  BY <1>1 DEF Has, s
<1> QED
  BY <1>1, <1>7, <1>8, <1>9, <1>10 DEF Faithful

\* At the poll what is seen is what holds.
LEMMA PollKeeps ==
    ASSUME IInv, Poll
    PROVE  IInv'
<1> DEFINE r == Snapshot("read")
           w == Snapshot("write")
<1>1. TypeOK /\ TablesInv /\ "read" \in Kinds /\ "write" \in Kinds
  BY DEF IInv, Kinds
<1>2. /\ pfd' = r \o w /\ pos' = 1 /\ pc' = "timers" /\ opened' = {}
      /\ UNCHANGED <<tab, running, cb, sock, ready, owner>>
  BY DEF Poll
<1>3. /\ r \in Seq(Polled) /\ Len(r) \in Nat
      /\ \A i \in 1..Len(r) : /\ r[i].kind = "read" /\ r[i].fd \in Fds
                              /\ Has(tab["read"], r[i].fd)
                              /\ r[i].rev <=> Revents("read", r[i].fd)
      /\ \A i, j \in 1..Len(r) : r[i].fd = r[j].fd => i = j
  BY <1>1, SnapshotOf, LenProperties
<1>4. /\ w \in Seq(Polled) /\ Len(w) \in Nat
      /\ \A i \in 1..Len(w) : /\ w[i].kind = "write" /\ w[i].fd \in Fds
                              /\ Has(tab["write"], w[i].fd)
                              /\ w[i].rev <=> Revents("write", w[i].fd)
      /\ \A i, j \in 1..Len(w) : w[i].fd = w[j].fd => i = j
  BY <1>1, SnapshotOf, LenProperties
<1> HIDE DEF r, w
<1>5. /\ pfd' \in Seq(Polled) /\ Len(pfd') = Len(r) + Len(w) /\ DOMAIN pfd' = 1..Len(pfd')
      /\ \A i \in 1..(Len(r) + Len(w)) :
           pfd'[i] = IF i <= Len(r) THEN r[i] ELSE w[i - Len(r)]
  BY <1>2, <1>3, <1>4, ConcatProperties, LenProperties
<1>6. TypeOK'
  BY <1>1, <1>2, <1>3, <1>4, <1>5 DEF TypeOK
<1>7. \A i \in 1..Len(pfd') :
        \/ i \in 1..Len(r) /\ pfd'[i] = r[i]
        \/ i > Len(r) /\ i - Len(r) \in 1..Len(w) /\ pfd'[i] = w[i - Len(r)]
  BY <1>3, <1>4, <1>5
<1>8. ASSUME NEW i \in 1..Len(pfd'), NEW j \in 1..Len(pfd'),
             pfd'[i].kind = pfd'[j].kind, pfd'[i].fd = pfd'[j].fd
      PROVE  i = j
  <2>1. CASE i \in 1..Len(r) /\ pfd'[i] = r[i]
    <3>1. j \in 1..Len(r) /\ pfd'[j] = r[j]
      BY <1>3, <1>4, <1>7, <1>8, <2>1, SMTT(30)
    <3> QED
      BY <1>3, <1>8, <2>1, <3>1
  <2>2. CASE i > Len(r) /\ i - Len(r) \in 1..Len(w) /\ pfd'[i] = w[i - Len(r)]
    <3>1. j > Len(r) /\ j - Len(r) \in 1..Len(w) /\ pfd'[j] = w[j - Len(r)]
      <4>1. pfd'[j].kind = "write"
        BY <1>4, <1>8, <2>2
      <4> QED
        BY <1>3, <1>7, <4>1
    <3>2. i - Len(r) = j - Len(r)
      BY <1>4, <1>8, <2>2, <3>1
    <3> QED
      BY <1>3, <2>2, <3>1, <3>2
  <2> QED
    BY <1>7, <2>1, <2>2
<1>9. ASSUME NEW i \in 1..Len(pfd') PROVE SeenHolds(pfd[i])'
  <2>1. CASE i \in 1..Len(r) /\ pfd'[i] = r[i]
    BY <1>1, <1>2, <1>3, <2>1 DEF SeenHolds, TablesInv, OpenIsWatched, Revents, Dialings
  <2>2. CASE i > Len(r) /\ i - Len(r) \in 1..Len(w) /\ pfd'[i] = w[i - Len(r)]
    BY <1>2, <1>4, <2>2 DEF SeenHolds, Revents
  <2> QED
    BY <1>7, <2>1, <2>2
<1>10. RoundInv'
  BY <1>2, <1>5, <1>8, <1>9 DEF RoundInv
<1>11. TablesInv'
  BY <1>1, <1>2 DEF TablesInv, OpenIsWatched
<1> QED
  BY <1>2, <1>6, <1>10, <1>11 DEF IInv, StopInv, Poll, InCallback

\* The steps that leave the tables, the sockets and pfd alone.
LEMMA OtherStepsKeep ==
    ASSUME IInv, EvStop \/ Return \/ PollFails \/ TimerPass \/ Skip
    PROVE  IInv'
<1>1. TypeOK /\ TablesInv /\ RoundInv
  BY DEF IInv
<1>2. UNCHANGED <<tab, pfd, sock, ready, owner, opened>> /\ pos' \in {pos, pos + 1}
  BY DEF EvStop, Return, PollFails, TimerPass, Skip, loopVars
<1>3. /\ pos' \in 1..(Len(pfd) + 1) /\ running' \in BOOLEAN
      /\ pc' \in {"poll", "timers", "dispatch", "done"} /\ cb' \in {NoCb, TimerCb} \cup Entry
  <2>1. Len(pfd) \in Nat /\ pos \in 1..(Len(pfd) + 1)
    BY <1>1, TypeFacts DEF TypeOK
  <2>2. CASE Skip
    BY <1>1, <2>1, <2>2 DEF Skip, AtEntry, TypeOK
  <2>3. CASE EvStop \/ Return \/ PollFails \/ TimerPass
    BY <1>1, <2>3 DEF EvStop, Return, PollFails, TimerPass, loopVars, TypeOK
  <2> QED
    BY <2>2, <2>3
<1>4. TypeOK' /\ TablesInv'
  BY <1>1, <1>2, <1>3 DEF TypeOK, TablesInv, OpenIsWatched
<1>5. RoundInv'
  BY <1>1, <1>2, RoundKept, SeenStays
<1>6. StopInv'
  BY DEF IInv, StopInv, EvStop, Return, PollFails, TimerPass, Skip, InCallback, AtEntry, loopVars
<1> QED
  BY <1>4, <1>5, <1>6 DEF IInv

\* The end of a round forgets the poll results.
LEMMA RoundDoneKeeps ==
    ASSUME IInv, RoundDone
    PROVE  IInv'
<1>1. pfd' = <<>> /\ pos' = 1 /\ opened' = {} /\ UNCHANGED <<tab, running, cb, sock, ready, owner>>
  BY DEF RoundDone
<1>2. pfd' \in Seq(Polled) /\ Len(pfd') = 0 /\ DOMAIN pfd' = {}
  BY <1>1, EmptySeq, LenProperties
<1>3. TypeOK'
  BY <1>1, <1>2 DEF IInv, TypeOK, RoundDone
<1>4. TablesInv'
  BY <1>1 DEF IInv, TablesInv, OpenIsWatched
<1>5. RoundInv'
  BY <1>1, <1>2 DEF RoundInv
<1> QED
  BY <1>1, <1>3, <1>4, <1>5 DEF IInv, StopInv, RoundDone, TypeOK

\* Every step keeps the inductive invariant.
LEMMA NextKeeps ==
    ASSUME IInv, [Next]_vars
    PROVE  IInv'
<1>1. CASE Operation \/ Return
  BY <1>1, OtherStepsKeep, DropKeeps, DialKeeps, HandOverKeeps, OpenForReadingKeeps DEF Operation
<1>2. CASE Kernel
  BY <1>2, KernelKeeps DEF Kernel
<1>3. CASE Poll \/ PollFails \/ TimerPass
  BY <1>3, PollKeeps, OtherStepsKeep
<1>4. CASE Dispatch
  BY <1>4, OtherStepsKeep, CallReaderKeeps, CallConnectedKeeps, RoundDoneKeeps DEF Dispatch
<1>5. CASE UNCHANGED vars
  BY <1>5 DEF vars, loopVars, IInv, TypeOK, TablesInv, OpenIsWatched, RoundInv, SeenHolds,
     StopInv
<1> QED
  BY <1>1, <1>2, <1>3, <1>4, <1>5 DEF Next

\* The invariant holds in every state of ev_run, whatever the callbacks do and
\* however many descriptors there are.
THEOREM Invariance == Spec => []IInv
<1>1. IInv /\ [Next]_vars => IInv'
  BY NextKeeps
<1> QED
  BY <1>1, InitIInv, PTL DEF Spec

\* ev_add_fd and ev_del_fd, in any order, leave the tables as their callers
\* registered, and every open socket in exactly one of them (eventloop.c:53-122).
THEOREM TablesStayExact == Spec => []TablesExact
<1>1. IInv => TablesExact
  BY DEF IInv, TablesInv, Faithful, TablesExact, TablesFaithful
<1> QED
  BY <1>1, Invariance, PTL

\* A callback that begins is that of the owner, for an event that is real.
LEMMA CallsAreRight ==
    ASSUME IInv, [Next]_vars
    PROVE  RightOwnerCalled /\ StaleOnlyIfReopened
<1> SUFFICES ASSUME cb = NoCb, cb' \in Entry
             PROVE  /\ owner["read"][cb'.fd] = cb'.ud \/ owner["write"][cb'.fd] = cb'.ud
                    /\ cb'.fd \notin opened => cb'.fd \in ready \/ sock[cb'.fd] = "dialed"
  BY DEF RightOwnerCalled, StaleOnlyIfReopened
<1> DEFINE e == pfd[pos]
<1>1. CASE CallReader
  <2>1. /\ AtEntry /\ Hit(e) /\ e.kind = "read"
        /\ cb'.fd = e.fd /\ cb'.ud = tab[e.kind][e.idx].ud
    BY <1>1 DEF CallReader
  <2>2. /\ owner["read"][e.fd] = cb'.ud /\ Has(tab["read"], e.fd) /\ e.rev /\ SeenHolds(e)
        /\ e.fd \in Fds
    BY <2>1, HitIsOwned
  <2>3. sock[e.fd] # "closed"
    BY <2>2 DEF IInv, TablesInv, OpenIsWatched
  <2> QED
    BY <2>1, <2>2, <2>3 DEF SeenHolds
<1>2. ASSUME NEW failed \in BOOLEAN, CallConnected(failed)
      PROVE  /\ owner["write"][cb'.fd] = cb'.ud
             /\ cb'.fd \notin opened => sock[cb'.fd] = "dialed"
  <2>1. /\ AtEntry /\ Hit(e) /\ e.kind = "write"
        /\ cb'.fd = e.fd /\ cb'.ud = tab[e.kind][e.idx].ud
    BY <1>2 DEF CallConnected
  <2>2. /\ owner["write"][e.fd] = cb'.ud /\ Has(tab["write"], e.fd) /\ e.rev /\ SeenHolds(e)
        /\ e.fd \in Fds
    BY <2>1, HitIsOwned
  <2>3. sock[e.fd] \in {"dialing", "dialed"}
    BY <2>2 DEF IInv, TablesInv, OpenIsWatched
  <2> QED
    BY <2>1, <2>2, <2>3 DEF SeenHolds
<1>3. ~CallReader /\ ~(\E failed \in BOOLEAN : CallConnected(failed)) =>
        cb' = cb \/ cb' \in {NoCb, TimerCb}
  BY DEF Next, Operation, Return, Kernel, Poll, PollFails, TimerPass, Dispatch, Skip, RoundDone,
     EvStop, Drop, Dial, HandOver, OpenForReading, Arrives, ConnectOver, vars
<1> QED
  BY <1>1, <1>2, <1>3, CbAssumption

\* The test of index and number in the dispatch loop of ev_run finds the owner
\* of an event, and the event is real unless the number was given out again
\* (eventloop.c:207-222).
THEOREM EventsFindOwners == Spec => EventsReachOwners
<1>1. IInv /\ [Next]_vars => [RightOwnerCalled /\ StaleOnlyIfReopened]_vars
  BY CallsAreRight
<1> QED
  BY <1>1, Invariance, PTL DEF Spec, EventsReachOwners

\* Once ev_stop has been called ev_run calls no callback of a descriptor, and
\* none of a timer either.
THEOREM StoppedIsQuietAlways == Spec => [][StoppedIsQuiet]_vars
<1>1. IInv /\ [Next]_vars => [StoppedIsQuiet]_vars
  <2>1. ASSUME IInv, Next, ~running PROVE cb' \in {cb, NoCb}
    <3>1. ~AtEntry /\ ~Poll /\ ~TimerPass
      BY <2>1 DEF AtEntry, IInv, StopInv, Poll, TimerPass
    <3> QED
      BY <2>1, <3>1 DEF Next, Operation, Return, Kernel, PollFails, Dispatch, Skip, CallReader,
         CallConnected, RoundDone, EvStop, Drop, Dial, HandOver, OpenForReading, Arrives,
         ConnectOver
  <2> QED
    BY <2>1 DEF StoppedIsQuiet
<1> QED
  BY <1>1, Invariance, PTL DEF Spec

-----------------------------------------------------------------------------
(* Both sides *)

P == INSTANCE EventTimersProofs WITH running <- t_running, pc <- t_pc, cb <- t_cb

\* The run's specification is that of each side, as the other sees it.
LEMMA SidesAreBoth == Sides => Spec /\ P!Spec
<1>1. SidesInit => Init /\ P!Init
  BY DEF SidesInit, T!Init, P!Init
<1>2. T!Next => P!Next
  BY DEF T!Next, T!Operation, T!Return, T!Loop, T!TimePasses, T!PollEvent, T!PollTimeout,
     T!PollInterrupted, T!FdCallback, T!RoundDone, T!EvStop, T!Cancel, T!Arm, T!Top, T!Fire,
     T!PassDone, T!PassBegins, T!Reap, T!Soonest, T!Active, T!Due, T!Earliest, T!listVars,
     P!Next, P!Operation, P!Return, P!Loop, P!TimePasses, P!PollEvent, P!PollTimeout,
     P!PollInterrupted, P!FdCallback, P!RoundDone, P!EvStop, P!Cancel, P!Arm, P!Top, P!Fire,
     P!PassDone, P!PassBegins, P!Reap, P!Soonest, P!Active, P!Due, P!Earliest, P!listVars
<1>3. [SidesNext]_sideVars => [Next]_vars /\ [P!Next]_(P!vars)
  BY <1>2 DEF SidesNext, sideVars, timerVars, Descriptors, TimerSide, P!vars, P!listVars
<1> QED
  BY <1>1, <1>3, PTL DEF Sides, Spec, P!Spec

\* The tables of ev_add_fd and ev_del_fd, in the specification that TLC runs.
THEOREM SidesTablesExact == Sides => []TablesExact
  BY SidesAreBoth, TablesStayExact, PTL

\* The handles callers hold are those of the timers that will still fire, so
\* ev_timer_cancel never meets memory that reap_inactive has freed.
THEOREM SidesHandlesExact == Sides => []HandlesExact
<1>1. P!ConstantsOK
  BY TimersAssumption DEF T!ConstantsOK, P!ConstantsOK
<1>2. P!Spec => []P!HandlesExact
  BY <1>1, P!TimerHandles
<1>3. P!HandlesExact => HandlesExact
  BY DEF P!HandlesExact, P!TypeOK, P!Active, HandlesExact, T!HandlesExact, T!TypeOK, T!Active
<1> QED
  BY SidesAreBoth, <1>2, <1>3, PTL

\* A pass of ev_run fires what is due, in order, and ends; and poll is given
\* a timeout that ends by the next timer's due time.
THEOREM SidesTimersOnTime == Sides => []TimersOnTime
<1>1. P!ConstantsOK
  BY TimersAssumption DEF T!ConstantsOK, P!ConstantsOK
<1>2. P!Spec => []P!TimersOnTime
  BY <1>1, P!TimersInTime
<1>3. P!TimersOnTime => TimersOnTime
  BY DEF P!TimersOnTime, P!PassEnds, P!FiresInOrder, P!PollWakesInTime, P!Due, P!Active,
     TimersOnTime, T!TimersOnTime, T!PassEnds, T!FiresInOrder, T!PollWakesInTime, T!Due, T!Active
<1> QED
  BY SidesAreBoth, <1>2, <1>3, PTL

\* After ev_stop no callback begins, neither of a descriptor nor of a timer.
THEOREM SidesStopAtOnce == Sides => StopsAtOnce
<1>1. Spec => [][StoppedIsQuiet]_vars
  BY StoppedIsQuietAlways
<1>2. P!Spec => [][P!NoneFires]_(P!vars)
  BY P!StoppedFiresNone
<1>3. [StoppedIsQuiet]_vars /\ [P!NoneFires]_(P!vars) => [StoppedIsQuiet /\ T!NoneFires]_sideVars
  BY DEF vars, P!vars, StoppedIsQuiet, P!NoneFires, T!NoneFires
<1> QED
  BY SidesAreBoth, <1>1, <1>2, <1>3, PTL DEF StopsAtOnce
=============================================================================
