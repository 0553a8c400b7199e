------------------------- MODULE EventTimersProofs --------------------------
(***************************************************************************)
(* The properties of the timer list for any number of timers and any       *)
(* delays.  The invariant adds to them what a pass and a poll rely on.     *)
(***************************************************************************)
EXTENDS EventTimers, WellFoundedInduction, TLAPS

\* What the pass and the poll rely on: poll runs no callback, and the pass's
\* now is not ahead of the clock that callbacks arm by.
IInv ==
    /\ HandlesExact
    /\ now <= clock
    /\ pc = "poll" => cb = NoCb
    /\ TimersOnTime

-----------------------------------------------------------------------------
(* The timeout of poll *)

\* A set of numbers has a least one.
LEMMA LeastNatural ==
    ASSUME NEW S \in SUBSET Nat, S # {}
    PROVE  \E m \in S : \A k \in S : m <= k
<1> DEFINE Less == {ss \in Nat \X Nat : ss[1] < ss[2]}
<1>1. IsWellFoundedOn(Less, Nat)
  BY NatLessThanWellFounded DEF OpToRel
<1> HIDE DEF Less
<1>2. PICK x \in S : \A y \in S : ~(<<y, x>> \in Less)
  BY <1>1, WFMin
<1>3. ASSUME NEW y \in S PROVE x <= y
  <2>1. x \in Nat /\ y \in Nat /\ ~(<<y, x>> \in Less)
    BY <1>2
  <2>2. <<y, x>> \in Nat \X Nat
    BY <2>1
  <2>3. ~(y < x)
    BY <2>1, <2>2, Zenon DEF Less
  <2> QED
    BY <2>1, <2>3
<1> QED
  BY <1>2, <1>3

\* The loop over the list in ev_run finds the timer that is due first.
LEMMA SoonestIsFirst ==
    ASSUME TypeOK, ConstantsOK
    PROVE  /\ Soonest \in Nat \cup {Never}
           /\ \A t \in Active : Soonest # Never /\ Soonest <= when[t]
<1>1. CASE Active = {}
  BY <1>1 DEF Soonest
<1>2. CASE Active # {}
  <2> DEFINE S == {when[t] : t \in Active}
             First(t) == \A s \in Active : when[t] <= when[s]
  <2>1. S \in SUBSET Nat /\ S # {}
    BY <1>2 DEF TypeOK, Active
  <2>2. PICK m \in S : \A k \in S : m <= k
    BY <2>1, LeastNatural
  <2>3. \E t \in Active : First(t)
    BY <2>2
  <2>4. (CHOOSE t \in Active : First(t)) \in Active /\ First(CHOOSE t \in Active : First(t))
    BY <2>3
  <2>5. Soonest = when[CHOOSE t \in Active : First(t)]
    BY <1>2 DEF Soonest
  <2>6. Soonest \in Nat /\ \A s \in Active : Soonest <= when[s]
    BY <2>4, <2>5 DEF TypeOK, Active
  <2> QED
    BY <2>6 DEF ConstantsOK
<1> QED
  BY <1>1, <1>2

\* Freeing what is over leaves the active timers and their due times alone.
LEMMA ReapKeeps ==
    ASSUME TypeOK, Reap
    PROVE  /\ Active' = Active
           /\ \A t \in Active : when'[t] = when[t]
           /\ mem' \in [Timers -> {"free", "active", "off"}]
           /\ when' \in [Timers -> Nat]
  BY DEF TypeOK, Reap, Active

-----------------------------------------------------------------------------
(* Every step keeps IInv *)

\* main has armed nothing yet.
LEMMA InitIInv == ConstantsOK /\ Init => IInv
  BY DEF ConstantsOK, Init, IInv, HandlesExact, TypeOK, Active, TimersOnTime, PassEnds,
     FiresInOrder, PollWakesInTime, Due

\* A timer that is armed in a pass is due after the now of the pass.
LEMMA ArmKeeps ==
    ASSUME ConstantsOK, IInv, NEW t \in Timers, NEW d \in Delays, Arm(t, d)
    PROVE  IInv'
<1>1. /\ HandlesExact /\ TypeOK /\ now <= clock /\ pc # "poll"
      /\ d \in Nat /\ d > 0 /\ clock \in Nat /\ now \in Nat
  BY DEF IInv, HandlesExact, TypeOK, Arm, ConstantsOK
<1>2. TypeOK'
  BY <1>1 DEF TypeOK, Arm
<1>3. Active' = Active \cup {t} /\ held' = Active'
  BY <1>1 DEF TypeOK, HandlesExact, Active, Arm
<1>4. Due' = Due \ {t} /\ fresh' = fresh \cup {t} /\ UNCHANGED <<pc, now, clock, last, cb>>
  <2>1. when'[t] = clock + d /\ \A s \in Timers \ {t} : when'[s] = when[s]
    BY <1>1 DEF Arm, TypeOK
  <2>2. ~(when'[t] <= now)
    BY <1>1, <2>1
  <2>3. t \notin Active
    BY DEF Arm, Active
  <2>4. UNCHANGED <<pc, now, clock, last, cb>> /\ fresh' = fresh \cup {t}
    BY DEF Arm
  <2> QED
    BY <1>3, <2>1, <2>2, <2>3, <2>4 DEF Due, Active
<1>5. TimersOnTime'
  <2>1. PassEnds'
    BY <1>4 DEF IInv, TimersOnTime, PassEnds
  <2>2. FiresInOrder'
    <3>1. \A s \in Due' : s # t /\ s \in Due
      BY <1>4
    <3>2. \A s \in Due' : when'[s] = when[s]
      BY <3>1, <1>1 DEF Arm, TypeOK, Due, Active
    <3> QED
      BY <1>4, <3>1, <3>2 DEF IInv, TimersOnTime, FiresInOrder
  <2>3. PollWakesInTime'
    BY <1>1, <1>4 DEF PollWakesInTime
  <2> QED
    BY <2>1, <2>2, <2>3 DEF TimersOnTime
<1> QED
  BY <1>1, <1>2, <1>3, <1>4, <1>5 DEF IInv, HandlesExact

\* A cancelled timer is no longer due, and nobody holds its handle.
LEMMA CancelledKeeps ==
    ASSUME IInv, NEW t \in Timers, Cancel(t)
    PROVE  IInv'
<1>1. HandlesExact /\ TypeOK /\ now <= clock /\ pc # "poll"
  BY DEF IInv, HandlesExact, Cancel
<1>2. TypeOK'
  BY <1>1 DEF TypeOK, Cancel
<1>3. Active' = Active \ {t} /\ held' = Active'
  BY <1>1 DEF TypeOK, HandlesExact, Active, Cancel
<1>4. Due' \subseteq Due /\ UNCHANGED <<when, fresh, pc, now, clock, last, cb>>
  BY <1>3 DEF Cancel, Due
<1>5. TimersOnTime'
  BY <1>1, <1>4 DEF IInv, TimersOnTime, PassEnds, FiresInOrder, PollWakesInTime
<1> QED
  BY <1>1, <1>2, <1>3, <1>4, <1>5 DEF IInv, HandlesExact

\* What fires is the earliest of what is due, so the rest is not before it.
LEMMA FireKeeps ==
    ASSUME IInv, NEW t \in Timers, Fire(t)
    PROVE  IInv'
<1>1. HandlesExact /\ TypeOK /\ now <= clock /\ pc # "poll"
  BY DEF IInv, HandlesExact, Fire
<1>2. TypeOK'
  BY <1>1 DEF TypeOK, Fire
<1>3. Active' = Active \ {t} /\ held' = Active'
  BY <1>1 DEF TypeOK, HandlesExact, Active, Fire
<1>4. Due' \subseteq Due /\ UNCHANGED <<when, fresh, pc, now, clock>>
  BY <1>3 DEF Fire, Due
<1>5. \A s \in Due : when[t] <= when[s]
  BY DEF Fire, Earliest
<1>6. TimersOnTime'
  BY <1>1, <1>4, <1>5 DEF IInv, TimersOnTime, PassEnds, FiresInOrder, PollWakesInTime, Fire
<1> QED
  BY <1>1, <1>2, <1>3, <1>4, <1>6 DEF IInv, HandlesExact

\* The timeout is computed anew in every round.
LEMMA RoundBeginsKeeps ==
    ASSUME ConstantsOK, IInv, Top \/ PollInterrupted
    PROVE  IInv'
<1>1. /\ HandlesExact /\ TypeOK /\ now <= clock /\ cb = NoCb
      /\ Reap /\ wake' = Soonest /\ pc' = "poll"
      /\ UNCHANGED <<clock, now, running, cb, held, fresh, last>>
  BY DEF IInv, HandlesExact, Top, PollInterrupted
<1>2. Active' = Active /\ \A t \in Active : when'[t] = when[t]
  BY <1>1, ReapKeeps
<1>3. TypeOK'
  BY <1>1, ReapKeeps, SoonestIsFirst DEF TypeOK
<1>4. PollWakesInTime'
  BY <1>1, <1>2, SoonestIsFirst DEF PollWakesInTime
<1> QED
  BY <1>1, <1>2, <1>3, <1>4 DEF IInv, HandlesExact, TimersOnTime, PassEnds, FiresInOrder

\* At the start of the pass nothing is new and nothing has fired.
LEMMA PassBeginsKeeps ==
    ASSUME IInv, PassBegins
    PROVE  IInv'
<1>1. HandlesExact /\ TypeOK
  BY DEF IInv, HandlesExact
<1>2. TypeOK' /\ now' <= clock'
  BY <1>1 DEF TypeOK, PassBegins
<1>3. Active' = Active /\ held' = held
  BY DEF PassBegins, Active
<1>4. FiresInOrder'
  BY <1>1 DEF FiresInOrder, Due, Active, TypeOK, PassBegins
<1>5. PassEnds' /\ PollWakesInTime' /\ pc' # "poll"
  BY DEF PassBegins, PassEnds, PollWakesInTime
<1> QED
  BY <1>1, <1>2, <1>3, <1>4, <1>5 DEF IInv, HandlesExact, TimersOnTime

\* The pass ends with the freeing of the timers that are over.
LEMMA PassDoneKeeps ==
    ASSUME IInv, PassDone
    PROVE  IInv'
<1>1. /\ HandlesExact /\ TypeOK /\ now <= clock /\ Reap /\ pc' = "dispatch"
      /\ UNCHANGED <<clock, now, wake, running, cb, held, fresh, last>>
  BY DEF IInv, HandlesExact, PassDone
<1>2. Active' = Active
  BY <1>1, ReapKeeps
<1>3. TypeOK'
  BY <1>1, ReapKeeps DEF TypeOK
<1> QED
  BY <1>1, <1>2, <1>3 DEF IInv, HandlesExact, TimersOnTime, PassEnds, FiresInOrder,
     PollWakesInTime

\* The steps that leave the list of timers alone.
LEMMA OtherStepsKeep ==
    ASSUME IInv, EvStop \/ Return \/ FdCallback \/ RoundDone \/ TimePasses
    PROVE  IInv'
<1>1. HandlesExact /\ TypeOK /\ now <= clock /\ (pc = "poll" => cb = NoCb)
  BY DEF IInv, HandlesExact
<1>2. UNCHANGED <<mem, when, held, fresh, now, wake, last>>
  BY DEF EvStop, Return, FdCallback, RoundDone, TimePasses, listVars
<1>3. /\ clock' \in Nat /\ now' <= clock'
      /\ pc' \in {"poll", "pass"} => pc' = pc
      /\ pc' \in {"top", "poll", "pass", "dispatch", "served", "done"}
      /\ cb' \in Timers \cup {NoCb, FdCb} /\ running' \in BOOLEAN
      /\ pc' = "poll" => cb' = NoCb
  <2>1. CASE EvStop
    BY <1>1, <2>1 DEF EvStop, TypeOK
  <2>2. CASE Return
    BY <1>1, <2>2 DEF Return, TypeOK
  <2>3. CASE FdCallback
    BY <1>1, <2>3 DEF FdCallback, TypeOK
  <2>4. CASE RoundDone
    BY <1>1, <2>4 DEF RoundDone, TypeOK
  <2>5. CASE TimePasses
    BY <1>1, <2>5 DEF TimePasses, TypeOK
  <2> QED
    BY <2>1, <2>2, <2>3, <2>4, <2>5
<1>4. TypeOK' /\ Active' = Active /\ Due' = Due
  BY <1>1, <1>2, <1>3 DEF TypeOK, Active, Due
<1> QED
  BY <1>1, <1>2, <1>3, <1>4 DEF IInv, HandlesExact, TimersOnTime, PassEnds, FiresInOrder,
     PollWakesInTime

\* Every step of the loop and of its callbacks keeps the invariant.
LEMMA NextKeeps ==
    ASSUME ConstantsOK, IInv, [Next]_vars
    PROVE  IInv'
<1>1. CASE Next
  <2>1. ASSUME NEW t \in Timers, Cancel(t) \/ \E d \in Delays : Arm(t, d) PROVE IInv'
    BY <2>1, CancelledKeeps, ArmKeeps
  <2>2. ASSUME NEW t \in Timers, Fire(t) PROVE IInv'
    BY <2>2, FireKeeps
  <2>3. CASE PollEvent \/ PollTimeout
    BY <2>3, PassBeginsKeeps DEF PollEvent, PollTimeout
  <2> QED
    BY <1>1, <2>1, <2>2, <2>3, RoundBeginsKeeps, PassDoneKeeps, OtherStepsKeep
    DEF Next, Operation, Loop
<1>2. CASE UNCHANGED vars
  BY <1>2 DEF vars, listVars, IInv, HandlesExact, TypeOK, Active, TimersOnTime, PassEnds,
     FiresInOrder, PollWakesInTime, Due
<1> QED
  BY <1>1, <1>2

\* The invariant holds in every state of ev_run, for any timers and delays.
THEOREM Invariance == ASSUME ConstantsOK PROVE Spec => []IInv
<1>1. Init => IInv
  BY InitIInv
<1>2. IInv /\ [Next]_vars => IInv'
  BY NextKeeps
<1> QED
  BY <1>1, <1>2, PTL DEF Spec

\* The handles that callers keep are those of the timers that will still fire:
\* ev_timer_cancel never meets memory that reap_inactive has freed.
THEOREM TimerHandles == ASSUME ConstantsOK PROVE Spec => []HandlesExact
<1>1. IInv => HandlesExact
  BY DEF IInv
<1> QED
  BY <1>1, Invariance, PTL

\* A pass of ev_run fires what is due, in order, and never what its own
\* callbacks arm; poll is given a timeout that ends by the next due time.
THEOREM TimersInTime == ASSUME ConstantsOK PROVE Spec => []TimersOnTime
<1>1. IInv => TimersOnTime
  BY DEF IInv
<1> QED
  BY <1>1, Invariance, PTL

\* Once ev_stop has been called, ev_run fires no further timer.
THEOREM StoppedFiresNone == Spec => [][NoneFires]_vars
<1>1. [Next]_vars => [NoneFires]_vars
  BY DEF Next, Operation, Loop, vars, listVars, NoneFires, EvStop, Cancel, Arm, Return, Top,
     Fire, PassDone, TimePasses, PollEvent, PollTimeout, PassBegins, PollInterrupted,
     FdCallback, RoundDone
<1> QED
  BY <1>1, PTL DEF Spec
=============================================================================
