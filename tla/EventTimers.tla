---------------------------- MODULE EventTimers -----------------------------
(***************************************************************************)
(* The timer side of eventloop.c: one-shot timers that callbacks arm and   *)
(* cancel while ev_run walks their list, the timeout it gives to poll, the *)
(* pass that fires what is due, and the freeing of timers that are over.   *)
(*                                                                         *)
(* Descriptors are in EventLoop: here their callbacks are only another     *)
(* place from which timers are armed and cancelled.  Time is in units of   *)
(* the shortest delay that is used.                                        *)
(***************************************************************************)
EXTENDS Naturals

CONSTANTS
    Timers,             \* blocks of memory for struct ev_timer
    NoCb, FdCb,         \* no callback is running; one of a descriptor (or main) is
    Delays,             \* the delays given to ev_timer_after
    Never,              \* poll's timeout of -1
    MaxClock            \* bound: where the model's time ends

\* RECONNECT_DELAY_S, PENDING_TIMEOUT_S, TICK_INTERVAL_S, cc_keepalive_interval
ConstantsOK ==
    /\ Delays \subseteq Nat \ {0}
    /\ MaxClock \in Nat /\ Never \notin Nat
    /\ NoCb # FdCb /\ NoCb \notin Timers /\ FdCb \notin Timers

VARIABLES
    mem,                \* a timer's memory: free, or in the list and active or off
    when,               \* t->when
    clock,              \* ev_now()
    now,                \* the now of ev_run
    wake,               \* the end of the timeout given to poll
    running,            \* loop->running
    pc,                 \* "top", "poll", "pass", "dispatch", "served" or "done"
    cb,                 \* the callback that is running
    held,               \* the timers whose callers count on them: their handles,
                        \* and the tick, whose handle nobody keeps
    fresh,              \* the timers armed since the pass began
    last                \* the due time of the pass's latest timer

listVars == <<mem, when, held, fresh>>
vars == <<listVars, clock, now, wake, running, pc, cb, last>>

TypeOK ==
    /\ mem \in [Timers -> {"free", "active", "off"}]
    /\ when \in [Timers -> Nat]
    /\ clock \in Nat /\ now \in Nat /\ wake \in Nat \cup {Never} /\ last \in Nat
    /\ running \in BOOLEAN
    /\ pc \in {"top", "poll", "pass", "dispatch", "served", "done"}
    /\ cb \in Timers \cup {NoCb, FdCb}
    /\ held \subseteq Timers /\ fresh \subseteq Timers

Active == {t \in Timers : mem[t] = "active"}

-----------------------------------------------------------------------------
(* What callbacks do *)

\* ev_timer_after, ev_timer_at; the caller keeps the handle
Arm(t, d) ==
    /\ cb # NoCb
    /\ mem[t] = "free"
    /\ mem' = [mem EXCEPT ![t] = "active"]
    /\ when' = [when EXCEPT ![t] = clock + d]
    /\ held' = held \cup {t}
    /\ fresh' = fresh \cup {t}
    /\ UNCHANGED <<clock, now, wake, running, pc, cb, last>>

\* Fault: the handle is kept after the cancel.
CancelKeeps(t) ==
    /\ cb # NoCb
    /\ t \in held
    /\ mem' = [mem EXCEPT ![t] = "off"]
    /\ UNCHANGED <<when, held, fresh, clock, now, wake, running, pc, cb, last>>

\* ev_timer_cancel of a handle that is not NULL, which becomes NULL
Cancel(t) ==
    /\ cb # NoCb
    /\ t \in held
    /\ mem' = [mem EXCEPT ![t] = "off"]
    /\ held' = held \ {t}
    /\ UNCHANGED <<when, fresh, clock, now, wake, running, pc, cb, last>>

\* ev_stop, from tick_cb
EvStop ==
    /\ cb # NoCb /\ pc # "top"
    /\ running' = FALSE
    /\ UNCHANGED <<listVars, clock, now, wake, pc, cb, last>>

Return ==
    /\ cb # NoCb
    /\ cb' = NoCb
    /\ UNCHANGED <<listVars, clock, now, wake, running, pc, last>>

Operation ==
    \/ EvStop
    \/ \E t \in Timers : Cancel(t) \/ \E d \in Delays : Arm(t, d)

-----------------------------------------------------------------------------
(* One round of ev_run *)

\* main arms the tick before it calls ev_run.
Init ==
    /\ mem = [t \in Timers |-> "free"]
    /\ when = [t \in Timers |-> 0]
    /\ clock = 0 /\ now = 0 /\ wake = Never /\ last = 0
    /\ running = TRUE
    /\ pc = "top" /\ cb = FdCb
    /\ held = {} /\ fresh = {}

\* reap_inactive
Reap ==
    /\ mem' = [t \in Timers |-> IF mem[t] = "off" THEN "free" ELSE mem[t]]
    /\ when' = [t \in Timers |-> IF mem[t] = "active" THEN when[t] ELSE 0]

\* Fault: the timeout is that of the timer that is due last.
Latest ==
    IF Active = {} THEN Never
    ELSE when[CHOOSE t \in Active : \A s \in Active : when[s] <= when[t]]

\* the soonest active timer; poll is given the time until then
Soonest ==
    IF Active = {} THEN Never
    ELSE when[CHOOSE t \in Active : \A s \in Active : when[t] <= when[s]]

\* Reap and compute the timeout; the reaping does not change what is active.
Top ==
    /\ pc = "top" /\ cb = NoCb
    /\ Reap
    /\ wake' = Soonest
    /\ pc' = "poll"
    /\ UNCHANGED <<clock, now, running, cb, held, fresh, last>>

\* poll returns for a descriptor (or a little early, its timeout being cut
\* to whole milliseconds), or because the time is up.
PassBegins ==
    /\ now' = clock
    /\ pc' = "pass"
    /\ fresh' = {} /\ last' = 0
    /\ UNCHANGED <<mem, when, held, clock, wake, running, cb>>

PollEvent == pc = "poll" /\ PassBegins
PollTimeout == pc = "poll" /\ wake # Never /\ wake <= clock /\ PassBegins

\* EINTR: the round begins again, with the same timers
PollInterrupted ==
    /\ pc = "poll"
    /\ Reap
    /\ wake' = Soonest
    /\ UNCHANGED <<clock, now, running, pc, cb, held, fresh, last>>

\* Fault: the time is read again for every timer.
DueByClock == {t \in Active : when[t] <= clock}

Due == {t \in Active : when[t] <= now}

Earliest == {t \in Due : \A s \in Due : when[t] <= when[s]}

\* One timer of the pass.  Its callback begins by dropping the handle
\* (reconnect_cb, keepalive_cb, pending_timeout_cb; the tick's is not kept).
Fire(t) ==
    /\ pc = "pass" /\ cb = NoCb /\ running
    /\ t \in Earliest
    /\ mem' = [mem EXCEPT ![t] = "off"]
    /\ held' = held \ {t}
    /\ cb' = t
    /\ last' = when[t]
    /\ UNCHANGED <<when, fresh, clock, now, wake, running, pc>>

PassDone ==
    /\ pc = "pass" /\ cb = NoCb
    /\ Due = {} \/ ~running
    /\ Reap
    /\ pc' = "dispatch"
    /\ UNCHANGED <<clock, now, wake, running, cb, held, fresh, last>>

\* One callback stands for those of a round: it may do all that they do.
FdCallback ==
    /\ pc = "dispatch" /\ cb = NoCb /\ running
    /\ cb' = FdCb
    /\ pc' = "served"
    /\ UNCHANGED <<listVars, clock, now, wake, running, last>>

RoundDone ==
    /\ pc \in {"dispatch", "served"} /\ cb = NoCb
    /\ pc' = IF running THEN "top" ELSE "done"
    /\ UNCHANGED <<listVars, clock, now, wake, running, cb, last>>

TimePasses ==
    /\ clock < MaxClock
    /\ clock' = clock + 1
    /\ UNCHANGED <<listVars, now, wake, running, pc, cb, last>>

Loop == Top \/ (\E t \in Timers : Fire(t)) \/ PassDone

Next ==
    \/ Operation \/ Return \/ Loop \/ TimePasses
    \/ PollEvent \/ PollTimeout \/ PollInterrupted \/ FdCallback \/ RoundDone

Spec == Init /\ [][Next]_vars

-----------------------------------------------------------------------------
(* Properties *)

\* The handles that callers hold are those of the timers that will still
\* fire.  So a cancel never touches memory that reap_inactive has freed, and
\* no timer fires, or fires again, after its owner has let go of it.
HandlesExact == TypeOK /\ held = Active

\* What a callback of the pass arms waits for a later pass: a pass ends,
\* however its callbacks rearm.
PassEnds == pc = "pass" => fresh \cap Due = {}

\* Timers of a pass fire in the order of their due times.
FiresInOrder == pc = "pass" => \A t \in Due : last <= when[t]

\* poll never sleeps past the timer that is due next, whatever was armed and
\* cancelled since the last round.
PollWakesInTime ==
    pc = "poll" => \A t \in Active : wake # Never /\ wake <= when[t]

\* A pass fires what is due, in order, and no more; and the next one comes in
\* time, whatever callbacks arm and cancel (eventloop.c:150-205).
TimersOnTime == PassEnds /\ FiresInOrder /\ PollWakesInTime

\* After ev_stop no timer fires.
NoneFires == ~running => cb' \in {cb, NoCb}

\* A timer that is armed fires or is cancelled, as long as the loop runs.
TimersFire ==
    \A t \in Timers : t \in Active ~> (t \notin Active \/ ~running \/ when[t] > MaxClock)
=============================================================================
