---------------------------- MODULE MCEventLoop -----------------------------
(* Small instances of the event loop for TLC: the descriptors, or the timers.*)
(* The two sides meet only in callbacks, which each of the modules lets      *)
(* come at every point, so a behaviour has one of them and the other rests.  *)
EXTENDS EventLoop

CONSTANTS Timers, FdCb, Delays, Never, MaxClock

VARIABLES
    side,               \* "descriptors" or "timers"
    mem, when, clock, now, wake, t_running, t_pc, t_cb, held, fresh, last

T == INSTANCE EventTimers WITH running <- t_running, pc <- t_pc, cb <- t_cb

ASSUME TimersAssumption == T!ConstantsOK

timerVars == <<mem, when, clock, now, wake, t_running, t_pc, t_cb, held, fresh, last>>
sideVars == <<side, vars, timerVars>>

SidesInit == side \in {"descriptors", "timers"} /\ Init /\ T!Init

Descriptors(A) == side = "descriptors" /\ A /\ UNCHANGED <<side, timerVars>>
TimerSide(A) == side = "timers" /\ A /\ UNCHANGED <<side, vars>>

SidesNext == Descriptors(Next) \/ TimerSide(T!Next)

\* The loop goes on, callbacks return, and the pass over the timers ends
\* (PassEnds).  Time passes, and poll wakes at its timeout.
Fairness ==
    /\ WF_sideVars(Descriptors(Return)) /\ WF_sideVars(Descriptors(Poll))
    /\ WF_sideVars(Descriptors(TimerPass)) /\ WF_sideVars(Descriptors(Dispatch))
    /\ WF_sideVars(TimerSide(T!Return)) /\ WF_sideVars(TimerSide(T!Loop))
    /\ WF_sideVars(TimerSide(T!PollTimeout)) /\ WF_sideVars(TimerSide(T!RoundDone))
    /\ WF_sideVars(TimerSide(T!TimePasses))

Sides == SidesInit /\ [][SidesNext]_sideVars /\ Fairness

-----------------------------------------------------------------------------
(* The properties of EventTimers, under names that a configuration can use.  *)

\* The handles that callers hold are those of the timers that will still fire.
HandlesExact == T!HandlesExact

\* A pass of ev_run fires what is due, in order, and no more; the next one
\* comes in time.
TimersOnTime == T!TimersOnTime

\* After ev_stop no callback begins, neither of a descriptor nor of a timer: the
\* program does not act on anything once it has decided to end.
StopsAtOnce == [][StoppedIsQuiet /\ T!NoneFires]_sideVars

\* A timer that is armed fires or is cancelled, as long as the loop runs.
TimersFire == T!TimersFire
=============================================================================
