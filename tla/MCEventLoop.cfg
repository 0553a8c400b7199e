\* Two numbers and two owners; two timers and two delays.
SPECIFICATION Sides
CONSTANTS
    Fds = {f1, f2}
    Uds = {u1, u2}
    NoUd = NoUd  NoCb = NoCb  TimerCb = TimerCb
    MaxFds = 2
    Timers = {m1, m2}
    Delays = {1, 2}
    MaxClock = 3
    FdCb = FdCb  Never = Never
INVARIANTS TablesExact HandlesExact TimersOnTime
PROPERTIES EventsReachOwners EventsServed StopsAtOnce TimersFire
CHECK_DEADLOCK FALSE
