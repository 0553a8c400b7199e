\* One number that is closed and opened again within a round.
SPECIFICATION Sides
CONSTANTS
    Fds = {f1}
    Uds = {u1}
    NoUd = NoUd  NoCb = NoCb  TimerCb = TimerCb
    MaxFds = 1
    Timers = {m1}
    Delays = {1}
    MaxClock = 1
    FdCb = FdCb  Never = Never
PROPERTIES LoopNeverBlocks
CHECK_DEADLOCK FALSE
