\* Keepalives: flights vary, and the timeout has just room for one exchange
\* and no loss.  Control lines: a buffer of 4, with lines that fit, that fill
\* it and that are too long.  Packets: six bursts wrap the sequence number.
\* Bursts: two links, a sequence byte that wraps.  Digests: blocks of 4 bytes,
\* messages and keys of up to three blocks and a byte.
SPECIFICATION Spec
CONSTANTS
    Interval = 3  Timeout = 7  Delay = 2
    Kinds = {{"originates"}, {"reflects"}, {"originates", "reflects"}}
    MaxLosses = 1  MaxConns = 2  MaxTime = 14
    Cap = 4
    CR = CR  LF = LF
    Others = {x, y}
    MaxSegment = 3
    MaxLine = 5
    SeqMod = 4  TsMod = 13  Step = 3
    Bursts = 6
    NoCall = NoCall  NoPacket = NoPacket
    Links = {l1, l2}
    MaxSends = 10
    Block = 4  LenBytes = 2  DigestBytes = 3
    MaxBytes = 13
INVARIANTS EchoesEnd LinesWhole NumbersInStep LateEntry DigestsRight
PROPERTIES WatchdogExact SeqInOneRow
CHECK_DEADLOCK FALSE
