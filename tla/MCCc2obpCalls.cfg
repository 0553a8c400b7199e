\* Two links that share a peer, two streams.
SPECIFICATION Spec
CONSTANTS
    l1 = l1  l2 = l2  b1 = b1  b2 = b2  t1 = t1  t2 = t2
    Links <- TwoLinks
    Peers = {b1}
    Peer <- TwoLinksPeer
    Streams = {t1, t2}
    NoStream = NoStream
    TickInterval = 1
    IdleTimeout = 1
INVARIANTS NearBracketed FarInStep HalfDuplex
PROPERTIES EndedCallsTerminated
CHECK_DEADLOCK FALSE
