\* A call that starts before its link is up.
SPECIFICATION Spec
CONSTANTS
    l1 = l1  l2 = l2  b1 = b1  b2 = b2  t1 = t1  t2 = t2
    Links <- OneLink
    Peers = {b1}
    Peer <- OneLinkPeer
    Streams = {t1}
    NoStream = NoStream
    TickInterval = 1
    IdleTimeout = 1
INVARIANTS FarBracketed
CHECK_DEADLOCK FALSE
