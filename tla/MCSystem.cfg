\* One inbound link with its peer, from the accepted connection to the call.
SPECIFICATION SystemFairSpec
CONSTANTS
    l1 = l1  h1 = h1  b1 = b1
    Links <- OneLink
    Outbound = {}
    Hosts = {h1}
    Host <- OneLinkHost
    Lids = {1}
    Lid <- OneLinkLid
    Slots = {p1}
    Fds = {f1, f2}
    NoFd = NoFd
    Ssrcs = {s1}
    NoSsrc = NoSsrc
    NoConn = NoConn
    NoOne = NoOne
    AnswerFields = 1
    QuestionFields = 2
    KaInterval = 1
    LinkTimeout = 2
    Peers = {b1}
    Peer <- OneLinkPeer
    Streams = {t1}
    NoStream = NoStream
    TickInterval = 1
    IdleTimeout = 2
INVARIANTS CallSupervised
PROPERTIES BridgeHolds SilentCallEnds GatedCallEnds
CHECK_DEADLOCK FALSE
