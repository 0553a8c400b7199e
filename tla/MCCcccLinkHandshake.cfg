\* Liveness of the outbound handshake: one outbound link.
SPECIFICATION FairSpec
CONSTANTS
    out1 = out1  in1 = in1  in2 = in2  h1 = h1
    s1 = s1  s2 = s2  s3 = s3  p1 = p1  p2 = p2
    f1 = f1  f2 = f2  f3 = f3  f4 = f4
    Links <- MixedOutbound
    Outbound <- MixedOutbound
    Hosts <- OneHostSet
    Host <- OutHost
    Lids <- TwoLids
    Lid <- OutLid
    Slots = {}
    Fds = {f1}
    NoFd = NoFd
    Ssrcs = {s1, s2}
    NoSsrc = NoSsrc
    NoConn = NoConn
    NoOne = NoOne
    AnswerFields = 2
    QuestionFields = 2
    KaInterval = 1
    LinkTimeout = 2
PROPERTIES HandshakeEnds
CHECK_DEADLOCK FALSE
