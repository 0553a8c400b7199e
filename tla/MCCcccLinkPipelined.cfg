\* Two connections name links of one address; remote ends do not wait for the Answer.
SPECIFICATION SpecPipelined
CONSTANTS
    out1 = out1  in1 = in1  in2 = in2  h1 = h1
    s1 = s1  s2 = s2  s3 = s3  p1 = p1  p2 = p2
    f1 = f1  f2 = f2  f3 = f3  f4 = f4
    Links <- InboundLinks
    Outbound <- NoLinks
    Hosts <- OneHostSet
    Host <- InboundHost
    Lids <- TwoLids
    Lid <- InboundLid
    Slots = {p1, p2}
    Fds = {f1, f2, f3, f4}
    NoFd = NoFd
    Ssrcs = {s1, s2}
    NoSsrc = NoSsrc
    NoConn = NoConn
    NoOne = NoOne
    AnswerFields = 2
    QuestionFields = 2
    KaInterval = 1
    LinkTimeout = 2
SYMMETRY Symmetry
INVARIANTS UpLinkHasConnection
CHECK_DEADLOCK FALSE
