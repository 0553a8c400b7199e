\* One outbound and two inbound links, one pending slot.
SPECIFICATION Spec
CONSTANTS
    out1 = out1  in1 = in1  in2 = in2  h1 = h1
    s1 = s1  s2 = s2  s3 = s3  p1 = p1  p2 = p2
    f1 = f1  f2 = f2  f3 = f3  f4 = f4
    Links <- MixedLinks
    Outbound <- MixedOutbound
    Hosts <- OneHostSet
    Host <- MixedHost
    Lids <- TwoLids
    Lid <- MixedLid
    Slots = {p1}
    Fds = {f1, f2, f3, f4}
    NoFd = NoFd
    Ssrcs = {s1, s2, s3}
    NoSsrc = NoSsrc
    NoConn = NoConn
    NoOne = NoOne
    AnswerFields = 2
    QuestionFields = 1
    KaInterval = 1
    LinkTimeout = 2
SYMMETRY Symmetry
INVARIANTS TypeOK FdOwnership Dispatch TimerDiscipline SsrcUnique DarkWhenDisabled
PROPERTIES BuffersFresh ImplementsLinkService
CHECK_DEADLOCK FALSE
