\* Liveness: one link of each role, one pending slot.
SPECIFICATION FairSpec
CONSTANTS
    out1 = out1  in1 = in1  in2 = in2  h1 = h1
    s1 = s1  s2 = s2  s3 = s3  p1 = p1  p2 = p2
    f1 = f1  f2 = f2  f3 = f3  f4 = f4
    Links <- PairLinks
    Outbound <- MixedOutbound
    Hosts <- OneHostSet
    Host <- PairHost
    Lids <- TwoLids
    Lid <- PairLid
    Slots = {p1}
    Fds = {f1, f2, f3}
    NoFd = NoFd
    Ssrcs = {s1, s2}
    NoSsrc = NoSsrc
    NoConn = NoConn
    NoOne = NoOne
    AnswerFields = 1
    QuestionFields = 2
    KaInterval = 1
    LinkTimeout = 2
PROPERTIES SilentLinkEnds DownLinkRedials PendingEnds
CHECK_DEADLOCK FALSE
