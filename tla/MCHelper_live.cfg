SPECIFICATION FairSpec
CONSTANTS
    o1 = o1
    o2 = o2
    e = e
    k = k
    s = s
    Ops = {o1}
    Epoll = e
    Clock = k
    Stopper = s
    Needs = {1, 2}
    MaxBytes = 2
    MaxOthers = 1
    PeerCloses = TRUE
    Modes = {FALSE}
    SizeModulus = 16
PROPERTIES EveryOperationAnswered
CHECK_DEADLOCK FALSE
