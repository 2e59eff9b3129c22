SPECIFICATION FairSpec
CONSTANTS
    c1 = c1
    c2 = c2
    k1 = k1
    k2 = k2
    a1 = a1
    a2 = a2
    e = e
    Conns = {c1, c2}
    Keys = {k1, k2}
    Platforms = {"linux"}
    Accepts = {a1}
    Epoll = e
    SameKey = FALSE
PROPERTIES StopEndsRun
CHECK_DEADLOCK FALSE
