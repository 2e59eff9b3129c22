SPECIFICATION Spec
CONSTANTS
    o1 = o1
    o2 = o2
    e = e
    k = k
    s = s
    Ops = {o1, o2}
    Epoll = e
    Clock = k
    Stopper = s
    Needs = {2}
    MaxBytes = 2
    MaxOthers = 0
    PeerCloses = TRUE
    Modes = {TRUE, FALSE}
    SizeModulus = 16
SYMMETRY MCSymmetry
INVARIANTS AnsweredOnce NobodyForgotten NoUseOfDeadBuffer TakenIsDelivered InOrder
PROPERTIES ResultIsFinal
CHECK_DEADLOCK FALSE
