SPECIFICATION FairSpec
CONSTANTS
    t1 = t1
    t2 = t2
    w = w
    c1 = c1
    Tasks = {t1, t2}
    Threads = {c1}
    Worker = w
    MaxStarts = 2
    MaxTime = 2
    Intervals = {0, 2}
    Leads = {0, 1}
    GuardedTasks = {t1}
    Reload = FALSE
INVARIANTS RunsExactlyOnce NoLostWakeup NeverEarly NoUseAfterFree
PROPERTIES ImplementsService DueIsAnswered DestroyEnds
CHECK_DEADLOCK FALSE
