SPECIFICATION FairSpec
CONSTANTS
    w1 = w1
    w2 = w2
    t1 = t1
    t2 = t2
    Workers = {w1, w2}
    Tasks = {t1, t2}
    MaxStarts = 2
INVARIANTS NoLostWakeup StopRunsQueued
PROPERTIES StopReturns PostedIsRun
CHECK_DEADLOCK FALSE
