SPECIFICATION FairSpec
CONSTANTS
    Platforms = {"linux", "windows"}
    Workers = {w1, w2}
    Ops = {o1}
    Funs = {f1}
    UserTasks = {t1}
    MaxRuns = 2
INVARIANTS
    PortOutlivesWorkThread
    AnsweredOnce
PROPERTIES
    EveryOperationEnds
    StoppedEnds
    PostedIsRun
CHECK_DEADLOCK FALSE
