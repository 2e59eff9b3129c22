SPECIFICATION FairSpec
CONSTANTS
    ControlRuns = {TRUE, FALSE}
INVARIANTS
    AssertsHold
    WokenOnce
    NoAgentLeft
PROPERTIES
    RunReturns
CHECK_DEADLOCK FALSE
