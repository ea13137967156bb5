SPECIFICATION FairSpec
CONSTANTS
    Caller = {main, worker}
    bg = bg
    HasRunLoop = {main}
    None = none
    MaxCalls = 2
    MaxPort = 1
    MaxRaises = 1
INVARIANTS TargetIsOwn AddedIsWoken
PROPERTIES ImplementsMailbox EveryTaskRuns
CHECK_DEADLOCK FALSE
