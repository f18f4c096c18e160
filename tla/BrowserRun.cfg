SPECIFICATION FairSpec
CONSTANTS
    MaxRuns = 2
    MaxOps = 2
    MaxCalls = 1
    MaxDepth = 2
    MaxKeys = 2
    DoubleClick = FALSE
INVARIANTS
    AwaitedIsApplied
    ResumesSuspended
    KeysInOrder
PROPERTIES
    StopIsFinal
    EveryRunEnds
CHECK_DEADLOCK FALSE
