SPECIFICATION NativeSpec
CONSTANTS
    Order <- MCOrder
    Paired = {"robot"}
    Drawing = {"painter"}
    MaxOps = 3
    MaxDepth = 3
    MaxRuns = 3
    BadSheets = TRUE
    Asserts = FALSE
    Plain = TRUE
    Ensures = TRUE
INVARIANTS
    ResumesTheAwaiter
PROPERTIES
    NothingLeftBehind
    ActsLikeCalls
    EveryRunEnds
    FinishedIsCollected
    AwaitedCompletes
CHECK_DEADLOCK FALSE
