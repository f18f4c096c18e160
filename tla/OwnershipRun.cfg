SPECIFICATION Spec
CONSTANTS
    WideSymbols = {"w"}
    Programs <- AllPrograms
    Root <- Tree
    Entry <- Main
    NamedLocals = 5
    NamedSlots = 2
    MaxTests = 2
INVARIANTS NoFaults NoLeaks SameOutput ReentryIsIdentity
CHECK_DEADLOCK FALSE
