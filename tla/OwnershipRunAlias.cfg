SPECIFICATION Spec
CONSTANTS
    WideSymbols = {"w"}
    Programs <- AliasPrograms
    Root <- Tree
    Entry <- Main
    NamedLocals = 5
    NamedSlots = 2
    MaxTests = 2
INVARIANT BorrowedOutlivesCall
CHECK_DEADLOCK FALSE
