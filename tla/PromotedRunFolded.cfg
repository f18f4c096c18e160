SPECIFICATION Spec
CONSTANTS
    NumArgs = 1
    NamedLocals = 5
    Word = 8
    TypeOneIsInteger = TRUE
    Declaration <- Named
    Functions <- FoldedLast
INVARIANT SameAfterFolding
CHECK_DEADLOCK FALSE
