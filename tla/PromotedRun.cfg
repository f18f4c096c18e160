SPECIFICATION Spec
CONSTANTS
    NumArgs = 1
    NamedLocals = 5
    Word = 8
    TypeOneIsInteger = TRUE
    Declaration <- Named
    Functions <- Families
INVARIANTS NothingUnset UsesAreDefined SameAfterPromotion SameAfterDeSSA
CHECK_DEADLOCK FALSE
