SPECIFICATION Spec
CONSTANTS
    Main = "<main>"
    Modes = {"All", "Required"}
    Hides = {TRUE, FALSE}
    Names = {"x", "two words"}
    CharCodes = {97}
    Tenths = {25, 20}
    FunFlags = {}
    Imports = {"none", "use", "resolved"}
INVARIANTS
    RoundTrip
    TypesStayDeclared
CHECK_DEADLOCK FALSE
