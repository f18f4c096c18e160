SPECIFICATION ProjectSpec
CONSTANTS
    SearchPaths <- MCSearchPaths
    Aliases <- MCAliases
    Registry <- MCRegistry
    Prelude <- MCPrelude
    Programs <- MCPrograms
    MaxIterations = 2
INVARIANTS
    LoadsInOrder
    NamesMean
    RefusesOnlyWrong
    CalleesAreLowered
CHECK_DEADLOCK FALSE
