SPECIFICATION ServiceSpec
CONSTANTS
    Mixes <- MCMixes
    Payloads <- MCPayloads
    Absent = Absent
    TempNames = {1, 2}
    CacheFor = 1
    PipeSize = 1
    MaxChunks = 2
    MaxTime = 2
    MaxUpgrades = 1
    MaxKills = 1
INVARIANTS
    FreshVersion
    AnswersOwnBody
    TempsRemoved
    LinksLead
PROPERTIES
    EveryRequestEnds
\* Every request may be over.
CHECK_DEADLOCK FALSE
