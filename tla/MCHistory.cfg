SPECIFICATION HistorySpec
CONSTANTS
    Refs <- FiveRefs
    Keep = 2
    SummaryMin = 3
    SummaryKeep = 2
    MaxRounds = 2
    MaxIds = 2
    MaxPrompts = 2
    MaxEdits = 3
    NoRef = NoRef
    NoList = NoList
VIEW Seen
INVARIANTS
    HistoryTypeOK
    ToolPairsAreKept
PROPERTY
    FailedTurnCanBeRetried
CHECK_DEADLOCK FALSE
