SPECIFICATION FairSpec
CONSTANTS
    x = x
    Ids <- TwoIds
    Cids <- OneCid
    Calls <- TwoCalls
    MaxPrompts = 3
    MaxSessions = 2
    MaxEvents = 1
    Nobody = Nobody
    NoAgent = NoAgent
    Idle = Idle
INVARIANTS
    TypeOK
    AnswersAreKept
    DispatchSettles
    BackgroundIsAnnounced
VIEW View
CHECK_DEADLOCK FALSE
PROPERTY CallsReturn
