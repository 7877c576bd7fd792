SPECIFICATION FairSpec
CONSTANTS
    MaxExchanges = 5
    None = None
    Reentry = FALSE
    MayCrash = TRUE
INVARIANTS
    TypeOK
    OneFrameInFlight
    AnswerIsOwn
    OutcomeIsOwn
    SessionSurvives
PROPERTIES
    RemoteCallSpec
    CallsReturn
