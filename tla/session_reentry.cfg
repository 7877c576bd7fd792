SPECIFICATION Spec
CONSTANTS
    MaxExchanges = 5
    None = None
    Reentry = TRUE
    MayCrash = FALSE
INVARIANT
    SessionSurvives
