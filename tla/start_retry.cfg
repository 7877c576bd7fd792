SPECIFICATION FairSpec
CONSTANTS
    MaxAttempts = 3
    MayCrash = TRUE
INVARIANTS
    TypeOK
    PeerIsFree
    PublishedIsServed
    NoneLeftBehind
PROPERTIES
    AttemptsReturn
    ExitsWithSocket
