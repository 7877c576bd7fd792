SPECIFICATION FairSpec
CONSTANTS
    MaxExchanges = 4
    None = None
    MayCrash = TRUE
    Sizes = {1, 2, 3}
    Limit = 2
    Capacity = 2
INVARIANTS TypeOK Aligned NotBothWriting
PROPERTIES SessionSpec CallsReturn
