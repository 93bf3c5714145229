SPECIFICATION FairSpec
CONSTANTS
    Touched <- MCAllWays
    MaxPushes = 2
    MaxDispatches = 1
    MaxFailures = 1
    MaxImageFailures = 1
    None = None
INVARIANTS
    TypeOK
    FreshProducts
PROPERTIES
    PagesNeverGoBack
    FlashNeverGoesBack
    CatchesUp
CHECK_DEADLOCK FALSE
