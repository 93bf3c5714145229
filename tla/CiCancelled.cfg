SPECIFICATION FairSpec
CONSTANTS
    Touched <- MCOverlap
    MaxPushes = 2
    MaxDispatches = 0
    MaxFailures = 1
    MaxImageFailures = 0
    None = None
PROPERTY
    PackedAfterPublish
CHECK_DEADLOCK FALSE
