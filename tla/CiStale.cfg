SPECIFICATION Spec
CONSTANTS
    Touched <- MCAllWays
    MaxPushes = 2
    MaxDispatches = 0
    MaxFailures = 1
    MaxImageFailures = 0
    None = None
INVARIANT
    RestoredWhenUnchanged
CHECK_DEADLOCK FALSE
