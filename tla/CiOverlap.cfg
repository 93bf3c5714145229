SPECIFICATION Spec
CONSTANTS
    Touched <- MCOverlap
    MaxPushes = 2
    MaxDispatches = 0
    MaxFailures = 1
    MaxImageFailures = 0
    None = None
INVARIANT
    PushDoesNotRace
CHECK_DEADLOCK FALSE
