\* Every interleaving of the two adaptors' calls with the service and the
\* measurements; four sensor identities, up to two measurements waiting.
SPECIFICATION Spec
CONSTANTS
    accel = accel
    als = als
    s1 = s1
    s2 = s2
    s3 = s3
    s4 = s4
    Adaptors <- MCAdaptors
    Sensors <- MCSensors
    NoSensor = NoSensor
    NoAdaptor = NoAdaptor
    MaxPending = 2
SYMMETRY MCSymmetry
INVARIANTS
    TypeOK
    NoDeadCallback
    NoLeak
    OpenIsWired
    AnswerIsTrue
PROPERTIES
    NoStaleMeasurement
    FeedSpec
