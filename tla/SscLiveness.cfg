\* The pump under fairness: the two adaptors, no symmetry, two measurements
\* waiting per sensor.
SPECIFICATION FairSpec
CONSTANTS
    accel = accel
    als = als
    s1 = s1
    s2 = s2
    s3 = s3
    s4 = s4
    Adaptors <- MCAdaptors
    Sensors <- MCPool
    NoSensor = NoSensor
    NoAdaptor = NoAdaptor
    MaxPending = 2
PROPERTIES
    Pumped
