SPECIFICATION Spec
CONSTANTS
    NoPower = NoPower
    Runners = {r1, r2}
    MaxLaunches = 3
    Readings <- MCReadings
    MaxTopic = 3
    MaxFiles = 3
SYMMETRY MCSymmetry
INVARIANT SuccessMeansClean
PROPERTY SilverIsFeed
CHECK_DEADLOCK FALSE
