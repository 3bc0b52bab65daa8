SPECIFICATION FairSpec
CONSTANTS
    Timeout = 5
    Period = 10
    Threshold = 1
    Echoes = {1, 2, 7}
    MaxGap = 2
INVARIANTS
    TypeOK
    VerdictIsOfLastPing
    MeasurementEnds
PROPERTIES
    StayingObstacleIsSeen
    GoneObstacleIsForgotten
