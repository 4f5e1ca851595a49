SPECIFICATION MotorSpec
CONSTANTS
    Lim = 2
    Offset = 1
    Positions <- MCPositions
    Distances <- MCDistances
    QueueMax = 2
PROPERTIES
    DistanceReached
