SPECIFICATION Spec
CONSTANTS
    Kinds <- MCKinds
    Positions <- MCPositions
    Steps <- MCSteps
    Tolerance = 1
    Reach = 4
    QueueMax = 4
CHECK_DEADLOCK FALSE
INVARIANTS
    CanInv
    EnabledInMode
    SwitchedOnInPlace
PROPERTIES
    StartsUp
    GetsThere
