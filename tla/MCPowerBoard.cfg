SPECIFICATION PowerSpec
CONSTANTS
    N = 3
    Round = 6
    Retry = 2
    BeepGap = 2
INVARIANTS
    PowerInv
    StatusHasValues
    TopicIsCurrent
PROPERTIES
    SwitchesReported
