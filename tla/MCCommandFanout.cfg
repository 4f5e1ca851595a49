SPECIFICATION FanoutSpec
CONSTANTS
    M = 3
    Order <- MCOrder
    MaxReceived = 5
INVARIANTS
    FanoutInv
    FramesTogether
