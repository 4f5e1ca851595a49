SPECIFICATION PublishSpec
CONSTANTS
    Topic = {motors, imu}
    Native = native
    MaxMsgs = 3
    MaxSubs = 2
INVARIANTS
    PublishInv
    Served
PROPERTIES
    EveryMessagePublished
