SPECIFICATION Spec
CONSTANTS
    Installed <- Devices
    InitTimes = 5
    MaxReadings = 2
INVARIANTS
    SensorInv
    OneMessagePerWholeCycle
    OneReadingPerMessage
PROPERTIES
    MessagesAdvance
