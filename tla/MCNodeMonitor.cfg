SPECIFICATION NodeMonitorSpec
CONSTANTS
    Devices = {"motor1", "motor2", "power"}
    Sections = {"motors_mapping", "power_mapping"}
    SectionOf <- mcSectionOf
    Single = {"power_mapping"}
    Oversleep = 2
    Motors = {"motor1"}
    MaxMessages = 2
    MaxStatuses = 2
CHECK_DEADLOCK FALSE
INVARIANTS
    NodeInv
    MonitorInv
PROPERTIES
    ReadyIsFollowed
    ReportsExact
