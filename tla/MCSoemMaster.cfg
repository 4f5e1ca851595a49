SPECIFICATION SoemSpec
CONSTANTS
    Slaves = 2
    Tries = 2
    Period = 1
    MaxErr = 0
INVARIANTS
    SoemInv
PROPERTIES
    SupervisionWaitsForStart
    LostSlaveStopsBus
    SlavesRecover
    ImplementsBusLife
