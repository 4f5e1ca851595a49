SPECIFICATION Spec
CONSTANTS
    Addr = {a1, a2, a3, a4}
    NoAddr = NoAddr
    MaxItems = 5
    TailLast = TRUE
INVARIANTS
    NoBadAccess
    QueueInv
PROPERTIES
    ImplementsFifo
