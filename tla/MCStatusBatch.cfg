SPECIFICATION Spec
CONSTANTS
    N = 3
    Managers <- MCManagers
    MaxAge = 3
INVARIANTS
    BatchInv
    MessagesComplete
    SteadyMessagesCurrent
PROPERTIES
    KeepsPublishing
