SPECIFICATION HandSpec
CONSTANTS
    Gateways = {1}
    Passages = {1}
    Entries <- mcEntries
    Hand <- mcHand
    Asks = {"query", "command"}
    None = None
    Lag = 2
    MaxCommands = 2
INVARIANTS
    DispatchInv
    HandInv
PROPERTIES
    LastRegisteredHears
    ImplementsStream
