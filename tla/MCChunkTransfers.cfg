SPECIFICATION Spec
CONSTANTS
    short = short
    long = long
    Transfers = {short, long}
    Chunks <- Sizes
    Window = 2
    PeerWindow = 2
    MaxAssemblies = 2
    Room = 6
    MaxFaults = 1
INVARIANTS WholeOnce SlotsAccounted NoFailureWithoutFault
PROPERTIES TransfersEnd
CHECK_DEADLOCK FALSE
