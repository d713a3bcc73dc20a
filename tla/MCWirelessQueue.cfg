SPECIFICATION Spec
CONSTANTS
    Dev = {a, b}
    Config = {1}
    Vif <- MCVif
    VifsOf <- MCVifsOf
    Ifindex <- MCIfindex
    DEFAULT_RETRY = 3
    None = None
SYMMETRY Symmetry
INVARIANTS
    TypeOK
    PendingHasRun
    RunHasDevice
    UpIsWanted
    GivesUp
    MldStarted
