SPECIFICATION Spec
CONSTANTS
    Dev = {a}
    Config = {1, 2}
    Vif <- MCVif
    VifsOf <- MCVifsOf
    Ifindex <- MCIfindex
    DEFAULT_RETRY = 0
    None = None
INVARIANT
    TeardownHasPhy
