SPECIFICATION LiveSpec
CONSTANTS
    Dev = {a}
    Config = {1, 2}
    Vif <- MCVif
    VifsOf <- MCVifsOf
    Ifindex = {0, 1}
    DEFAULT_RETRY = 0
    None = None
    MaxRequests = 4
PROPERTY
    EventuallySettled
