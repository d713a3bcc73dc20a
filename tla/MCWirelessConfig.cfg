SPECIFICATION ConfigSpec
CONSTANTS
    Dev = {a}
    Config = {1, 2}
    Vif <- MCVif
    VifsOf <- MCVifsOf
    Ifindex = {0}
    DEFAULT_RETRY = 0
    None = None
INVARIANTS
    NoConfigLost
    DataFiledRight
    TeardownKnowsPhy
    LinksTakenDown
