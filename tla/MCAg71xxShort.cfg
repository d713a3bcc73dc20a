\* Memory that stays short while frames arrive.
SPECIFICATION Spec
CONSTANTS
    RxSize = 2
    Wrap = 16
    DsPerPkt = 2
    Weight = 1
    Envs <- Short
    None = None
INVARIANT AssertHolds
CHECK_DEADLOCK FALSE
