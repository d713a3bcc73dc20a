\* A block for replacements that is bad from the factory.
SPECIFICATION Spec
CONSTANTS
    Devices <- SpareBad
    Total = 16
    Logical = 7
    Pages = 2
    Flips = {0, 1, 2}
    Val = {v, w}
    Blank = Blank
    Junk = Junk
    Torn = Torn
    None = None
    Sig = Sig
    PoolLba = 12
    Main = 7
    BbMax = 2
    MaxRatio = 10
    MaxReserved = 9
    BbtBlock = 15
INVARIANT MapInjective
CHECK_DEADLOCK FALSE
