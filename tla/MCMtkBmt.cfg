\* All three schemes: failing and fading blocks, power cuts, the debugfs files.
SPECIFICATION Spec
CONSTANTS
    Devices <- AllDevices
    Total = 16
    Logical = 7
    Pages = 2
    Flips = {0, 1, 2}
    Val = {v, w}
    Blank = Blank
    Junk = Junk
    Torn = Torn
    None = None
    Sig = Sig
    PoolLba = 12
    Main = 7
    BbMax = 2
    MaxRatio = 10
    MaxReserved = 9
    BbtBlock = 15
INVARIANTS    TablesHoldMap AreasOrdered
 
CHECK_DEADLOCK FALSE
