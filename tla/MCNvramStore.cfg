\* Room for every variable, and a /tmp that is full.
SPECIFICATION Spec
CONSTANTS
    u = u  v = v  s = s  s2 = s2  x = x  y = y  long = long  w0 = w0  w1 = w1
    Var = {u, v}
    Sdram <- OneWord
    Val <- FittingVal
    Word = {w0, w1}
    DefaultWord = w0
    Fmt <- MCFmt
    Num <- MCNum
    Width <- MCWidth
    Bucket <- MCBucket
    Buckets = 2
    Hdr = 20
    PartSize = 56
    Short = {28, 52}
    FlashInit <- MCFlash
    Commands <- Ordinary
    MaxFaults = 2
    MaxReboots = 1
    None = None
INVARIANTS TableFaithful
PROPERTIES StoreSpec SavedOnSuccess
CHECK_DEADLOCK TRUE
