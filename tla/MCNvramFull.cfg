\* An area that fills up, and a /tmp that does.
SPECIFICATION Spec
CONSTANTS
    u = u  v = v  s = s  s2 = s2  x = x  y = y  long = long  w0 = w0  w1 = w1
    Var = {u, v}
    Sdram <- TwoWords
    Val <- MCVal
    Word = {w0, w1}
    DefaultWord = w0
    Fmt <- MCFmt
    Num <- MCNum
    Width <- MCWidth
    Bucket <- MCBucket
    Buckets = 2
    Hdr = 20
    PartSize = 48
    Short = {0, 23, 32}
    FlashInit <- MCFlash
    Commands <- Filling
    MaxFaults = 2
    MaxReboots = 1
    None = None
INVARIANTS TypeOK ReadableFlash
PROPERTIES SdramKept
CHECK_DEADLOCK TRUE
