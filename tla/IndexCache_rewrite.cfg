SPECIFICATION Spec
CONSTANTS
    None = None
    Buf = Buf
    Log = Log
    Sc = {0, 1}
    Run = {10, 11}
    Req = {r1, r2}
    MaxCache = 4
    ScSize = 2
    IdxSize = 1
    ScPages = 20
    MaxMerge = 3
    MaxRead = 3
    MaxInsert = 4
    DataOverlap = FALSE
    RewriteOverlap = TRUE
INVARIANT StePicked
CHECK_DEADLOCK FALSE
