SPECIFICATION Spec
CONSTANTS
    None = None
    Off = Off
    Lba = {0, 1, 2, 3}
    NOS = 6
    BPS = 2
    PPB = 1
    L2PGAP = 3
    MemEntries = 3
    MaxRuns = 1
    Sids = 5
    MaxForce = 1
    MaxFlush = 3
    Sc = {0, 1}
    Run = {10, 11}
    Req = {r1, r2}
    MaxCache = 4
    ScSize = 2
    IdxSize = 1
    ScPages = 20
    MaxMerge = 3
    MaxRead = 4
    MaxInsert = 2
    DataOverlap = FALSE
    RewriteOverlap = FALSE
    Buf = Buf
    Log = Log
    IdxLba = {0, 1, 2, 3, 4, 6, 9}
    IdxGap = 2
    IdxPPB = 2
    Kinds = {"BF", "GUARD_BF", "PLR", "COMP"}
    Hashes <- MCHashes
    Member = 3
    TICK = 10
    CORRECTION = 3
    SlopeBit = 3
    Range_ = 1
    XFull = 3
    YFull = 3
    DeltaSize = 2
    PerChunk = 3
    CompMax = 2
    Prefetch = 1
    IdxReq = {q1}
    MemLba = {0, 1, 2}
    MemGap = 2
    SteEntries = 4
    MaxWrites = 7
INVARIANT StoreSound
INVARIANT StoreReadsFresh
INVARIANT CacheSound
INVARIANT ShortcutsKept
PROPERTY NotFoundIsTrue
PROPERTY ReadsEnd
INVARIANT IndexFinds
INVARIANT MergeInputExact
CHECK_DEADLOCK FALSE
