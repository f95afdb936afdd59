SPECIFICATION Spec
CONSTANTS
    Nil = Nil
    Off = Off
    TICK = 10
    CORRECTION = 3
    SlopeBit = 3
    Range_ = 1
    LineGap = 4
    Steps = {1, 2, 7}
    MaxKeys = 8
    GroupLba = {0, 1, 2, 3, 4}
    Gap = 2
    NOS = 2
    PPS = 3
    MaxBatches = 4
    WritePages = 3
    AppLines = 1
    Lba = {0, 1, 2}
    PerGroup = 2
    FtlGap = 1
    SegPages = 2
    Segs = 3
    WbMax = 2
    MaxUnits = 2
    Rid = {r1, r2}
    Approx = TRUE
    MaxWrites = 6
    DataLba = {1, 2, 3}
    Grp = {11, 12}
    PageNOS = 6
    PagePPS = 2
    MinMap = 2
    MaxFlush = 8
    FineLba = {0, 1, 2}
    EntPerPage = 2
    MaxMap = 2
    FineRid = {1, 2, 3}
    Writes <- MCWrites
    FineMaxVer = 1
    MaxExtra = 1
    SftlGtd = {0, 1}
    PerPage = 3
    BITMAPSIZE = 1
    MaxBytes = 31
    Used <- MCUsed
    MaxPpa = 3
    HeapSeg = {s1, s2, s3, s4}
    MaxWeight = 3
INVARIANT LearnedLookupExact
INVARIANT GroupCacheExact
INVARIANT ReadsNotOlder
INVARIANT PagesFound
INVARIANT CachesExact
INVARIANT CachedMapLatest
PROPERTY VictimIsHeaviest
SYMMETRY ReadSymmetry
CHECK_DEADLOCK FALSE
