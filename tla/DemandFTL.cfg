CONSTANTS
    Lba = {0, 1}
    EntPerPage = 1
    NOS = 4
    PPS = 2
    L2PGAP = 2
    CachePages = 1
    MapLimit = 3
    Rid = {r1, r2}
    None = None
    MaxAssign = 1
    MaxFlush = 3
    MaxRemoves = 1
    MaxLoads = 1
SPECIFICATION Spec
SYMMETRY Symmetry
INVARIANT SlotsExact
INVARIANT MappingLatest
INVARIANT NobodyStranded
PROPERTY MapRefined
CHECK_DEADLOCK FALSE
