CONSTANTS
    NOS = 3
    BPS = 2
    PPB = 1
    L2PGAP = 2
    Key = {k0, k1, k2}
    ZeroKey = k0
    LayeredLSM = FALSE
    Ver = {0}
    Rid = {}
    None = None
    Junk = Junk
    PQ = 1
    CopyMetaOnly = FALSE
    MaxLoads = 1
SPECIFICATION Spec
SYMMETRY Symmetry
INVARIANT TypeOK
INVARIANT MappingSound
INVARIANT SegmentsPartition
INVARIANT BooksExact
INVARIANT NothingLost
INVARIANT GcMakesRoom
