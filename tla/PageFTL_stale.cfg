CONSTANTS
    NOS = 3
    BPS = 1
    PPB = 1
    L2PGAP = 1
    Key = {k0}
    ZeroKey = k0
    LayeredLSM = FALSE
    Ver = {0, 1}
    Rid = {r1}
    None = None
    Junk = Junk
    PQ = 1
    CopyMetaOnly = FALSE
    MaxLoads = 0
SPECIFICATION Spec
INVARIANT AllReadsFresh
