CONSTANTS
    NOS = 3
    BPS = 1
    PPB = 2
    L2PGAP = 1
    Key = {k0}
    ZeroKey = k0
    LayeredLSM = FALSE
    Ver = {0, 1}
    Rid = {r1, r2}
    None = None
    Junk = Junk
    PQ = 4
    CopyMetaOnly = FALSE
    MaxLoads = 1
SPECIFICATION FairSpec
INVARIANT FlashReadsFresh
INVARIANT DeviceOrderKept
PROPERTY RequestsEnd
