CONSTANTS
    Txn = {t1, t2, t3}
    Shape <- MixedShapes
    Tag = {g1, g2}
    QDEPTH = 2
    QSIZE = 2
    RetryKinds = {"GET", "SET"}
    MaxRetry = 1
    FlushAnswer = FALSE
    None = None
SYMMETRY Symmetry
SPECIFICATION Spec
INVARIANT ResourcesExact
INVARIANT NoUseAfterFree
