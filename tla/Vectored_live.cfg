\* An FTL like leaFTL: reads may go round again, writes may ask for quiet.
CONSTANTS
    Txn = {t1, t2}
    Shape <- FlushShapes
    Tag = {g1, g2}
    QDEPTH = 2
    QSIZE = 2
    RetryKinds = {"GET"}
    MaxRetry = 1
    FlushAnswer = TRUE
    None = None
SPECIFICATION FairSpec
INVARIANT FlushGuarded
PROPERTY EveryTxnEnds
