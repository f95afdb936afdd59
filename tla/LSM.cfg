CONSTANTS
    Lba = {0, 1, 2, 3}
    TotalLevel = 2
    SizeFactor = 2
    Spare = 1
    Pool = 7
    BlockSectors = 2
    Loads <- MCLoads
    None = None
CHECK_DEADLOCK FALSE
VIEW LsmView
SPECIFICATION Spec
INVARIANT LatestOnly
INVARIANT RunsInPlace
