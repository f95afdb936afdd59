\* L2PGAP as in the default build.
CONSTANTS
    Lba = {0, 1, 2}
    L2PGAP = 4
    SteEntries = 4
    MaxWrites = 8
SPECIFICATION Spec
INVARIANT BufferNewest
CHECK_DEADLOCK FALSE
