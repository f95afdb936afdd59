SPECIFICATION Spec
CONSTANTS
    Off = Off
    Pool = {"flush", "knob"}
    Threads <- MCThreads
    Script <- MCScript
    Slots = 2
    Blocks = 2
    Requests <- MCRequests
    MaxSend = 3
    BufferSize = 2
    WithBuffer = {TRUE, FALSE}
    Plans <- MCPlans
    PerCommand = 2
    MaxFlight = 3
    Ppa = {0, 2}
    PerBlock = 1
    QDEPTH = 2
    Id = {1, 2, 3}
    MaxVer = 2
    TrimsBusy = FALSE
    MAX_REQ_NUM = 3
    MaxCalls = 5
    AMF_PUNIT = 2
    R2PGAP = 2
    RPPB = 2
    PPB = 1
    AmfDepth = 2
    MaxIssue = 3
    Key = {0, 1, 2, 3}
    block_in_partition = 2
    max_slab_num = 3
    L2PGAP = 2
    MaxInsert = 5
INVARIANT DoneExactlyOnce
INVARIANT DeviceEndsOnce
INVARIANT AnsweredReadsFresh
INVARIANT BenchmarkSound
PROPERTY RequestsAnswered
PROPERTY DriversEnd
CHECK_DEADLOCK FALSE
