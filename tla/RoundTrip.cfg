SPECIFICATION RTSpec
CONSTANTS
    States <- NexaStates
    Reset = "reset"
    Triggers <- NexaTriggers
    Duration <- NexaDuration
    Timeout <- NexaTimeout
    TicksPerUs = 1
    MaxBits = 2
    SampleUs = 25
    ElapsedCap = 17000
    InitialAlloc = 200
    UintMax = 100000
    Copies = 2
    Delay = 2
    Flush = 3
    Jitter <- OneSample
INVARIANTS
    WithinAllocation
    ReadyForNextCopy
PROPERTIES
    Succeeds
    ImplementsLink
CHECK_DEADLOCK FALSE
