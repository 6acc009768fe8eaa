SPECIFICATION Spec
CONSTANTS
    States <- NexaStates
    Reset = "reset"
    Triggers <- NexaTriggers
    Duration <- NexaDuration
    Timeout <- NexaTimeout
    TicksPerUs = 8
    MaxBits = 2
    SampleUs = 1
    ElapsedCap = 140000
    InitialAlloc = 16384
    UintMax = 1000000000
INVARIANT WithinAllocation
CHECK_DEADLOCK FALSE
