SPECIFICATION RxFairSpec
CONSTANTS
    States <- NexaStates
    Reset = "reset"
    Triggers <- NexaTriggers
    Duration <- NexaDuration
    Timeout <- NexaTimeout
    TicksPerUs = 1
    MaxBits = 8
    SampleUs = 250
    ElapsedCap = 17000
INVARIANTS
    RxTypeOK
    BitsBounded
    NoResidue
    NoOverstay
PROPERTIES
    OutputIsMessage
    QuietLineReturnsToIdle
