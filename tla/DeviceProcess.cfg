SPECIFICATION FairSpec
CONSTANTS
    States <- ShortStates
    Reset = "reset"
    Triggers <- ShortTriggers
    Duration <- ShortDuration
    Timeout <- ShortTimeout
    MaxBits = 1
    SampleUs = 1
    ElapsedCap = 3
    Buffers <- ShortBuffers
    Fields <- OneField
    Timestamped = TRUE
    InitialBacking = 1
    EltSize = 2
    MaxSize = 6
INVARIANTS
    EachSampleOnce
    EveryMessageFormatted
    SizeWithinBacking
    NoLeak
PROPERTIES
    Returns
    DecodesSamples
