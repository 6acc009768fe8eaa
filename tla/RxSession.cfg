SPECIFICATION Spec
CONSTANTS
    NumSamples = 2
    Decimation = 3
    Signals <- ShortSignals
    MaxMessages = 1
    MsgFields = 2
INVARIANTS
    BuffersJoinUp
    DigIsSignal
    StopsCleanly
    StopsSoon
CHECK_DEADLOCK FALSE
