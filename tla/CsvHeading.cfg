SPECIFICATION Spec
CONSTANTS
    NumSamples = 2
    Decimation = 3
    Signals <- ShortSignals
    MaxMessages = 2
    MsgFields = 2
INVARIANT RowsMatchHeading
CHECK_DEADLOCK FALSE
