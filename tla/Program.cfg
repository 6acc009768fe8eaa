SPECIFICATION FairSpec
CONSTANTS
    SamplesPerBuffer = 2
    NumBuffers = 2
    DelaySamples = 1
    MessageSamples = 8
    TxCount = 2
    UintMax = 2000000000
    MHz = 1000
    Options <- AllOptions
    MaxOptions = 5
    Leftovers <- SomeLeftovers
    Decimations = {1, 4}
INVARIANTS
    TapeIsTransmission
    MessageIsRadiated
    SettingsInRange
    NothingLeft
    FreesItsOwn
    SessionIsSetUp
    StatusTellsOutcome
PROPERTIES
    Ends
CHECK_DEADLOCK FALSE
