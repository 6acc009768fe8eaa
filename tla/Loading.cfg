SPECIFICATION Spec
CONSTANTS
    MaxUint = 127
    Malformed = Malformed
    NameLen = 24
    HomeLen = 20
    DataLen = 60
    Increment = 64
    ResetNames <- ResetOnly
    MaxInput = 10
    Files <- AllFiles
INVARIANTS
    FirstFound
    ClosedIsBuilt
    FieldsAsDescribed
    OutputsFit
    LoadsOrRefuses
    ReturnsAllOrNothing
CHECK_DEADLOCK FALSE
