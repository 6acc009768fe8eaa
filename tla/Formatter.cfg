SPECIFICATION Spec
CONSTANTS
    DataBits = 20
    Fields <- MixedFields
    ParamLists <- MixedParams
    IntBits = 5
    WordBits = 7
    FloatBits = 4
INVARIANTS
    ReadsBack
PROPERTIES
    FieldsKeepApart
CHECK_DEADLOCK FALSE
