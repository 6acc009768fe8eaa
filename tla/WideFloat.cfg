SPECIFICATION Spec
CONSTANTS
    DataBits = 6
    Fields <- WideFields
    ParamLists <- WideParams
    IntBits = 7
    WordBits = 8
    FloatBits = 5
INVARIANTS
    FormulasHold
CHECK_DEADLOCK FALSE
