SPECIFICATION ListSpec
CONSTANTS
    InitialBacking = 16
    EltSize = 16
    MaxSize = 40
INVARIANT ElementsFit
