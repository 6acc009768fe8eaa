SPECIFICATION Spec
CONSTANTS
    Decimations <- TwoThree
    NumTaps <- ThreeTwo
    MaxInput = 7
    Samples = {0, 1}
    Zero = 0
    Convolve <- Oldest
INVARIANTS
    BufferIsWindow
    FitsOutput
    DecimatesEvenly
PROPERTIES
    OutputFromWindow
