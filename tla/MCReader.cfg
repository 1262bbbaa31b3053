CONSTANTS
    MaxDepth = 2
    WordBytes = 2
    Inputs <- MCInputs
    Tails = {"EOF", "ERR"}
    Limits = {0, 3}
    BufferSizes = {1, 2}
SPECIFICATION Spec
INVARIANTS
    WindowSound
    FramesWhole
PROPERTIES
    NoNeedlessRead
    ImplementsValueStream
