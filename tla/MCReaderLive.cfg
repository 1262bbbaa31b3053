CONSTANTS
    MaxDepth = 2
    WordBytes = 2
    Inputs <- MCLiveInputs
    Tails = {"EOF", "ERR"}
    Limits = {0, 1}
    BufferSizes = {1, 2}
SPECIFICATION FairSpec
PROPERTY CallsReturn
