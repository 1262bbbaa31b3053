CONSTANTS
    MaxDepth = 9
    FlushAt = 3
    MaxBytes = 9
    WordBytes = 2
    MaxSlack = 1
    Families <- TextFamilies
    Completions <- TextCompletions
SPECIFICATION TextSpec
INVARIANTS
    ScannersAgree
    CutOffIsCurable
    BufferSound
    OutputCompletes
    SinkAtBoundary
    WalkExact
    WalkVerdict
PROPERTY RejectionStands
CHECK_DEADLOCK FALSE
