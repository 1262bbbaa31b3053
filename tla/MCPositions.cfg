CONSTANTS
    WordBytes = 2
    CoalesceBlocks = 1
SPECIFICATION PositionsSpec
INVARIANTS
    PositionsExact
    EngineExact
    TapeExact
CHECK_DEADLOCK FALSE
