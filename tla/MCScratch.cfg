CONSTANTS
    Procs = {p1, p2, p3}
    Deep = p1
    States = {s1, s2, s3}
    Nil = Nil
    CacheSlots = 2
    MapNodes = {m}
    InlineNodes = {n}
    ReceiverNodes = {n}
    MaxNest = 3
    Subjects = {"pool", "nest", "encode"}
    Scratches = {e1, e2}
    MapPlans <- MCPlans
    Boxes = 1
    MaxLen = 2
    MaxFrames = 2
SYMMETRY Symmetry
SPECIFICATION ScratchSpec
INVARIANTS
    Exclusive
    ScratchApart
    CachedClean
    PooledClean
    ResetCovers
