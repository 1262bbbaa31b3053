CONSTANTS
    Procs = {p1, p2, p3}
    Deep = p1
    States = {s1, s2}
    Nil = Nil
    CacheSlots = 2
    MapNodes = {m}
    InlineNodes = {n}
    ReceiverNodes = {n}
    MaxNest = 3
    Subjects = {"encode"}
    Scratches = {e1}
    MapPlans <- SmallPlans
    Boxes = 1
    MaxLen = 2
    MaxFrames = 2
SYMMETRY Symmetry
SPECIFICATION ScratchSpec
INVARIANT RetentionBounded
