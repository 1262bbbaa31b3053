CONSTANTS
    Procs = {p1, p2}
    Nil = Nil
    Sizes = {1, 3, 6, 7}
    HintMin = 2
    HintMax = 4
    HintGrowth = 2
    Types <- TypeIds
    Root = 1
    Graphs <- TypeGraphs
    Modes = {"decode", "replace", "encode", "dynamic"}
    InlineSize = 2
SPECIFICATION CodecsSpec
INVARIANTS
    BudgetEarned
    PlanSound
    VerdictRight
PROPERTY ImplementsSizeHint
