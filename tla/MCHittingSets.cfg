CONSTANTS
    Obj = {1, 2}
    MaxValue = 2
    Var = {"a", "b", "c"}
    Weight <- UnitWeights
    Formulas <- SomeFormulas
    Worker = {w1, w2}
    Optimizer = {s1, s2}
    Stride = 2
    Modes <- AllModes
SPECIFICATION FairSpec
CHECK_DEADLOCK FALSE
INVARIANTS
    IInv
    AnswerIsCorrect
    LowerBoundSet
    CountsAreExact
    PermanentIsJustified
PROPERTIES
    AbsorbedIsOptimal
    Terminates
