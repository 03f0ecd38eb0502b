CONSTANTS
    Obj = {1, 2}
    MaxValue = 2
    Var = {"a", "b", "c"}
    Weight <- BothPolarities
    Formulas <- EveryAssignment
    Worker = {w1, w2}
    Optimizer = {s1, s2}
    Stride = 2
    Modes <- Parallel
SPECIFICATION Spec
CHECK_DEADLOCK FALSE
INVARIANT
    AnswerIsCorrect
