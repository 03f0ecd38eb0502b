CONSTANTS
    Obj = {1, 2}
    MaxValue = 5
    Var = {"e", "p", "q", "r"}
    Weight <- MixedWeights
    Formulas <- TwoWays
    Worker = {w1}
    Optimizer = {s1}
    Stride = 2
    Modes <- Parallel
SPECIFICATION Spec
CHECK_DEADLOCK FALSE
INVARIANT
    AnswerIsCorrect
