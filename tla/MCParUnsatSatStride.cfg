CONSTANTS
    Obj = {1, 2}
    MaxValue = 4
    Worker = {w1, w2}
    NoWorker = NoWorker
    Value <- SparseValues
    Problem <- SparseProblems
    Stride = 3
    Modes <- SmallBudget
SPECIFICATION Spec
SYMMETRY WorkerSymmetry
CHECK_DEADLOCK FALSE
INVARIANTS
    AnswerIsCorrect
    NoFenceIsLost
    FencesAreDistinct
