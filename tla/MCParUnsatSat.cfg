CONSTANTS
    Obj = {1, 2}
    MaxValue = 1
    Worker = {w1, w2}
    NoWorker = NoWorker
    Value <- AllValues
    Problem <- EveryProblem
    Stride = 1
    Modes <- SharedClauses
SPECIFICATION FairSpec
CHECK_DEADLOCK FALSE
INVARIANTS
    IInv
    ExclusionIsJustified
PROPERTIES
    Terminates
