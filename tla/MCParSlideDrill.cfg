CONSTANTS
    Obj = {1, 2}
    MaxValue = 2
    Worker = {w1, w2}
    Main = w1
    Problem <- SomeProblems
    Modes <- SomeModes
SPECIFICATION MCSpec
CHECK_DEADLOCK FALSE
INVARIANTS
    IInv
    AssumedVariablesAreOpen
    NoRegionIsLost
    OneSlidePerPoint
    DrillsAreStrict
    AnswerIsCorrect
PROPERTIES
    Terminates
