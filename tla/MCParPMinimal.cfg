CONSTANTS
    Obj = {1, 2}
    MaxValue = 2
    Worker = {w1, w2}
    Main = w1
    ObjectiveLit = {a, b}
    Problem <- SomeProblems
    Modes <- SomeModes
SPECIFICATION FairSpec
CHECK_DEADLOCK FALSE
INVARIANTS
    IInv
    DoneIsComplete
    AnswerIsCorrect
PROPERTIES
    ModelsImprove
    Terminates
