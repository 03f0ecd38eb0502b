CONSTANTS
    Obj = {1, 2}
    MaxValue = 1
    Members = 2
    Problem <- SomeProblems
    Modes <- ClausesWithPMinimal
SPECIFICATION Spec
CHECK_DEADLOCK FALSE
INVARIANT
    AnswerIsCorrect
