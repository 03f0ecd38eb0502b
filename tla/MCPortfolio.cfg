CONSTANTS
    Obj = {1, 2}
    MaxValue = 1
    Members = 2
    Problem <- SomeProblems
    Modes <- SafeModes
SPECIFICATION FairSpec
CHECK_DEADLOCK FALSE
INVARIANTS
    IInv
    AnswerIsCorrect
    AnswersAgree
    ExportsAreArchived
PROPERTIES
    StopIsObeyed
