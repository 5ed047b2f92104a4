SPECIFICATION FairSpec
CONSTANTS
    Episodes = 2
    MAX_ROUNDS = 2
    FailureLimit = 2
    Grant = {0, 1}
    MaxNotes = 1
    MaxAnswers = 1
    MaxContinues = 1
    MaxLaunches = 2
    MaxIndex = 4
INVARIANTS CompleteIsAudited NeverFallsOut TextsOnce 
PROPERTY ReturnsToOperator
CHECK_DEADLOCK FALSE
