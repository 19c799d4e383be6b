CONSTANTS
    MaxLength = 6
    MaxValue = 3
    Arrays <- MCArrays
    Targets <- MCTargets
SPECIFICATION FairSearch
INVARIANTS
    AnswerCorrect
PROPERTIES
    Terminates
CHECK_DEADLOCK FALSE
