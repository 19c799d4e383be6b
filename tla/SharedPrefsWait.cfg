SPECIFICATION Spec
CONSTANTS
    Programs = {p1, p2}
    Values = {v1}
    NoValue = NoValue
    Action = "kTryWaitUntilCanOpen"
    MaxAttempts = 2
    Interrupted = FALSE
    SameSecond = FALSE
    MaxChanges = 0
    MaxEvictions = 1
    MaxDeaths = 0
PROPERTIES
    FileKept
