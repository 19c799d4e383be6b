SPECIFICATION FairSpec
CONSTANTS
    Programs = {p1, p2}
    Values = {v1, v2}
    NoValue = NoValue
    Action = "kDeleteIfWaitTimeout"
    MaxAttempts = 2
    Interrupted = FALSE
    SameSecond = FALSE
    MaxChanges = 2
    MaxEvictions = 1
    MaxDeaths = 2
INVARIANTS
    TypeOK
    OneOwner
    NothingTorn
    UpToDate
PROPERTIES
    Converges
