CONSTANTS
    Programs = {p1, p2, p3}
    Askers = {p1}
    Owners = {p2, p3}
    Selections = {s1}
    None = None
    Length <- MCLength
    TypeList = "types"
    MaxChunk = 2
    Overlaps = FALSE
    MaxQueue = 2
    MaxDeaths = 1
    MaxAllocErrors = 1
SPECIFICATION FairSpec
INVARIANTS
    TypeOK
    WholeOrNothing
    NoNeedlessFailure
PROPERTY EachReturns
