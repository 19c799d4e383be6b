CONSTANTS
    Docs = {d1, d2, d3}
    App = App
    Outer = {d1}
    Modifiable = {d1}
    Keepable = {d1}
    Supervisors <- MCSupervisors
    NeedGraphs <- MCNeedGraphs
SPECIFICATION LimitedFairSpec
INVARIANTS
    TypeOK
    AssertionsHold
    NothingLingers
    NothingLost
PROPERTIES
    NeededStayOpen
    CallsReturn
