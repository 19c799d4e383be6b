CONSTANTS
    Docs = {d1, d2}
    App = App
    Outer = {d1}
    Modifiable = {d1, d2}
    Keepable = {d1, d2}
    Supervisors <- MCSupervisors
    NeedGraphs <- MCNeedGraphs
SPECIFICATION Spec
CHECK_DEADLOCK FALSE
INVARIANTS
    AssertionsHold
