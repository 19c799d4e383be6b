CONSTANTS
    UrgentTasks = {u1}
    IdleTasks = {}
    MaxWindows = 0
    MaxWindowsInSignals = 0
    SignalListSize = 2
    MaxRaised = 2
    OwnersDelete = FALSE
SPECIFICATION Spec
SYMMETRY Symmetry
INVARIANTS
    SignalsKept
