CONSTANTS
    UrgentTasks = {u1, u2}
    IdleTasks = {t1}
    MaxWindows = 2
    MaxWindowsInSignals = 1
    SignalListSize = 2
    MaxRaised = 3
    OwnersDelete = FALSE
SPECIFICATION FairSpec
INVARIANTS
    TypeOK
    OneListPerIdleTask
    SafeToPerform
    UrgentOnce
    DeliveredInOrder
PROPERTIES
    PassEnds
