SPECIFICATION Spec
CONSTANTS
    m1 = m1
    m2 = m2
    Models <- TwoModels
    None = None
    MinShadow = 1
    MinCanary = 1
    Window = 1
    LiveOod = 50
    RollbackOod = 60
    HistoryLimit = 4
    MaxRelease = 2
    MaxRows = 3
    MaxFaults = 1
CHECK_DEADLOCK FALSE
INVARIANT TransitionsKept
