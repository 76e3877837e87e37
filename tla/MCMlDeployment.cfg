SPECIFICATION FairSpec
CONSTANTS
    m1 = m1
    m2 = m2
    Models <- TwoModels
    None = None
    MinShadow = 1
    MinCanary = 1
    Window = 1
    LiveOod = 50
    RollbackOod = 60
    HistoryLimit = 1
    MaxRelease = 2
    MaxRows = 3
    MaxFaults = 1
CHECK_DEADLOCK FALSE
INVARIANTS
    TypeOK
    FilteringIsEarned
    AppliedIsEarned
PROPERTIES
    DriftEndsFiltering
