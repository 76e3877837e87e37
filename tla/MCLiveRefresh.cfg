SPECIFICATION FairSpec
CONSTANTS
    Callers = {"daemon", "workflow"}
    Instruments <- TwoMarkets
    Attempts = 2
    CandleCloses = {1, 3}
    RefreshLimit = 1
    MaxQuoteAge = 0
    MaxTime = 3
    MaxKills = 1
CHECK_DEADLOCK FALSE
INVARIANTS
    TypeOK
    CurrentQuoteIsWhole
    ReportedIsComplete
PROPERTIES
    CyclesEnd
    StopEnds
