SPECIFICATION Spec
CONSTANTS
    Callers = {"daemon"}
    Instruments <- TwoMarkets
    Attempts = 1
    CandleCloses = {1}
    RefreshLimit = 1
    MaxQuoteAge = 0
    MaxTime = 2
    MaxKills = 0
CHECK_DEADLOCK FALSE
INVARIANTS
    FailureBlocksNoOther
