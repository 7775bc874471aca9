CONSTANTS
    Windows <- MC_Windows
    WindowLen <- MC_WindowLen
    LimitChoices <- MC_LimitChoices
    NoLimits = NoLimits
    IntWidth = 4
    One = 1
    Amounts = {2, 3}
    Prices = {1, 2}
    InitAmount = 4
    MaxTime = 3
    MaxRequests = 2
SPECIFICATION Spec
INVARIANTS TypeOK LockedMatchesPending StatsMatchHistory
