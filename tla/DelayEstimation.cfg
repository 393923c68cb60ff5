\* One filter with four reliable lags, enough for a drift of three samples; a
\* window of three lags, of which two make an estimate and three a refined one.
CONSTANTS
    NumFilters = 1
    FilterSize = 8
    Shift = 1
    LowEdge = 2
    HighEdge = 1
    HistorySize = 3
    Initial = 1
    Converged = 2
    ConsistentLimit = 1
    StableLimit = 1
    DownSampling = 1
    Headroom = 4
    Hysteresis = 1
    BlockSize = 1
    Unset = Unset
SPECIFICATION Spec
INVARIANTS
    TypeOK
    HistogramCounts
    DelayCoversEcho
    FrequentLagIsUsed
    RefinedIsSignificant
    DriftWasObserved
PROPERTY
    IsDelayController
