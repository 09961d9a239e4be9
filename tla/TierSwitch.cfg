SPECIFICATION FairSpec
CONSTANTS
    small = small
    large = large
    Admins = {a1, a2}
    Reclaimers = {r1, r2}
    Folios = {small}
    Pages <- OnePage
    UsedModes = {"off", "bidir"}
    Configs <- MCConfigs
    RatioBase = 4
    NoProgressLimit = 1
    EpochIds = 3
    MaxRuns = 2
    MaxCalls = 5
INVARIANTS
    OpenBatchIsCurrent
    OffMeansOff
PROPERTY
    SetModeReturns
CHECK_DEADLOCK FALSE
