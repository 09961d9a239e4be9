SPECIFICATION MCSpec
CONSTANTS
    small = small
    large = large
    Admins = {a1}
    Reclaimers = {r1, r2}
    Folios = {small, large}
    Pages <- MCPages
    UsedModes = {"off", "shadow", "protect", "bidir"}
    Configs <- MCConfigs
    RatioBase = 4
    NoProgressLimit = 1
    EpochIds = 3
    MaxRuns = 2
    MaxCalls = 6
SYMMETRY TaskSymmetry
INVARIANTS
    NoProgressIsThisRun
    BudgetsRespected
    AccountingNeverFaults
