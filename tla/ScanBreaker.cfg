SPECIFICATION MCSpec
CONSTANTS
    Writers = {w1}
    Domains = {1}
    Apps = {1}
    Models = {1}
    Ttls = {2}
    Batches <- MCBatches
    MaxDomains = 1
    MaxApps = 1
    MaxTtl = 2
    MaxHorizon = 1
    MaxSkew = 1
    DefaultTtl = 1
    MaxNow = 2
    MaxCalls = 6
    Scale = 8
    UMax = 127
    Reclaimers = {r1, r2}
    Admins = {}
    UsedModes = {}
    Natives = {4}
    UsedPressures = {"normal"}
    ParamSets <- MCParams
    GuardFailures = 3
SYMMETRY TaskSymmetry
INVARIANTS
    FailuresAreFresh
    BreakerCanClose
