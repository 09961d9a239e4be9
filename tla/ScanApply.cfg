SPECIFICATION MCSpec
CONSTANTS
    Writers = {w1}
    Domains = {1, 2}
    Apps = {1}
    Models = {1}
    Ttls = {2}
    Batches <- OneBatch
    MaxDomains = 2
    MaxApps = 1
    MaxTtl = 2
    MaxHorizon = 1
    MaxSkew = 1
    DefaultTtl = 1
    MaxNow = 1
    MaxCalls = 6
    Scale = 8
    UMax = 127
    Reclaimers = {r1}
    Admins = {a1, a2}
    UsedModes = {"disabled", "apply"}
    Natives = {4}
    UsedPressures = {"normal", "emergency"}
    ParamSets <- OnlyGoodParams
    GuardFailures = 1
SYMMETRY TaskSymmetry
INVARIANTS
    OneGuardPerDomain
    AppliedWasAuthorised
