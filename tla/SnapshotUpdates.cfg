SPECIFICATION SnapshotFairSpec
CONSTANTS
    Writers = {w1, w2}
    Domains = {1, 2, 3}
    Apps = {1, 2}
    Models = {1}
    Ttls = {2}
    Batches <- MCBatches
    MaxDomains = 2
    MaxApps = 2
    MaxTtl = 2
    MaxHorizon = 1
    MaxSkew = 1
    DefaultTtl = 1
    MaxNow = 3
    MaxCalls = 3
INVARIANTS
    SnapshotOK
    OneGeneration
    ReadersAgree
PROPERTY
    UpdatesAreSerial
    WritesReturn
CHECK_DEADLOCK FALSE
