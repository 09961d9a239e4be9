SPECIFICATION FairSpec
CONSTANTS
    Apps = {1, 2, 3}
    Domains = {1, 2, 3}
    ScoreMax = 1
    MaxApps = 2
    MaxDomains = 1
    MaxTtl = 2
    MaxSkew = 0
    MaxAge = 1
    KernelAbi = 3
    Publishers = {p1, p2}
    NoPublisher = none
    Modes = {"dry-run", "apply"}
    Enabled = {1, 2, 3}
    Events <- MCEvents
    Ttl = 2
    MaxNow = 2
    MaxCalls = 3
    MaxFaults = 1
    MaxKills = 1
INVARIANTS
    MessagesAreValid
    RetryIsEnough
    LookupsAgree
PROPERTIES
    PublishedSpec
    SubmissionEnds
CHECK_DEADLOCK FALSE
