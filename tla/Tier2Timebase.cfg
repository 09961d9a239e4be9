SPECIFICATION Spec
CONSTANTS
    Tasks = {t1, t2}
    Worker = worker
    U64Max = 255
    PageSize = 2
    ScaleBase = 10
    AllocScale0 = 1
    DemoteScale0 = 5
    NsPerMs = 1
    LatencyMs = 1
    HorizonRatio = 3
    SwapClusterMax = 1
    MaxReclaimPages = 2
    Limits = {20}
    Usages = {0, 8, 16}
    Scales = {0}
    MaxNow = 3
    MaxCalls = 6
PROPERTY RateHasRealTimebase
CHECK_DEADLOCK FALSE
