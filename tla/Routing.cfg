SPECIFICATION Spec
CONSTANTS
    vlc = vlc
    wps = wps
    TargetOrder <- MCTargetOrder
    NoApp = NoApp
    Generic = Generic
    Pids = {1, 2}
    Scopes <- MCScopes
    History = {1}
    NetlinkCap = 3
    SocketCap = 2
    QueueCap = 2
    MaxOps = 4
INVARIANTS
    IndexConsistent
    IndexComplete
    PlacementExcused
    PendingServed
CHECK_DEADLOCK FALSE
