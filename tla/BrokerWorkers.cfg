SPECIFICATION SettlingSpec
CONSTANTS
    s1 = s1
    PinnedKeys = {k2}
    None = None
    Keys = {k1, k2}
    Demands = {}
    Scopes = {s1}
    Requests <- WorkerRequests
    Lanes = {"Playback", "NonPlayback"}
    Leases = {l1, l2}
    Observed = {l1}
    MaxPending = 2
    MaxQueued = 2
    ReceiveTimeout = None
    MaxAge = 0
    MaxGeneration = 0
    MaxRevision = 1
    MaxTime = 0
INVARIANTS NoLostWakeup
PROPERTIES CloseStopsEveryWorker AdmittedWorkSettles
CHECK_DEADLOCK FALSE
