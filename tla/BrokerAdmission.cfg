SPECIFICATION SpecWithoutFailure
CONSTANTS
    s1 = s1
    d1 = d1
    d2 = d2
    None = None
    Keys = {k1, k2, k3}
    Demands = {}
    Scopes = {s1}
    Requests <- AdmissionRequests
    Lanes = {"Any"}
    Leases = {l1, l2}
    Observed = {l1, l2}
    MaxPending = 2
    MaxQueued = 1
    ReceiveTimeout = None
    MaxAge = 0
    MaxGeneration = 0
    MaxRevision = 1
    MaxTime = 0
SYMMETRY Symmetry
INVARIANTS TypeOK PendingWithinBudget QueueWithinBudget QueueMirrorsPending NoBindingWithoutWork
PROPERTIES AdmissionRespectsPriority
CHECK_DEADLOCK FALSE
