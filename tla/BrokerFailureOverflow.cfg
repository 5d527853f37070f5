SPECIFICATION Spec
CONSTANTS
    s1 = s1
    d1 = d1
    d2 = d2
    None = None
    Keys = {k1, k2, k3}
    Demands = {}
    Scopes = {s1}
    Requests <- AdmissionRequests
    Lanes = {"Any"}
    Leases = {l1, l2}
    Observed = {l1, l2}
    MaxPending = 1
    MaxQueued = 2
    ReceiveTimeout = None
    MaxAge = 0
    MaxGeneration = 0
    MaxRevision = 1
    MaxTime = 0
SYMMETRY Symmetry
INVARIANTS PendingWithinBudget
CHECK_DEADLOCK FALSE
