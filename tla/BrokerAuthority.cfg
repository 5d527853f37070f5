SPECIFICATION Spec
CONSTANTS
    s1 = s1
    d1 = d1
    d2 = d2
    None = None
    Keys = {k1}
    Demands = {d1, d2}
    Scopes = {s1}
    Requests <- AuthorityRequests
    Lanes = {"Any"}
    Leases = {l1, l2}
    Observed = {}
    MaxPending = 2
    MaxQueued = 2
    ReceiveTimeout = 1
    MaxAge = 1
    MaxGeneration = 1
    MaxRevision = 0
    MaxTime = 1
SYMMETRY Symmetry
INVARIANTS BindingsAreLatest ClosedBrokerIsSilent
PROPERTIES PublicationIsAuthoritative LeaseEvidenceSticks OnlyAuthorityIsShown
CHECK_DEADLOCK FALSE
