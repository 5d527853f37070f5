SPECIFICATION SafetySpec
CONSTANTS
    None = None
    Sessions = {s1, s2}
    FirstProject = p0
    Files = {f1, f2}
    Existing = {f1}
    QueueCapacity = 1
    MaxRequests = 3
    MaxVersion = 2
    MaxGeneration = 1
CHECK_DEADLOCK FALSE
CONSTRAINT Uneventful
INVARIANT AutosaveIsOffered
