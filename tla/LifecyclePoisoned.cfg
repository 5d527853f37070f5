SPECIFICATION SafetySpec
CONSTANTS
    None = None
    Sessions = {s1, s2}
    FirstProject = p0
    Files = {f1, f2}
    Existing = {f1}
    QueueCapacity = 1
    MaxRequests = 2
    MaxVersion = 1
    MaxGeneration = 1
CHECK_DEADLOCK FALSE
INVARIANT PoisonedSessionIsFrozen
