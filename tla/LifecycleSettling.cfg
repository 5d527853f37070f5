SPECIFICATION Spec
CONSTANTS
    None = None
    Sessions = {s1}
    FirstProject = p0
    Files = {f1, f2}
    Existing = {f1}
    QueueCapacity = 2
    MaxRequests = 2
    MaxVersion = 1
    MaxGeneration = 1
CHECK_DEADLOCK FALSE
PROPERTIES
    AutosaveRetries
    CloseSettles
