SPECIFICATION SafetySpec
CONSTANTS
    None = None
    Sessions = {s1, s2}
    FirstProject = p0
    Files = {f1, f2}
    Existing = {f1}
    QueueCapacity = 1
    MaxRequests = 2
    MaxVersion = 2
    MaxGeneration = 1
SYMMETRY SessionSymmetry
CHECK_DEADLOCK FALSE
INVARIANTS
    LifecycleTypeOK
    CountersMatchWork
    QuiescedSessionsAreIdle
    AppliedSaveIsOnDisk
    NewerWorkIsRecoverable
PROPERTIES
    ManualRevisionsIncrease
    CreateNewNeverOverwrites
    CloseAfterSaveLosesNothing
