SPECIFICATION Spec
CONSTANTS
    DomainCount = 3
    External = {0}
    Export = 2
    UserDomains = {2}
    Yielding = {2}
    LateMarked = {0}
    MachineSlots = 1
    Pressures = {"Nominal"}
    QueueLimit = 1
CHECK_DEADLOCK FALSE
INVARIANT HandoffIsExclusive
