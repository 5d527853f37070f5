SPECIFICATION FairSpec
CONSTANTS
    DomainCount = 3
    External = {0}
    Export = 2
    UserDomains = {1, 2}
    Yielding = {2}
    LateMarked = {0}
    MachineSlots = 1
    Pressures = {"Nominal"}
    QueueLimit = 1
INVARIANTS SlotsTypeOK SeamsFollowGrants AtomicStartsFit
PROPERTIES DrainsEnd WaitersAreServed
CHECK_DEADLOCK FALSE
