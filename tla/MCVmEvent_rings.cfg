SPECIFICATION VmEventFairSpec
CONSTANTS
    NrVcpus = 2
    RingSize = 2
    Rings = {"monitor", "paging", "share"}
    Foreign = {f1}
    MaxEnables = 2
CHECK_DEADLOCK FALSE
INVARIANTS VmEventTypeOK RoomForHolders NobodyAsleepWithoutRing PausedForRequest ClearRingUnblocks NeverQueued
PROPERTIES BlockedWoken QueuedServed PausedAnswered
