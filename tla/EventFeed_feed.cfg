CONSTANTS
    Clients = {ada}
    Sessions = {s1, s2}
    Transports = {"ws", "sse", "poll"}
    Stores = {"redis", "memory", "demo"}
    MaxEvents = 3
    MaxLength = 2
    Batch = 2
    MaxFaults = 1
SPECIFICATION FairSpec
INVARIANTS TypeOK NoGapNoRepeat NormalCloseIsFinal NoLostWakeup
PROPERTIES ImplementsFeed EveryClientFinishes OrphansEnd
CHECK_DEADLOCK FALSE
