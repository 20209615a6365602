SPECIFICATION FairSpec
CONSTANTS
    o1 = o1  o2 = o2
    Observers = {o1}
    Strategy = "PROGRESSIVE_STICKY"
    MaxAttempts = 2
    PollMaxEvents = 2
    BufferCapacity = 2
    RecentCapacity = 4
    MaxMalformed = 1
    Kinds <- AllKinds
    ExplicitCursors = {}
    MaxEvents = 4
    MaxFaults = 4
    MaxCancels = 1
INVARIANTS
    TypeOK
    ContiguousDelivery
    CheckpointWasSent
    ClosedAtTerminal
PROPERTIES
    CheckpointOnlyAdvances
    UnfinishedObservationEnds
CHECK_DEADLOCK FALSE
