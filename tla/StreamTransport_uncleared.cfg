SPECIFICATION FairSpec
CONSTANTS
    o1 = o1  o2 = o2
    Observers = {o1}
    Strategy = "PROGRESSIVE_STICKY"
    MaxAttempts = 2
    PollMaxEvents = 2
    BufferCapacity = 2
    RecentCapacity = 4
    MaxMalformed = 1
    Kinds <- WellFormedKinds
    ExplicitCursors = {}
    MaxEvents = 2
    MaxFaults = 0
    MaxCancels = 0
PROPERTIES
    ObservationEnds
CHECK_DEADLOCK FALSE
