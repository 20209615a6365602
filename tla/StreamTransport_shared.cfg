SPECIFICATION Spec
CONSTANTS
    o1 = o1  o2 = o2
    Observers = {o1, o2}
    Strategy = "FAST_CYCLE"
    MaxAttempts = 1
    PollMaxEvents = 1
    BufferCapacity = 1
    RecentCapacity = 2
    MaxMalformed = 0
    Kinds <- WellFormedKinds
    ExplicitCursors <- SecondEvent
    MaxEvents = 4
    MaxFaults = 1
    MaxCancels = 0
SYMMETRY ObserverSymmetry
INVARIANTS
    NoRepeats
CHECK_DEADLOCK FALSE
