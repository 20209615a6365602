CONSTANTS
    Types = {"success", "fail", "review"}
    Actions = {"approve"}
    MaxFaults = 0
SPECIFICATION Spec
INVARIANT CancelledAsRequested
CHECK_DEADLOCK FALSE
