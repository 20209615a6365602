SPECIFICATION Spec
CONSTANTS
    c1 = c1  c2 = c2  c3 = c3
    k1 = k1
    Creators = {c1, c2}
    Cancellers = {}
    Commands <- RetriedCommands
    ProgressTicks = 0
    FailAfter <- FailsEdited
    Failing = {}
    MaxFaults = 0
INVARIANTS
    OneTaskPerKey
CHECK_DEADLOCK FALSE
