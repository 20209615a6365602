SPECIFICATION FairSpec
CONSTANTS
    c1 = c1  c2 = c2  c3 = c3
    k1 = k1
    Creators = {c1, c2, c3}
    Cancellers = {k1}
    Commands <- RetriedCommands
    ProgressTicks = 1
    FailAfter <- FailsEdited
    Failing = {"request", "submit", "run"}
    MaxFaults = 1
INVARIANTS
    TypeOK
    TerminalEventAgrees
    CancellationHonest
    IdempotencyAnswersHold
PROPERTIES
    TerminalIsFinal
    RunsEnd
CHECK_DEADLOCK FALSE
