CONSTANTS
    Types = {"success", "fail", "review"}
    Actions = {"approve", "reject"}
    MaxFaults = 2
SPECIFICATION FairSpec
INVARIANTS TypeOK OutcomeAgrees TerminalEventAgrees AcceptedActionDecides
    SuspensionBeforeEvent
PROPERTIES TerminalIsFinal TaskEnds
CHECK_DEADLOCK FALSE
