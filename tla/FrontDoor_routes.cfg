CONSTANTS
    alice = alice
    bob = bob
    Users = {alice, bob}
    Keys = {"blank", "k1"}
    Inputs = {"{}"}
    FileLists <- MixedFiles
    Actions = {"a1"}
    AllowedTypes = {"image"}
    MaxUpload = 2
    Modes = {"demo", "firebase", "own", "closed"}
    MaxTasks = 2
SYMMETRY Callers
SPECIFICATION Spec
INVARIANTS TypeOK ForeignLikeUnknown UploadsBounded KeyIsSpent
PROPERTIES AnswerTellsOutcome
