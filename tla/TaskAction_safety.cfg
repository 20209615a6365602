SPECIFICATION Spec
CONSTANTS
    r1 = r1  r2 = r2  r3 = r3
    s1 = s1  s2 = s2
    a1 = a1  a2 = a2  a3 = a3
    alice = alice  mallory = mallory
    plain = plain   ui = ui  uiBare = uiBare  banned = banned
    Requests = {r1, r2, r3}
    Reconcilers = {k1, k2}
    Suspensions = {s1}
    ActionIds = {a1, a2, a3}
    Subjects = {alice, mallory}
    Owner = alice
    Contents = {plain, ui, uiBare, banned}
    Disallowed = {banned}
    A2ui = {ui, uiBare}
    NoMetadata = {uiBare}
    Commands <- ContendedCommands
    HasPolicy = TRUE
    HasHostResume = TRUE
    Hosted = {}
    Broken = {}
    MaxFaults = 1
    NoAction = NoAction
    NoReceipt = NoReceipt
    NoCommand = NoCommand
    NoSuspension = NoSuspension
SYMMETRY ActorSymmetry
INVARIANTS
    TypeOK
    AcceptanceExclusive
    AcceptedIsDurable
    RejectionsAreFinal
    IInv
PROPERTIES
    ImplementsAcceptance
CHECK_DEADLOCK FALSE
