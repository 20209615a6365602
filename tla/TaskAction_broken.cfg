SPECIFICATION FairSpec
CONSTANTS
    r1 = r1  r2 = r2  r3 = r3
    s1 = s1  s2 = s2
    a1 = a1  a2 = a2  a3 = a3
    alice = alice  mallory = mallory
    plain = plain   ui = ui  uiBare = uiBare  banned = banned
    Requests = {r1, r2}
    Reconcilers = {k1}
    Suspensions = {s1, s2}
    ActionIds = {a1, a2, a3}
    Subjects = {alice, mallory}
    Owner = alice
    Contents = {plain, ui, uiBare, banned}
    Disallowed = {banned}
    A2ui = {ui, uiBare}
    NoMetadata = {uiBare}
    Commands <- SeparateCommands
    HasPolicy = FALSE
    HasHostResume = FALSE
    Hosted = {}
    Broken = {s1}
    MaxFaults = 1
    NoAction = NoAction
    NoReceipt = NoReceipt
    NoCommand = NoCommand
    NoSuspension = NoSuspension
PROPERTIES
    RecoveryGuaranteed
CHECK_DEADLOCK FALSE
