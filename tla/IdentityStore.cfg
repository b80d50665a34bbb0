SPECIFICATION Spec
CONSTANTS
    Calls = {x1, x2, x3}
    SessionIds = {s1, s2, s3}
    None = None
    RegistrationOpen = FALSE
INVARIANTS TypeOK OnlyAllowedEnter KnownHasProfile LinkFollows
PROPERTIES SettledForGood RegistryHolds
