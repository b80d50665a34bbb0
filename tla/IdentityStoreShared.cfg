SPECIFICATION Spec
CONSTANTS
    Calls = {x1, x2}
    SessionIds = {s1, s2, s3}
    None = None
    RegistrationOpen = FALSE
SYMMETRY Symmetry
INVARIANTS SessionIsShared
