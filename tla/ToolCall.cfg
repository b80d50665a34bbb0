SPECIFICATION Spec
CONSTANTS
    Users = {u1, u2}
    Calls = {x1, x2}
    Interceptors = {c1}
    None = None
    NoKey = NoKey
    KeyTTL = 2
    Timeout = 1
    MaxKeys = 2
    MaxTime = 6
SYMMETRY Symmetry
INVARIANTS TypeOK KeyIsRecent AnswersAreTrue
CHECK_DEADLOCK FALSE
