SPECIFICATION Spec
CONSTANTS
    Threads = {w1, w2}
    NoThread = NoThread
    Connections = {c1, c2, c3, c4}
    NoSession = NoSession
    Lifetime = 6
    TTL = 4
    Margin = 1
    BuildMax = 1
    MaxLeaks = 1
    MaxTime = 11
INVARIANTS TypeOK FreshIsOpen OpenIsOwned BoundedStaleness
PROPERTIES LockIsReleased
