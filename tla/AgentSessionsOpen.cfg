SPECIFICATION Spec
CONSTANTS
    Threads = {w1, w2}
    NoThread = NoThread
    Connections = {c1, c2, c3}
    NoSession = NoSession
    Lifetime = 60
    TTL = 50
    Margin = 1
    BuildMax = 1
    MaxLeaks = 0
    MaxTime = 100
SYMMETRY Symmetry
INVARIANTS KeptOpenWhileChatting
