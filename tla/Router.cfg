SPECIFICATION Spec
CONSTANTS
    Messages = {m1}
    Containers = {c1}
    None = None
    MaxDeliveries = 2
    MaxAttempts = 2
    MaxTries = 2
    MaxDoubles = 1
    MaxParts = 2
    Timeout = 1
    Early = 2
    TokenLife = 3
INVARIANTS TypeOK TurnsHaveCause AckedIsAccounted TokenCoversReply
PROPERTIES EveryMessageEnds
