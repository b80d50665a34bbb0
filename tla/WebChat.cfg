SPECIFICATION Spec
CONSTANTS
    Turns = {m1, m2}
    Sockets = {k1, k2, k3}
    None = None
    MaxFrames = 2
INVARIANTS TypeOK OneTurnPerBubble SomeoneIsAtWork
PROPERTIES ComposerComesBack
CHECK_DEADLOCK FALSE
