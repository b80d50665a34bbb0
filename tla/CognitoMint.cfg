SPECIFICATION Spec
CONSTANTS
    Webs = {w1}
    Agents = {a1, a2}
    NoSalt = NoSalt
    MaxRotations = 1
    MaxDeletes = 1
INVARIANTS TypeOK OnlyRacesRefuse OneSaltAgrees
PROPERTIES EveryMintEnds
