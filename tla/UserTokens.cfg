SPECIFICATION Spec
CONSTANTS
    Tools = {t1, t2}
    Logins = {l1, l2}
    NoBundle = NoBundle
    Lifetime = 3
    Margin = 2
    ToolTimeout = 1
    ExchangeDelay = 1
    Faults = TRUE
    MaxGrants = 3
    MaxTime = 3
INVARIANTS TypeOK NeverStrandedByRace LiveOnTheWire
PROPERTIES VaultHolds
