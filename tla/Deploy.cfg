SPECIFICATION Spec
CONSTANTS
    Nobody = Nobody
    Targets = {1, 2}
    MaxFaults = 1
    MaxRuns <- MCMaxRuns
INVARIANTS TypeOK OneRunReachesRuntime TwoRunsWire DestroyedIsGone CallsAreGranted
PROPERTIES StepsAreIdempotent
