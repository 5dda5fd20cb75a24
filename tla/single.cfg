\* One request to open a position, and a foreign order that closes it.
SPECIFICATION FairSpec

CONSTANTS
    N = 1
    X = 1
    Vol = 1
    Close <- NoCloses
    BatchSize = 1
    MayCrash = FALSE

INVARIANTS
    FilledMeansExecuted
    RejectedIsOver
PROPERTIES
    InFlightIsResolved
