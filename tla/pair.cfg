\* Two requests to open positions, which compete for transactions and reads.
SPECIFICATION Spec

CONSTANTS
    N = 2
    X = 0
    Vol = 1
    Close <- NoCloses
    BatchSize = 1
    MayCrash = FALSE

INVARIANTS
    SentOnce
    InFlightWasSent
