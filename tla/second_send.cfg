\* The EA dies between the send and the save.
SPECIFICATION Spec

CONSTANTS
    N = 1
    X = 0
    Vol = 1
    Close <- NoCloses
    BatchSize = 1
    MayCrash = TRUE

INVARIANTS
    SentOnce
