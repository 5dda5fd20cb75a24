\* A request to close a position, of two units that can be filled in parts, and
\* an EA that may die inside a handler.
SPECIFICATION Spec

CONSTANTS
    N = 1
    X = 1
    Vol = 2
    Close <- FirstCloses
    BatchSize = 1
    MayCrash = TRUE

INVARIANTS
    FileAgrees
PROPERTIES
    SessionNeverRegresses
    TerminalIsFinal
    IsLedger
