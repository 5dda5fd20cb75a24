\* Two threads of the dashboard, two processes that may die anywhere, and
\* two commands about two routes.
SPECIFICATION FairSpec

CONSTANTS
    Threads = {"t1", "t2"}
    Routes = {"gold", "silver"}
    MaxWorkers = 2
    MaxCommands = 2

CONSTRAINT InOrder

INVARIANTS
    OneWorker
    RowIsTrue
PROPERTIES
    StopIsObeyed
