\* A request posted twice and an activation; everything may fail.
SPECIFICATION Spec

CONSTANTS
    create = create
    again = again
    activate = activate
    NoKey = NoKey
    Commands = {create, again, activate}
    KeyOf <- KeyOfCommand
    Priority <- PriorityOfCommand
    EnqueuedAt <- Arrival
    Needs <- BasketOf
    Threshold = 1
    GetAttempts = 1
    PostAttempts = 1
    MaxRuns = 1
    Faults <- AllFaults

INVARIANTS
    AckedIsKeptWhileIntact
    QueueIsOnDiskWhileIntact
    OnePerKey

PROPERTIES
    RecordedNeverRunsAgain
    IsDelivery
