\* Two commands of different priority; requests and saves may fail, and the EA
\* may die between effects.
SPECIFICATION FairSpec

CONSTANTS
    create = create
    again = again
    activate = activate
    NoKey = NoKey
    Commands = {create, activate}
    KeyOf <- KeyOfCommand
    Priority <- PriorityOfCommand
    EnqueuedAt <- Arrival
    Needs <- BasketOf
    Threshold = 2
    GetAttempts = 2
    PostAttempts = 2
    MaxRuns = 2
    Faults <- LossFaults

PROPERTIES
    QueueEmpties
