\* Four attempts to publish two pairs; two operations may fail, the process
\* may die anywhere.
SPECIFICATION Spec

CONSTANTS
    Pairs = {"gold", "silver"}
    MaxTries = 4
    MaxFaults = 2
    MayDie = TRUE

INVARIANTS
    FinalsMatch
    DetailsNotOlder
    OldPairSurvives
    AttemptIsAllOrNothing
