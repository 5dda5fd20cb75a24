\* Every operation of a save may fail, and the EA may die anywhere.
SPECIFICATION Spec

CONSTANTS
    N = 2
    MaxVersion = 2
    Faults <- SaveFaults

INVARIANTS
    LosslessWhileIntact
PROPERTIES
    DoneMeansTwoCopies
    IsDurable
