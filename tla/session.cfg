\* Two threads that log in for two phones, two routes, two waits that time out
\* and one connect that fails.
SPECIFICATION FairSpec

CONSTANTS
    Threads = {"t1", "t2"}
    Phones = {"A", "B"}
    MaxRequests = 3
    Routes = {"gold", "silver"}
    MaxListeners = 4
    MaxSlow = 2
    MaxFaults = 1

CONSTRAINT Apart

INVARIANTS
    ConnectedIsAuthorized
    CodeIsForPhone
    OneListener
    RoutesAreHeard
PROPERTIES
    ListensAgain
