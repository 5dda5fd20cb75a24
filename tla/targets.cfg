\* Two threads, two terminals, two accounts: two rows, and a terminal that
\* changes its account once.
SPECIFICATION Spec

CONSTANTS
    Threads = {t1, t2}
    Terminals = {tA, tB}
    Accounts = {a1, a2}
    MaxTargets = 2
    FieldSets = {{"enabled"}, {"expected"}, {"enabled", "path"}}
    MaxRequests = 4
    MaxLogins = 1
    MaxGaps = 1

CONSTRAINT Near
ACTION_CONSTRAINT LateLogin
SYMMETRY Symmetric

CHECK_DEADLOCK FALSE

INVARIANTS
    VerifiedIsOwn
    VerifiedWasTrue
    FoldersDistinct
    AccountsDistinct
    KeyFollowsFolder
