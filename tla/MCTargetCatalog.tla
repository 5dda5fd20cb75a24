---------------------------- MODULE MCTargetCatalog ----------------------------
(***************************************************************************)
(* Instance of TargetCatalog for TLC.  A request that checks nothing, or   *)
(* writes by what it had read before another write, is the last but one at *)
(* the latest; the last request runs beside another if both verify, and is *)
(* no discovery, which nothing could follow.  A login waits until it makes *)
(* a difference: only account_info looks at it; and no terminal leaves a   *)
(* name out where one was logged in to another account.                    *)
(***************************************************************************)
EXTENDS TargetCatalog, TLC

Symmetric == Permutations(Threads) \cup Permutations(Terminals) \cup Permutations(Accounts)

Busy == {t \in Threads : req[t] # NoRequest}
Flawed == flaws # <<{}, {}, {}>> \/ \E t \in Busy : ~req[t].vetted
Verifies(t) == req[t].id # 0 /\ req[t].at \notin {"confirm", "patch"}

Near ==
    /\ logins + gaps < 2
    /\ Flawed => requests < MaxRequests - 1
    /\ requests = MaxRequests =>
          \/ \A t \in Busy : Verifies(t)
          \/ \E t \in Busy : Busy = {t} /\ req[t].at \in {"insert", "confirm", "patch"}

LateLogin == logins' # logins =>
    /\ conn # None /\ holds'[conn] # holds[conn]
    /\ \E t \in Threads : req[t].at = "account"
===============================================================================
