--------------------------- MODULE ExecutionStatus ---------------------------
(***************************************************************************)
(* The statuses of a pending broker execution and the three rule sets that *)
(* decide which status may follow which: the transition rules applied to   *)
(* live broker transactions, the wider gate applied to broker reads, and   *)
(* the gate in front of SUBMITTED.                                         *)
(***************************************************************************)
EXTENDS Integers

\* ENUM_BRE_TRADE_EXECUTION_STATUS; NONE also stands for "no entry".
Status ==
    {"NONE", "CREATED", "QUEUED", "SUBMITTED", "ACCEPTED", "PARTIALLY_FILLED",
     "FILLED", "REJECTED", "FAILED", "TIMED_OUT", "CANCELLED", "UNKNOWN",
     "ACKNOWLEDGED", "RECONCILING", "RECONCILED"}

Terminal ==
    {"FILLED", "REJECTED", "RECONCILED", "CANCELLED", "FAILED", "TIMED_OUT"}

\* CPendingExecutionTransitionRules::StatusRank.
StatusRank ==
    [s \in Status |->
        CASE s = "NONE"             -> 0
          [] s = "CREATED"          -> 10
          [] s = "QUEUED"           -> 20
          [] s = "SUBMITTED"        -> 30
          [] s = "ACKNOWLEDGED"     -> 40
          [] s = "ACCEPTED"         -> 45
          [] s = "PARTIALLY_FILLED" -> 50
          [] s = "RECONCILING"      -> 55
          [] s = "TIMED_OUT"        -> 60
          [] s = "UNKNOWN"          -> 70
          [] s \in {"FILLED", "REJECTED"} -> 80
          [] OTHER                  -> 90]

\* The statuses the switch in CanTransition lists for each source status.
Successors(from) ==
    CASE from = "CREATED" -> {"QUEUED", "REJECTED", "FAILED"}
      [] from = "QUEUED" -> {"SUBMITTED", "REJECTED", "CANCELLED", "FAILED"}
      [] from = "SUBMITTED" ->
            {"ACKNOWLEDGED", "ACCEPTED", "REJECTED", "TIMED_OUT",
             "RECONCILING", "UNKNOWN", "FAILED", "CANCELLED"}
      [] from \in {"ACKNOWLEDGED", "ACCEPTED", "PARTIALLY_FILLED"} ->
            {"PARTIALLY_FILLED", "FILLED", "REJECTED", "TIMED_OUT",
             "RECONCILING", "UNKNOWN", "FAILED"}
      [] from = "RECONCILING" ->
            {"FILLED", "PARTIALLY_FILLED", "REJECTED", "RECONCILED",
             "CANCELLED"}
      [] OTHER -> {}

\* The terminal test is left to the switch, which has gained a retry edge.
CanTransitionRevivesRejected(from, to) ==
    \/ from = to
    \/ from = "REJECTED" /\ to = "ACKNOWLEDGED"
    \/ /\ from \notin Terminal
       /\ StatusRank[to] >= StatusRank[from]
       /\ to \in Successors(from)

\* CPendingExecutionTransitionRules::CanTransition: a status may always
\* "change" to itself, even a terminal one.
CanTransition(from, to) ==
    \/ from = to
    \/ /\ from \notin Terminal
       /\ StatusRank[to] >= StatusRank[from]
       /\ to \in Successors(from)

\* QUEUED has joined the statuses a broker read may resolve.
CanResolveQueued(from, to) ==
    /\ from \notin Terminal
    /\ \/ CanTransition(from, to)
       \/ /\ from \in {"QUEUED", "SUBMITTED", "ACKNOWLEDGED", "ACCEPTED",
                       "PARTIALLY_FILLED", "RECONCILING", "UNKNOWN"}
          /\ to \in Terminal \cup {"PARTIALLY_FILLED", "UNKNOWN",
                                   "RECONCILING"}

\* CPendingExecutionReconciliationTransitionGate::CanResolveFromBrokerRead.
CanResolveFromBrokerRead(from, to) ==
    /\ from \notin Terminal
    /\ \/ CanTransition(from, to)
       \/ /\ from \in {"SUBMITTED", "ACKNOWLEDGED", "ACCEPTED",
                       "PARTIALLY_FILLED", "RECONCILING", "UNKNOWN"}
          /\ to \in Terminal \cup {"PARTIALLY_FILLED", "UNKNOWN",
                                   "RECONCILING"}
==============================================================================
