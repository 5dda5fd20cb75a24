-------------------------- MODULE MCPendingExecution --------------------------
(***************************************************************************)
(* Instances of PendingExecution for TLC.                                  *)
(***************************************************************************)
EXTENDS PendingExecution

NoCloses == {}          \* only position openings
FirstCloses == {1}      \* entry 1 closes a position
===============================================================================
