--------------------------- MODULE MCCommandPipeline ---------------------------
(***************************************************************************)
(* Instances of CommandPipeline for TLC: the creation of a basket, the     *)
(* same request posted again under another id, and an activation without   *)
(* an idempotency key.                                                     *)
(***************************************************************************)
EXTENDS CommandPipeline

CONSTANTS create, again, activate

KeyOfCommand == [c \in Commands |-> IF c = activate THEN NoKey ELSE "create"]
PriorityOfCommand == [c \in Commands |-> IF c = activate THEN 50 ELSE 30]
Arrival == [c \in Commands |-> IF c = create THEN 1 ELSE 2]
BasketOf == [c \in Commands |-> IF c = activate THEN {create} \cap Commands ELSE {}]

AllFaults == {"net", "save", "kill", "torn", "boot"}
NoFaults == {}
NetFaults == {"net"}
LossFaults == {"net", "save", "kill"}
===============================================================================
