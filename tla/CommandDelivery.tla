--------------------------- MODULE CommandDelivery ---------------------------
(***************************************************************************)
(* What the pipeline promises to the server that issues requests.  The     *)
(* server is told to forget a request only when the request waits or has   *)
(* been served; what waits is given up only once it is served; and nothing *)
(* is served that was not waiting.  Only a damaged record of what waits    *)
(* excuses from this, and even then nothing that was served or told is     *)
(* taken back.                                                             *)
(***************************************************************************)

CONSTANT Requests

VARIABLES
    waiting,    \* requests on disk, or in memory until they can be saved again
    served,     \* requests done or refused
    told,       \* requests the server was told it may forget
    damaged     \* has a part of the record been lost?

deliveryVars == <<waiting, served, told, damaged>>

\* Of these requests any that have been served are given up, and no other.
KeepUnserved(requests) ==
    /\ waiting' \subseteq requests
    /\ requests \ served' \subseteq waiting'

\* A request comes, also one that was served before, and is saved; the server
\* is told, or it is not.
Receive(r) ==
    /\ KeepUnserved(waiting \cup {r})
    /\ r \in waiting'
    /\ told' \in {told, told \cup {r}}
    /\ UNCHANGED <<served, damaged>>

\* The server is told of a request that has come before.
Tell(r) ==
    /\ r \in waiting \cup served
    /\ told' = told \cup {r}
    /\ UNCHANGED <<waiting, served, damaged>>

Serve(r) ==
    /\ r \in waiting
    /\ served' = served \cup {r}
    /\ KeepUnserved(waiting)
    /\ UNCHANGED <<told, damaged>>

\* The record is damaged, or has been.
Damage ==
    /\ damaged' = TRUE
    /\ waiting' \subseteq Requests
    /\ served \subseteq served' /\ served' \subseteq Requests
    /\ told \subseteq told' /\ told' \subseteq Requests

DeliveryInit ==
    /\ waiting = {} /\ served = {} /\ told = {}
    /\ damaged = FALSE

DeliveryNext ==
    \/ \E r \in Requests : Receive(r) \/ Tell(r) \/ Serve(r)
    \/ Damage

DeliverySpec == DeliveryInit /\ [][DeliveryNext]_deliveryVars
===============================================================================
