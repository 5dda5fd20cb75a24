----------------------------- MODULE DurableStore -----------------------------
(***************************************************************************)
(* What a store of entries on disk promises to those who save in it.  What *)
(* a start finds is what would have been kept at any moment before; what   *)
(* has been promised is kept for ever, and nothing is kept that was never  *)
(* recorded.  Only when the disk itself has been damaged may anything be   *)
(* found, and even then a promise is made only of what is kept.            *)
(***************************************************************************)
EXTENDS Naturals

CONSTANT
    Entries     \* entries, each a number of its successive states

VARIABLES
    up,         \* is the process that uses the store running?
    view,       \* entry -> the state the process has in memory
    kept,       \* entry -> the state a start would find
    promised,   \* entry -> the last state reported as saved
    damaged     \* has the disk been damaged?

storeVars == <<up, view, kept, promised, damaged>>

States == [Entries -> Nat]
Nothing == [e \in Entries |-> 0]
AtLeast(a, b) == \A e \in Entries : a[e] >= b[e]

\* What is kept lies between what was promised and what was recorded.
KeptWithin(low, high) ==
    /\ kept' \in States
    /\ AtLeast(kept', low)
    /\ AtLeast(high, kept')

\* A new state of an entry.
Record(e) ==
    /\ up
    /\ view' = [view EXCEPT ![e] = @ + 1]
    /\ KeptWithin(promised, view')
    /\ UNCHANGED <<up, promised, damaged>>

\* The disk follows, or loses again what was not promised.
Persist ==
    /\ up
    /\ KeptWithin(promised, view)
    /\ UNCHANGED <<up, view, promised, damaged>>

\* Everything recorded is reported as saved.
Promise ==
    /\ up
    /\ kept = view
    /\ promised' = view
    /\ UNCHANGED <<up, view, kept, damaged>>

Die ==
    /\ up
    /\ up' = FALSE
    /\ view' = Nothing
    /\ KeptWithin(promised, view)
    /\ UNCHANGED <<promised, damaged>>

Start ==
    /\ ~up
    /\ up' = TRUE
    /\ view' = kept
    /\ UNCHANGED <<kept, promised, damaged>>

\* The disk is damaged, or has been.
Damage ==
    /\ damaged' = TRUE
    /\ up' \in BOOLEAN
    /\ view' \in States
    /\ kept' \in States
    /\ UNCHANGED promised

StoreInit ==
    /\ up = FALSE
    /\ view = Nothing
    /\ kept = Nothing
    /\ promised = Nothing
    /\ damaged = FALSE

StoreNext ==
    \/ \E e \in Entries : Record(e)
    \/ Persist \/ Promise
    \/ Die \/ Start
    \/ Damage

StoreSpec == StoreInit /\ [][StoreNext]_storeVars
===============================================================================
