--------------------------- MODULE ExecutionLedger ---------------------------
(***************************************************************************)
(* What the pending execution store promises its readers: every entry goes *)
(* one way, from prepared through in flight to an end, and leaves for the  *)
(* broker only out of prepared.  Nothing comes back to prepared, so an     *)
(* entry is sent once, unless whoever sends it may die before taking note. *)
(* Only an entry whose end may have been wrong (a close request recorded   *)
(* as rejected) is ever taken back.  One step may move several entries:    *)
(* the timer and the start of the EA go through all of them.               *)
(***************************************************************************)
EXTENDS Naturals

CONSTANTS
    Entries,        \* the execution requests
    Recoverable,    \* those whose end may be taken back
    MayLose         \* may a send go unrecorded?

VARIABLES
    ledger,     \* entry -> stage
    sends       \* entry -> the number of times it has left for the broker

ledgerVars == <<ledger, sends>>

Stage == {"absent", "prepared", "inflight", "filled", "closed"}

LedgerTypeOK ==
    /\ ledger \in [Entries -> Stage]
    /\ sends \in [Entries -> Nat]

\* Stages an entry may move to without being sent.  A prepared entry can end
\* up in flight unsent: a position it did not open was taken for its fill.
Onward(e) ==
    CASE ledger[e] = "absent"   -> {"prepared"}
      [] ledger[e] = "prepared" -> {"inflight", "closed"}
      [] ledger[e] = "inflight" -> {"filled", "closed"}
      [] ledger[e] = "closed"   ->
            IF e \in Recoverable THEN {"inflight", "filled"} ELSE {}
      [] OTHER -> {}

Advance ==
    /\ ledger' \in [Entries -> Stage]
    /\ \A e \in Entries : ledger'[e] \in {ledger[e]} \cup Onward(e)
    /\ UNCHANGED sends

Send(e) ==
    /\ ledger[e] = "prepared"
    /\ sends' = [sends EXCEPT ![e] = @ + 1]
    /\ ledger' = [ledger EXCEPT ![e] = "inflight"]

\* The send is not recorded: the entry stays prepared, and may be sent again.
SendUnrecorded(e) ==
    /\ MayLose
    /\ ledger[e] = "prepared"
    /\ sends' = [sends EXCEPT ![e] = @ + 1]
    /\ UNCHANGED ledger

LedgerInit ==
    /\ ledger = [e \in Entries |-> "absent"]
    /\ sends = [e \in Entries |-> 0]

LedgerNext == Advance \/ \E e \in Entries : Send(e) \/ SendUnrecorded(e)

LedgerSpec == LedgerInit /\ [][LedgerNext]_ledgerVars
==============================================================================
