------------------------ MODULE PendingExecutionProofs ------------------------
(***************************************************************************)
(* Theorems about PendingExecution, for every number of entries and        *)
(* foreign orders, every volume, batch size and set of close requests.     *)
(***************************************************************************)
EXTENDS PendingExecution, TLAPS

-------------------------------------------------------------------------------
(***************************************************************************)
(* What the operators on records return.                                   *)
(***************************************************************************)

\* The bound on filled volumes is a natural number.
LEMMA Sizes ==
    /\ N \in Nat /\ X \in Nat /\ Vol \in Nat /\ X <= N /\ N >= 1 /\ Vol >= 1
    /\ MaxFill \in Nat
BY EntryCount, ForeignCount, VolumeUnits DEF MaxFill

\* A filled volume is kept within its bound, whatever was added up.
LEMMA CappedType == ASSUME NEW v PROVE Capped(v) \in 0..MaxFill
BY Sizes DEF Capped

\* The two records an entry starts from.
LEMMA ConstantRecords == NoEntry \in Record /\ Blank \in Record
BY Sizes DEF NoEntry, Blank, Record, NoDeal, Status

\* The codec and the hydrator map records to records.
LEMMA CodecType ==
    ASSUME NEW r \in Record, NEW e \in Entries
    PROVE  Saved(r) \in Record /\ Hydrated(e, r) \in Record
BY Sizes DEF Saved, Hydrated, Record, Entries

\* A transaction names a position of the EA, or none.
LEMMA PositionType ==
    ASSUME NEW tx \in Transaction
    PROVE  PositionOf(tx) \in 0..N
BY Sizes DEF PositionOf, Position, Transaction, Orders

\* Only statuses are ever proposed, resolved or marked.
LEMMA ProposedType ==
    ASSUME NEW r, NEW tx PROVE Proposed(r, tx) \in Status
BY DEF Proposed, Status

\* What a broker read resolves to is a status.
LEMMA ResolveType ==
    ASSUME NEW e, NEW r, NEW h PROVE Resolve(e, r, h) \in Status
BY DEF Resolve, Status

\* A transaction turns a record into a record.
LEMMA AppliedType ==
    ASSUME NEW r \in Record, NEW tx \in Transaction
    PROVE  Applied(r, tx) \in Record
<1> DEFINE fill == IF tx.type = "DEAL_ADD" THEN Capped(r.filled + DealVolume(tx))
                   ELSE r.filled
<1>1. fill \in 0..MaxFill
  BY CappedType, Sizes DEF Record, DealVolume
<1>2. Proposed(r, tx) \in Status
  BY ProposedType
<1>3. PositionOf(tx) \in 0..N
  BY PositionType
<1>4. tx.order \in 0..(N + X) /\ <<tx.order, tx.deal>> \in (0..(N + X)) \X (0..Vol)
  BY Sizes DEF Transaction, Orders
<1>5. Applied(r, tx) =
        IF r.st = "RECONCILING"
        THEN [r EXCEPT !.st = Proposed(r, tx), !.filled = fill]
        ELSE [r EXCEPT
                !.st = Proposed(r, tx),
                !.filled = fill,
                !.order = IF @ = 0 THEN tx.order ELSE @,
                !.deal = IF tx.deal > 0 THEN <<tx.order, tx.deal>> ELSE @,
                !.ticket = IF PositionOf(tx) > 0 THEN PositionOf(tx) ELSE @]
  BY DEF Applied
<1> HIDE DEF fill
<1> QED
  BY <1>1, <1>2, <1>3, <1>4, <1>5 DEF Record

\* Marking a record with a status leaves a record.
LEMMA MarkedType ==
    ASSUME NEW r \in Record, NEW s \in Status, NEW v
    PROVE  Marked(r, s, v) \in Record
BY CappedType DEF Marked, Record

\* So does a forced partial fill.
LEMMA ForcedPartialType ==
    ASSUME NEW r \in Record, NEW v PROVE ForcedPartial(r, v) \in Record
BY CappedType DEF ForcedPartial, Record, Status

\* So does settling it on what a broker read resolved to.
LEMMA SettledType ==
    ASSUME NEW r \in Record, NEW e, NEW h, NEW v
    PROVE  Settled(r, Resolve(e, r, h), v) \in Record
BY ResolveType, MarkedType DEF Settled, Target, Status

-------------------------------------------------------------------------------
\* What the timer's scan and the startup make of an entry is a record.
LEMMA ScannedType ==
    ASSUME reg \in [Entries -> Record], NEW e \in Entries, NEW h
    PROVE  Scanned(e, h) \in Record
BY SettledType, ForcedPartialType DEF Scanned

\* What a startup leaves of an entry, in memory and on disk, is a record.
LEMMA StartedType ==
    ASSUME disk \in [Entries -> Record], NEW e \in Entries, NEW h
    PROVE  Started(e, h) \in Record /\ StartedOnDisk(e, h) \in Record
<1> DEFINE r == Hydrated(e, disk[e])
<1>1. r \in Record /\ disk[e] \in Record
  BY CodecType
<1>2. Started(e, h) \in Record
  BY <1>1, SettledType DEF Started
<1>3. StartedOnDisk(e, h) \in Record
  BY <1>1, <1>2, ForcedPartialType, CodecType DEF StartedOnDisk
<1> QED BY <1>2, <1>3

\* So is a rejection that has been taken back, in full or half way.
LEMMA RecoveredType ==
    ASSUME disk \in [Entries -> Record], NEW e \in Entries
    PROVE  Forced(e) \in Record /\ Recovered(e) \in Record
<1>1. Hydrated(e, disk[e]) \in Record
  BY CodecType
<1>2. <<e, Vol>> \in (0..(N + X)) \X (0..Vol)
  BY Sizes DEF Entries
<1>3. Forced(e) \in Record
  BY <1>1, <1>2 DEF Forced, Record, Status
<1> QED BY <1>3, MarkedType DEF Recovered, Status
-------------------------------------------------------------------------------
(***************************************************************************)
(* Types.  One step per action; a step names the variables it can disturb. *)
(***************************************************************************)

\* Every broker transaction the model emits is a transaction.
LEMMA EmitsType ==
    ASSUME inbox \subseteq Transaction, NEW txs \in SUBSET Transaction, Emits(txs)
    PROVE  inbox' \subseteq Transaction
BY DEF Emits

\* The typing invariant is preserved by every step.
LEMMA TypeStep == TypeOK /\ [Next]_vars => TypeOK'
<1> SUFFICES ASSUME TypeOK, [Next]_vars PROVE TypeOK'
  OBVIOUS
<1> USE DEF TypeOK
<1>1. ASSUME NEW tx \in inbox, Deliver(tx) PROVE TypeOK'
  <2>1. tx \in Transaction
    OBVIOUS
  <2>2. PICK e \in Correlated(reg, tx) :
           /\ Accepts(reg[e], tx)
           /\ LET reg2 == [reg EXCEPT ![e] = Applied(@, tx)] IN
               /\ reg' = reg2
               /\ disk' = [disk EXCEPT ![e] = Saved(reg2[e])]
               /\ notified' = notified \cup
                     {f \in Correlated(reg2, tx) : reg2[f].st = "FILLED"}
    BY <1>1 DEF Deliver
  <2>3. e \in Entries
    BY DEF Correlated
  <2>4. Applied(reg[e], tx) \in Record
    BY <2>1, <2>3, AppliedType
  <2>5. reg' \in [Entries -> Record] /\ reg'[e] \in Record
    BY <2>2, <2>3, <2>4
  <2>6. disk' \in [Entries -> Record]
    BY <2>2, <2>3, <2>5, CodecType
  <2>7. notified' \subseteq Entries
    BY <2>2 DEF Correlated
  <2> QED
    BY <1>1, <2>1, <2>5, <2>6, <2>7 DEF Deliver, brokerVars
<1>2. ASSUME ScanDueTimeouts PROVE TypeOK'
  <2>1. reg' \in [Entries -> Record]
    BY <1>2, ScannedType DEF ScanDueTimeouts
  <2>2. disk' \in [Entries -> Record]
    BY <1>2, ScannedType, CodecType DEF ScanDueTimeouts
  <2>3. queue' \subseteq Entries
    BY <1>2 DEF ScanDueTimeouts
  <2> QED
    BY <1>2, <2>1, <2>2, <2>3 DEF ScanDueTimeouts, Phase, brokerVars
<1>3. ASSUME ProcessBatch PROVE TypeOK'
  <2>1. \A e \in Entries : \A h :
           Settled(reg[e], Resolve(e, reg[e], h), MatchedVolume(reg[e], h)) \in Record
    BY SettledType
  <2>2. reg' \in [Entries -> Record]
    BY <1>3, <2>1 DEF ProcessBatch
  <2>3. disk' \in [Entries -> Record]
    BY <1>3, <2>1, CodecType DEF ProcessBatch
  <2>4. notified' \subseteq Entries /\ queue' \subseteq Entries
    BY <1>3 DEF ProcessBatch
  <2> QED
    BY <1>3, <2>2, <2>3, <2>4 DEF ProcessBatch, Phase, brokerVars
<1>4. ASSUME NEW e \in Entries, Prepare(e) PROVE TypeOK'
  <2>1. reg' \in [Entries -> Record] /\ reg'[e] \in Record
    BY <1>4 DEF Prepare, Record, Status
  <2>2. disk' \in [Entries -> Record]
    BY <1>4, <2>1, CodecType DEF Prepare
  <2>3. age' \in [Entries -> 0..2]
    BY <1>4 DEF Prepare
  <2> QED
    BY <1>4, <2>1, <2>2, <2>3 DEF Prepare, brokerVars
<1>5. ASSUME NEW e \in Entries, PrepareFails(e) PROVE TypeOK'
  BY <1>5, ConstantRecords DEF PrepareFails, brokerVars
<1>6. ASSUME NEW e \in Entries, SubmitAccepted(e) PROVE TypeOK'
  <2>0. PICK o \in {0, e} :
           reg' = [reg EXCEPT ![e].st = "SUBMITTED", ![e].order = o]
    BY <1>6 DEF SubmitAccepted
  <2>1. reg' \in [Entries -> Record] /\ reg'[e] \in Record
    <3>1. o \in 0..(N + X)
      BY Sizes DEF Entries
    <3> DEFINE r == reg[e]
    <3>2. r \in Record
      OBVIOUS
    <3> HIDE DEF r
    <3>3. [r EXCEPT !.st = "SUBMITTED", !.order = o] \in Record
      BY <3>1, <3>2 DEF Record, Status
    <3>4. reg' = [reg EXCEPT ![e] =
                    [r EXCEPT !.st = "SUBMITTED", !.order = o]]
      BY <2>0 DEF r
    <3> QED BY <3>3, <3>4
  <2>2. disk' \in [Entries -> Record]
    BY <1>6, <2>1, CodecType DEF SubmitAccepted
  <2>3. sends' \in [Entries -> 0..MaxSends]
    BY <1>6 DEF SubmitAccepted, Send, MaxSends
  <2>4. ord' \in [Orders -> OrderState]
    BY <1>6 DEF SubmitAccepted, Send, OrderState
  <2>5. whole' = whole /\ done' = done /\ inbox' = inbox
    BY <1>6 DEF SubmitAccepted, Send
  <2>6. UNCHANGED <<processed, queue, notified, front, phase, age>>
    BY <1>6 DEF SubmitAccepted
  <2> QED
    BY <2>1, <2>2, <2>3, <2>4, <2>5, <2>6
<1>7. ASSUME NEW e \in Entries, SubmitRejected(e) PROVE TypeOK'
  <2>0. reg' = [reg EXCEPT ![e].st = "REJECTED"] /\ reg[e] \in Record
    BY <1>7 DEF SubmitRejected
  <2>1. reg' \in [Entries -> Record] /\ reg'[e] \in Record
    BY <2>0 DEF Record, Status
  <2>2. disk' \in [Entries -> Record]
    BY <1>7, <2>1, CodecType DEF SubmitRejected
  <2> QED
    BY <1>7, <2>1, <2>2 DEF SubmitRejected, brokerVars
<1>8. ASSUME NEW e \in Entries, SubmitCrash(e) PROVE TypeOK'
  <2>1. sends' \in [Entries -> 0..MaxSends]
    BY <1>8 DEF SubmitCrash, MaxSends
  <2>2. ord' \in [Orders -> OrderState]
    BY <1>8 DEF SubmitCrash, OrderState
  <2> QED
    BY <1>8, <2>1, <2>2, ConstantRecords DEF SubmitCrash, MemoryLost, Phase
<1>9. ASSUME NEW e \in Entries, Expire(e) PROVE TypeOK'
  <2>1. age' \in [Entries -> 0..2]
    BY <1>9 DEF Expire
  <2> QED
    BY <1>9, <2>1 DEF Expire, brokerVars
<1>10. ASSUME Stop PROVE TypeOK'
  BY <1>10, ConstantRecords DEF Stop, MemoryLost, Phase
<1>11. ASSUME Startup PROVE TypeOK'
  <2>1. reg' \in [Entries -> Record]
    BY <1>11, StartedType, RecoveredType DEF Startup
  <2>2. disk' \in [Entries -> Record]
    BY <1>11, StartedType, RecoveredType, CodecType DEF Startup
  <2>3. notified' \subseteq Entries /\ front' \subseteq Entries
    BY <1>11 DEF Startup, FalseRejects
  <2> QED
    BY <1>11, <2>1, <2>2, <2>3 DEF Startup, Phase, brokerVars
<1>12. ASSUME StartupCrash PROVE TypeOK'
  <2>1. disk' \in [Entries -> Record]
    BY <1>12, StartedType, RecoveredType, CodecType DEF StartupCrash
  <2> QED
    BY <1>12, <2>1 DEF StartupCrash, brokerVars
<1>13. ASSUME NEW o \in Orders, BrokerAccept(o) PROVE TypeOK'
  <2>1. {Tx("ORDER_ADD", o, 0)} \in SUBSET Transaction
    BY Sizes DEF Tx, Transaction
  <2>2. inbox' \subseteq Transaction
    BY <1>13, <2>1, EmitsType DEF BrokerAccept
  <2> QED
    BY <1>13, <2>2 DEF BrokerAccept, OrderState, eaVars
<1>14. ASSUME NEW o \in Orders, BrokerRefuse(o) PROVE TypeOK'
  BY <1>14 DEF BrokerRefuse, OrderState, eaVars
<1>15. ASSUME NEW o \in Orders, NEW v \in {1, Vol}, BrokerExecute(o, v) PROVE TypeOK'
  <2>1. done[o] + v \in 1..Vol
    BY <1>15, Sizes DEF BrokerExecute
  <2>2. {Tx("DEAL_ADD", o, done[o] + v)}
          \cup (IF done[o] + v = Vol THEN {Tx("ORDER_DELETE", o, 0)} ELSE {})
        \in SUBSET Transaction
    BY <2>1, Sizes DEF Tx, Transaction
  <2>3. inbox' \subseteq Transaction
    BY <1>15, <2>2, EmitsType DEF BrokerExecute
  <2>4. done' \in [Orders -> 0..Vol] /\ ord' \in [Orders -> OrderState]
    BY <1>15, <2>1 DEF BrokerExecute, OrderState
  <2>5. whole' \subseteq {q \in Orders : done'[q] = Vol}
    <3>1. o \notin whole
      BY <2>1, <1>15, Sizes DEF BrokerExecute
    <3>2. v = Vol => done'[o] = Vol
      BY <1>15, <2>1 DEF BrokerExecute
    <3>3. \A q \in whole : done'[q] = Vol
      BY <1>15, <3>1 DEF BrokerExecute
    <3> QED
      BY <1>15, <3>2, <3>3 DEF BrokerExecute
  <2> QED
    BY <1>15, <2>3, <2>4, <2>5 DEF BrokerExecute, eaVars
<1>16. ASSUME NEW o \in Orders, BrokerCancel(o) PROVE TypeOK'
  <2>1. {Tx("ORDER_DELETE", o, 0)} \in SUBSET Transaction
    BY Sizes DEF Tx, Transaction
  <2>2. inbox' \subseteq Transaction
    BY <1>16, <2>1, EmitsType DEF BrokerCancel
  <2> QED
    BY <1>16, <2>2 DEF BrokerCancel, OrderState, eaVars
<1>17. CASE UNCHANGED vars
  BY <1>17 DEF vars, eaVars, brokerVars
<1> QED
  BY <1>1, <1>2, <1>3, <1>4, <1>5, <1>6, <1>7, <1>8, <1>9, <1>10, <1>11,
     <1>12, <1>13, <1>14, <1>15, <1>16, <1>17 DEF Next

\* The initial state is well typed.
LEMMA TypeInit == Init => TypeOK
BY ConstantRecords, Sizes
   DEF Init, TypeOK, Phase, OrderState, MaxSends

\* Every variable of every reachable state has its type: a record of a status,
\* a bounded filled volume and broker ids that exist.
THEOREM TypeCorrect == Spec => []TypeOK
BY TypeInit, TypeStep, PTL DEF Spec
-------------------------------------------------------------------------------
(***************************************************************************)
(* How the status of an entry may move.                                    *)
(***************************************************************************)

\* Sent, and not at an end.
InFlight == Status \ (Terminal \cup {"NONE", "CREATED", "QUEUED"})

\* From prepared or in flight, onward.
Onward(s, t) ==
    \/ t = s
    \/ s = "QUEUED" /\ t \in {"SUBMITTED", "REJECTED", "CANCELLED", "FAILED",
                              "PARTIALLY_FILLED"}
    \/ s \in InFlight /\ t \in InFlight \cup Terminal

\* What a read of the broker can resolve an entry to.
Resolvable == {"FILLED", "PARTIALLY_FILLED", "REJECTED", "TIMED_OUT", "UNKNOWN",
               "RECONCILING"}

\* The statuses Decide can answer with.
LEMMA ResolveRange ==
    ASSUME NEW e, NEW r, NEW h PROVE Resolve(e, r, h) \in Resolvable
BY DEF Resolve, Resolvable

\* A transaction that is applied moves the entry onward.
LEMMA AcceptsOnward ==
    ASSUME NEW r \in Record, NEW tx \in Transaction, Accepts(r, tx),
           r.st # "CREATED", r.st # "NONE"
    PROVE  Applied(r, tx).st = Proposed(r, tx) /\ Onward(r.st, Proposed(r, tx))
<1>1. Applied(r, tx).st = Proposed(r, tx)
  BY DEF Applied, Record
<1>2. r.st \in Status
  BY DEF Record
<1>3. Proposed(r, tx) \in {"REJECTED", "FILLED", "PARTIALLY_FILLED", "NONE",
                           "ACKNOWLEDGED"}
  BY DEF Proposed
<1>4. Proposed(r, tx) # "NONE" /\ CanTransition(r.st, Proposed(r, tx))
  BY DEF Accepts
<1>5. Onward(r.st, Proposed(r, tx))
  BY <1>2, <1>3, <1>4
     DEF CanTransition, Successors, Onward, InFlight, Terminal, Status
<1> QED BY <1>1, <1>5

\* What has been settled on a broker read has moved onward.
LEMMA SettledOnward ==
    ASSUME NEW r \in Record, NEW s \in Resolvable, NEW v, MaySettle(r, s),
           r.st # "CREATED", r.st # "NONE"
    PROVE  Onward(r.st, Settled(r, s, v).st)
<1>1. r.st \in Status
  BY DEF Record
<1>2. Target(s) \in Resolvable \ {"UNKNOWN"}
  BY DEF Target, Resolvable
<1>3. Settled(r, s, v).st = Target(s)
  BY DEF Settled, Marked, Record
<1>4. MayMark(r, Target(s), Target(s) \in {"FILLED", "RECONCILING"})
  BY DEF MaySettle
<1>5. Onward(r.st, Target(s))
  BY <1>1, <1>2, <1>4
     DEF MayMark, CanResolveFromBrokerRead, CanTransition, Successors, Onward,
         InFlight, Terminal, Status, Resolvable
<1> QED BY <1>3, <1>5

\* A partial fill may be forced on whatever is queued or in flight.
LEMMA ForcedOnward ==
    ASSUME NEW r \in Record, NEW v, r.st \in InFlight \cup {"QUEUED"}
    PROVE  Onward(r.st, ForcedPartial(r, v).st)
BY DEF ForcedPartial, Record, Onward, InFlight, Status, Terminal

\* What is onward from the registry's record is onward from the file's.
LEMMA FileFollows ==
    ASSUME TypeOK, FileAgrees, phase # "down", NEW e \in Entries, NEW t,
           reg[e].st # "CREATED", Onward(reg[e].st, t)
    PROVE  Onward(disk[e].st, t)
<1>1. CASE disk[e] = Saved(reg[e])
  BY <1>1 DEF Saved, TypeOK, Record
<1>2. CASE reg[e] = Blank
  BY <1>2 DEF Blank, NoEntry
<1>3. CASE disk[e].st = "PARTIALLY_FILLED" /\ AsksBroker(reg[e])
  <2>1. reg[e].st \in Status
    BY DEF TypeOK, Record
  <2>2. reg[e].st \in InFlight
    BY <1>3, <2>1 DEF AsksBroker, InFlight
  <2>3. t \in InFlight \cup Terminal
    BY <2>2 DEF Onward, InFlight
  <2> QED
    BY <1>3, <2>3 DEF Onward, InFlight, Status, Terminal
<1> QED
  BY <1>1, <1>2, <1>3 DEF FileAgrees
-------------------------------------------------------------------------------
(***************************************************************************)
(* Registry and file agree.                                                *)
(***************************************************************************)

\* What the codec keeps of a record, and what comes back from the file.
LEMMA SavedFacts ==
    ASSUME NEW r \in Record, NEW e \in Entries
    PROVE  /\ Saved(r).st = r.st
           /\ Saved(Saved(r)) = Saved(r)
           /\ Hydrated(e, r).st = r.st
           /\ Saved(Hydrated(e, r)) = Saved(r)
BY DEF Saved, Hydrated, Record

\* The part of FileAgrees that is about one entry.
Agrees(e) ==
    /\ disk[e].st # "CREATED" /\ Saved(disk[e]) = disk[e]
    /\ phase # "down" =>
          \/ disk[e] = Saved(reg[e])
          \/ reg[e] = Blank /\ disk[e].st \in {"NONE", "QUEUED"}
          \/ disk[e].st = "PARTIALLY_FILLED" /\ AsksBroker(reg[e])

\* FileAgrees says of every entry that its two records agree.
LEMMA AgreesDef == FileAgrees <=> \A e \in Entries : Agrees(e)
BY DEF FileAgrees, Agrees

\* A record that has just been saved agrees with the file.
LEMMA SavedAgrees ==
    ASSUME NEW e \in Entries, reg'[e] \in Record, reg'[e].st # "CREATED",
           disk'[e] = Saved(reg'[e])
    PROVE  Agrees(e)'
BY SavedFacts DEF Agrees

\* What is settled has a status that a broker read resolves to.
LEMMA SettledStatus ==
    ASSUME NEW r \in Record, NEW s \in Resolvable, NEW v
    PROVE  Settled(r, s, v).st # "CREATED"
BY DEF Settled, Marked, Target, Resolvable, Record

\* An entry the scan passes: saved, or left as it was.
LEMMA ScanOutcome ==
    ASSUME TypeOK, NEW e \in Entries, NEW h
    PROVE  \/ ScanSaves(e, h) /\ Scanned(e, h).st # "CREATED"
           \/ ~ScanSaves(e, h) /\ Scanned(e, h) = reg[e]
<1>1. reg[e] \in Record /\ Resolve(e, reg[e], h) \in Resolvable
  BY ResolveRange DEF TypeOK
<1>2. CASE Resolve(e, reg[e], h) = "PARTIALLY_FILLED"
  BY <1>1, <1>2 DEF Scanned, ScanSaves, ForcedPartial, Record
<1>3. CASE Resolve(e, reg[e], h) # "PARTIALLY_FILLED"
  BY <1>1, <1>3, SettledStatus DEF Scanned, ScanSaves
<1> QED BY <1>2, <1>3

\* An entry the startup passes agrees with the file again.
LEMMA StartOutcome ==
    ASSUME TypeOK, FileAgrees, NEW e \in Entries, NEW h
    PROVE  LET r == Started(e, h)
               d == StartedOnDisk(e, h)
           IN  /\ d.st # "CREATED" /\ Saved(d) = d
               /\ \/ d = Saved(r)
                  \/ d.st = "PARTIALLY_FILLED" /\ AsksBroker(r)
<1> DEFINE r == Hydrated(e, disk[e])
           s == Resolve(e, r, h)
<1>1. disk[e] \in Record /\ r \in Record /\ s \in Resolvable
  BY CodecType, ResolveRange DEF TypeOK
<1>2. disk[e].st # "CREATED" /\ Saved(disk[e]) = disk[e] /\ Saved(r) = disk[e]
  BY <1>1, SavedFacts DEF FileAgrees
<1>3. CASE ~AsksBroker(r)
  BY <1>2, <1>3 DEF Started, StartedOnDisk
<1>4. CASE AsksBroker(r) /\ s = "PARTIALLY_FILLED"
  <2>1. ForcedPartial(r, MatchedVolume(r, h)) \in Record
    BY <1>1, ForcedPartialType
  <2>2. ForcedPartial(r, MatchedVolume(r, h)).st = "PARTIALLY_FILLED"
    BY <1>1 DEF ForcedPartial, Record
  <2> QED
    BY <1>4, <2>1, <2>2, SavedFacts DEF Started, StartedOnDisk
<1>5. CASE AsksBroker(r) /\ s # "PARTIALLY_FILLED" /\ MaySettle(r, s)
  <2>1. Started(e, h) = Settled(r, s, MatchedVolume(r, h))
    BY <1>5 DEF Started
  <2>2. StartedOnDisk(e, h) = Saved(Started(e, h))
    BY <1>5 DEF StartedOnDisk
  <2>3. Started(e, h) \in Record /\ Started(e, h).st # "CREATED"
    BY <1>1, <2>1, SettledType, SettledStatus
  <2> QED
    BY <2>2, <2>3, SavedFacts
<1>6. CASE AsksBroker(r) /\ s # "PARTIALLY_FILLED" /\ ~MaySettle(r, s)
  BY <1>2, <1>6 DEF Started, StartedOnDisk
<1> QED BY <1>3, <1>4, <1>5, <1>6

\* A rejected close request that is taken back agrees with the file.
LEMMA RecoverOutcome ==
    ASSUME TypeOK, NEW e \in Entries
    PROVE  /\ Forced(e).st = "RECONCILING" /\ Recovered(e).st = "FILLED"
           /\ Saved(Saved(Forced(e))) = Saved(Forced(e))
           /\ Saved(Saved(Recovered(e))) = Saved(Recovered(e))
           /\ Saved(Forced(e)).st = "RECONCILING"
           /\ Saved(Recovered(e)).st = "FILLED"
<1> DEFINE r == Hydrated(e, disk[e])
<1>1. r \in Record /\ Forced(e) \in Record /\ Recovered(e) \in Record
  BY CodecType, RecoveredType DEF TypeOK
<1>2. Forced(e).st = "RECONCILING"
  BY <1>1 DEF Forced, Record
<1>3. Recovered(e).st = "FILLED"
  BY <1>1, <1>2 DEF Recovered, Marked, Record
<1> QED BY <1>1, <1>2, <1>3, SavedFacts

\* Agreement is preserved by every step.  Only the entry a step is about needs
\* looking at, and while the EA is down only the file does.
LEMMA AgreesStep == TypeOK /\ FileAgrees /\ [Next]_vars => FileAgrees'
<1> SUFFICES ASSUME TypeOK, FileAgrees, [Next]_vars,
                    NEW f \in Entries
             PROVE  Agrees(f)'
  BY DEF FileAgrees, Agrees
<1>0. /\ TypeOK' /\ reg[f] \in Record /\ reg'[f] \in Record
      /\ disk[f] \in Record /\ Agrees(f)
  BY TypeStep, AgreesDef DEF TypeOK
<1>1. ASSUME reg'[f] = reg[f], disk'[f] = disk[f], phase # "down"
      PROVE  Agrees(f)'
  BY <1>0, <1>1 DEF Agrees, AsksBroker
<1>2. ASSUME disk'[f] = disk[f], phase' = "down" PROVE Agrees(f)'
  BY <1>0, <1>2 DEF Agrees
<1>3. ASSUME UNCHANGED <<reg, disk, phase>> PROVE Agrees(f)'
  BY <1>0, <1>3 DEF Agrees, AsksBroker
<1>4. ASSUME NEW tx \in inbox, Deliver(tx) PROVE Agrees(f)'
  <2>1. tx \in Transaction /\ phase # "down"
    BY <1>4 DEF TypeOK, Deliver
  <2>2. PICK e \in Correlated(reg, tx) :
           /\ Accepts(reg[e], tx)
           /\ LET reg2 == [reg EXCEPT ![e] = Applied(@, tx)] IN
               /\ reg' = reg2
               /\ disk' = [disk EXCEPT ![e] = Saved(reg2[e])]
    BY <1>4 DEF Deliver
  <2>3. e \in Entries
    BY DEF Correlated
  <2>4. CASE f = e
    <3>1. reg'[f] = Applied(reg[f], tx) /\ disk'[f] = Saved(reg'[f])
      BY <2>2, <2>3, <2>4 DEF TypeOK
    <3>2. reg'[f].st # "CREATED"
      BY <1>0, <3>1 DEF Applied, Proposed, Record
    <3> QED BY <1>0, <3>1, <3>2, SavedAgrees
  <2>5. CASE f # e
    BY <1>1, <2>1, <2>2, <2>3, <2>5 DEF TypeOK
  <2> QED BY <2>4, <2>5
<1>5. ASSUME ScanDueTimeouts PROVE Agrees(f)'
  <2>1. phase # "down"
    BY <1>5 DEF ScanDueTimeouts
  <2>2. PICK h :
           /\ reg'[f] = IF DueForScan(f) THEN Scanned(f, h[f]) ELSE reg[f]
           /\ disk'[f] = IF DueForScan(f) /\ ScanSaves(f, h[f])
                         THEN Saved(Scanned(f, h[f])) ELSE disk[f]
    BY <1>5 DEF ScanDueTimeouts
  <2>3. CASE DueForScan(f) /\ ScanSaves(f, h[f])
    BY <1>0, <2>2, <2>3, ScanOutcome, SavedAgrees
  <2>4. CASE ~(DueForScan(f) /\ ScanSaves(f, h[f]))
    BY <1>1, <2>1, <2>2, <2>4, ScanOutcome
  <2> QED BY <2>3, <2>4
<1>6. ASSUME ProcessBatch PROVE Agrees(f)'
  <2>1. phase # "down"
    BY <1>6 DEF ProcessBatch
  <2>2. \/ reg'[f] = reg[f] /\ disk'[f] = disk[f]
        \/ \E h, v :
              /\ reg'[f] = Settled(reg[f], Resolve(f, reg[f], h), v)
              /\ disk'[f] = Saved(reg'[f])
    BY <1>6 DEF ProcessBatch
  <2>3. ASSUME NEW h, NEW v, disk'[f] = Saved(reg'[f]),
               reg'[f] = Settled(reg[f], Resolve(f, reg[f], h), v)
        PROVE  Agrees(f)'
    BY <1>0, <2>3, ResolveRange, SettledStatus, SavedAgrees
  <2> QED BY <1>1, <2>1, <2>2, <2>3
<1>7. ASSUME NEW e \in Entries, Prepare(e) PROVE Agrees(f)'
  <2>1. CASE f = e
    <3>1. disk'[f] = Saved(reg'[f]) /\ reg'[f].st = "QUEUED"
      BY <1>0, <1>7, <2>1 DEF Prepare, TypeOK, Record
    <3> QED BY <1>0, <3>1, SavedAgrees
  <2>2. CASE f # e
    BY <1>1, <1>7, <2>2 DEF Prepare, MayPrepare, TypeOK
  <2> QED BY <2>1, <2>2
<1>8. ASSUME NEW e \in Entries, PrepareFails(e) PROVE Agrees(f)'
  <2>1. CASE f = e
    <3>1. reg'[f] = Blank /\ disk'[f] = disk[f] /\ phase' = phase
      BY <1>8, <2>1 DEF PrepareFails, TypeOK
    <3>2. phase # "down" /\ reg[f].st \in {"NONE", "CREATED", "QUEUED"}
      BY <1>8, <2>1 DEF PrepareFails, MayPrepare
    <3>3. disk[f].st \in {"NONE", "QUEUED"}
      BY <1>0, <3>2, SavedFacts DEF Agrees, AsksBroker
    <3> QED BY <1>0, <3>1, <3>3 DEF Agrees
  <2>2. CASE f # e
    BY <1>1, <1>8, <2>2 DEF PrepareFails, MayPrepare, TypeOK
  <2> QED BY <2>1, <2>2
<1>9. ASSUME NEW e \in Entries, SubmitAccepted(e) PROVE Agrees(f)'
  <2>1. CASE f = e
    <3>1. disk'[f] = Saved(reg'[f])
      BY <1>9, <2>1 DEF SubmitAccepted, TypeOK
    <3>2. reg'[f].st = "SUBMITTED"
      BY <1>0, <1>9, <2>1 DEF SubmitAccepted, TypeOK, Record
    <3> QED BY <1>0, <3>1, <3>2, SavedAgrees
  <2>2. CASE f # e
    BY <1>1, <1>9, <2>2 DEF SubmitAccepted, Submittable, TypeOK
  <2> QED BY <2>1, <2>2
<1>10. ASSUME NEW e \in Entries, SubmitRejected(e) PROVE Agrees(f)'
  <2>1. CASE f = e
    <3>1. disk'[f] = Saved(reg'[f]) /\ reg'[f].st = "REJECTED"
      BY <1>0, <1>10, <2>1 DEF SubmitRejected, TypeOK, Record
    <3> QED BY <1>0, <3>1, SavedAgrees
  <2>2. CASE f # e
    BY <1>1, <1>10, <2>2 DEF SubmitRejected, Submittable, TypeOK
  <2> QED BY <2>1, <2>2
<1>11. ASSUME NEW e \in Entries, SubmitCrash(e) PROVE Agrees(f)'
  BY <1>2, <1>11 DEF SubmitCrash, MemoryLost
<1>12. ASSUME Stop PROVE Agrees(f)'
  BY <1>2, <1>12 DEF Stop, MemoryLost
<1>13. ASSUME Startup PROVE Agrees(f)'
  <2>1. PICK h :
           \/ reg'[f] = Recovered(f) /\ disk'[f] = Saved(Recovered(f))
           \/ reg'[f] = Started(f, h) /\ disk'[f] = StartedOnDisk(f, h)
    BY <1>13 DEF Startup
  <2>2. CASE reg'[f] = Recovered(f) /\ disk'[f] = Saved(Recovered(f))
    BY <1>0, <2>2, RecoverOutcome, SavedAgrees
  <2>3. CASE reg'[f] = Started(f, h) /\ disk'[f] = StartedOnDisk(f, h)
    BY <2>3, StartOutcome DEF Agrees, AsksBroker
  <2> QED BY <2>1, <2>2, <2>3
<1>14. ASSUME StartupCrash PROVE Agrees(f)'
  <2>1. phase' = "down"
    BY <1>14 DEF StartupCrash
  <2>2. PICK h :
           \/ disk'[f] = disk[f]
           \/ disk'[f] = Saved(Forced(f))
           \/ disk'[f] = Saved(Recovered(f))
           \/ disk'[f] = StartedOnDisk(f, h)
    BY <1>14 DEF StartupCrash
  <2>3. disk'[f].st # "CREATED" /\ Saved(disk'[f]) = disk'[f]
    BY <1>0, <2>2, StartOutcome, RecoverOutcome DEF Agrees
  <2> QED BY <2>1, <2>3 DEF Agrees
<1>15. ASSUME NEW o \in Orders,
              \/ BrokerAccept(o) \/ BrokerRefuse(o)
              \/ \E v \in {1, Vol} : BrokerExecute(o, v)
              \/ BrokerCancel(o)
       PROVE  Agrees(f)'
  BY <1>3, <1>15
     DEF BrokerAccept, BrokerRefuse, BrokerExecute, BrokerCancel, eaVars
<1>16. ASSUME NEW e \in Entries, Expire(e) PROVE Agrees(f)'
  BY <1>3, <1>16 DEF Expire
<1>17. CASE UNCHANGED vars
  BY <1>3, <1>17 DEF vars, eaVars
<1> QED
  BY <1>4, <1>5, <1>6, <1>7, <1>8, <1>9, <1>10, <1>11, <1>12, <1>13, <1>14,
     <1>15, <1>16, <1>17 DEF Next

\* In the initial state neither registry nor file holds anything.
LEMMA AgreesInit == Init => FileAgrees
BY DEF Init, FileAgrees, Saved, NoEntry

\* Registry and file tell the same story about every entry, over all restarts
\* and crashes.
THEOREM FileAgreesCorrect == Spec => []FileAgrees
BY TypeInit, TypeStep, AgreesInit, AgreesStep, PTL DEF Spec
-------------------------------------------------------------------------------
(***************************************************************************)
(* How an entry moves in the file.                                         *)
(***************************************************************************)

\* A new entry is queued, an old one goes onward, and the rejection of a close
\* request that was executed is taken back when the EA starts.
FileMove(e) ==
    \/ Onward(disk[e].st, disk'[e].st)
    \/ disk[e].st = "NONE" /\ disk'[e].st = "QUEUED"
    \/ /\ e \in Close /\ disk[e].st = "REJECTED" /\ done[e] = Vol
       /\ phase = "down"
       /\ disk'[e].st \in {"RECONCILING", "FILLED"}

\* The startup moves an entry onward, but for the rejections it takes back.
LEMMA StartOnward ==
    ASSUME TypeOK, FileAgrees, NEW e \in Entries, NEW h
    PROVE  Onward(disk[e].st, StartedOnDisk(e, h).st)
<1> DEFINE r == Hydrated(e, disk[e])
           s == Resolve(e, r, h)
           v == MatchedVolume(r, h)
<1>1. disk[e] \in Record /\ r \in Record /\ r.st = disk[e].st /\ s \in Resolvable
  BY CodecType, SavedFacts, ResolveRange DEF TypeOK
<1>2. CASE ~AsksBroker(r)
  BY <1>2 DEF StartedOnDisk, Onward
<1>3. CASE AsksBroker(r)
  <2>1. r.st \in InFlight
    BY <1>1, <1>3 DEF AsksBroker, InFlight, Record
  <2>2. CASE s = "PARTIALLY_FILLED"
    <3>1. StartedOnDisk(e, h) = Saved(ForcedPartial(r, v))
      BY <1>3, <2>2 DEF StartedOnDisk
    <3>2. Saved(ForcedPartial(r, v)).st = ForcedPartial(r, v).st
      BY <1>1, ForcedPartialType, SavedFacts
    <3> QED BY <1>1, <2>1, <3>1, <3>2, ForcedOnward
  <2>3. CASE s # "PARTIALLY_FILLED" /\ MaySettle(r, s)
    <3>1. StartedOnDisk(e, h) = Saved(Settled(r, s, v))
      BY <1>3, <2>3 DEF StartedOnDisk, Started
    <3>2. Saved(Settled(r, s, v)).st = Settled(r, s, v).st
      BY <1>1, SettledType, SavedFacts
    <3>3. Onward(r.st, Settled(r, s, v).st)
      BY <1>1, <2>1, <2>3, SettledOnward DEF InFlight
    <3> QED BY <1>1, <3>1, <3>2, <3>3
  <2>4. CASE s # "PARTIALLY_FILLED" /\ ~MaySettle(r, s)
    BY <1>3, <2>4 DEF StartedOnDisk, Onward
  <2> QED BY <2>2, <2>3, <2>4
<1> QED BY <1>2, <1>3

\* So does the scan.
LEMMA ScanOnward ==
    ASSUME TypeOK, NEW e \in Entries, NEW h, DueForScan(e)
    PROVE  Onward(reg[e].st, Scanned(e, h).st) /\ reg[e].st # "CREATED"
<1> DEFINE r == reg[e]
           s == Resolve(e, r, h)
<1>1. r \in Record /\ s \in Resolvable
  BY ResolveRange DEF TypeOK
<1>2. r.st \in InFlight \cup {"QUEUED"} /\ r.st # "CREATED" /\ r.st # "NONE"
  BY <1>1 DEF DueForScan, InFlight, Record
<1>3. CASE s = "PARTIALLY_FILLED"
  BY <1>1, <1>2, <1>3, ForcedOnward DEF Scanned
<1>4. CASE s # "PARTIALLY_FILLED" /\ MaySettle(r, s)
  BY <1>1, <1>2, <1>4, SettledOnward DEF Scanned
<1>5. CASE s # "PARTIALLY_FILLED" /\ ~MaySettle(r, s)
  BY <1>2, <1>5 DEF Scanned, Onward
<1> QED BY <1>2, <1>3, <1>4, <1>5

\* Every step moves every entry of the file as FileMove says, and a step that
\* sends an entry takes it out of QUEUED, unless the EA dies on the way.
LEMMA MoveStep ==
    ASSUME TypeOK, FileAgrees, [Next]_vars, NEW f \in Entries
    PROVE  /\ FileMove(f)
           /\ \/ sends'[f] = sends[f]
              \/ MayCrash
              \/ /\ disk[f].st = "QUEUED" /\ disk'[f].st = "SUBMITTED"
                 /\ sends'[f] = sends[f] + 1
<1> DEFINE Goal == /\ FileMove(f)
                   /\ \/ sends'[f] = sends[f]
                      \/ MayCrash
                      \/ /\ disk[f].st = "QUEUED" /\ disk'[f].st = "SUBMITTED"
                         /\ sends'[f] = sends[f] + 1
<1>0. /\ TypeOK' /\ reg[f] \in Record /\ reg'[f] \in Record
      /\ disk[f] \in Record /\ disk'[f] \in Record /\ Agrees(f)
  BY TypeStep, AgreesDef DEF TypeOK
<1>1. ASSUME disk'[f] = disk[f], sends'[f] = sends[f] PROVE Goal
  BY <1>1 DEF FileMove, Onward
<1>2. ASSUME Onward(disk[f].st, disk'[f].st), sends'[f] = sends[f] PROVE Goal
  BY <1>2 DEF FileMove
<1>3. ASSUME NEW tx \in inbox, Deliver(tx) PROVE Goal
  <2>1. tx \in Transaction /\ phase # "down" /\ sends' = sends
    BY <1>3 DEF TypeOK, Deliver
  <2>2. PICK e \in Correlated(reg, tx) :
           /\ Accepts(reg[e], tx)
           /\ LET reg2 == [reg EXCEPT ![e] = Applied(@, tx)] IN
               disk' = [disk EXCEPT ![e] = Saved(reg2[e])]
    BY <1>3 DEF Deliver
  <2>3. e \in Entries /\ reg[e].st \notin {"NONE", "CREATED"}
    BY DEF Correlated, TryMatch
  <2>4. CASE f = e
    <3>1. disk'[f] = Saved(Applied(reg[f], tx))
      BY <2>2, <2>3, <2>4 DEF TypeOK
    <3>2. disk'[f].st = Applied(reg[f], tx).st
      BY <1>0, <2>1, <3>1, AppliedType, SavedFacts
    <3>3. Onward(reg[f].st, Applied(reg[f], tx).st)
      BY <1>0, <2>1, <2>2, <2>3, <2>4, AcceptsOnward
    <3>4. Onward(disk[f].st, disk'[f].st)
      BY <2>1, <2>3, <2>4, <3>2, <3>3, FileFollows
    <3> QED BY <1>2, <2>1, <3>4
  <2>5. CASE f # e
    BY <1>1, <2>1, <2>2, <2>3, <2>5 DEF TypeOK
  <2> QED BY <2>4, <2>5
<1>4. ASSUME ScanDueTimeouts PROVE Goal
  <2>1. phase # "down" /\ sends' = sends
    BY <1>4 DEF ScanDueTimeouts
  <2>2. PICK h : disk'[f] = IF DueForScan(f) /\ ScanSaves(f, h[f])
                            THEN Saved(Scanned(f, h[f])) ELSE disk[f]
    BY <1>4 DEF ScanDueTimeouts
  <2>3. CASE DueForScan(f) /\ ScanSaves(f, h[f])
    <3>1. disk'[f].st = Scanned(f, h[f]).st
      BY <2>2, <2>3, ScannedType, SavedFacts DEF TypeOK
    <3>2. Onward(disk[f].st, disk'[f].st)
      BY <2>1, <2>3, <3>1, ScanOnward, FileFollows
    <3> QED BY <1>2, <2>1, <3>2
  <2>4. CASE ~(DueForScan(f) /\ ScanSaves(f, h[f]))
    BY <1>1, <2>1, <2>2, <2>4
  <2> QED BY <2>3, <2>4
<1>5. ASSUME ProcessBatch PROVE Goal
  <2>1. phase # "down" /\ sends' = sends
    BY <1>5 DEF ProcessBatch
  <2>2. \/ disk'[f] = disk[f]
        \/ \E h, v :
              /\ reg[f].st = "RECONCILING"
              /\ MaySettle(reg[f], Resolve(f, reg[f], h))
              /\ disk'[f] = Saved(Settled(reg[f], Resolve(f, reg[f], h), v))
    BY <1>5 DEF ProcessBatch, BatchApplies
  <2>3. ASSUME NEW h, NEW v,
               reg[f].st = "RECONCILING",
               MaySettle(reg[f], Resolve(f, reg[f], h)),
               disk'[f] = Saved(Settled(reg[f], Resolve(f, reg[f], h), v))
        PROVE  Goal
    <3>1. Onward(reg[f].st, Settled(reg[f], Resolve(f, reg[f], h), v).st)
      BY <1>0, <2>3, ResolveRange, SettledOnward
    <3>2. disk'[f].st = Settled(reg[f], Resolve(f, reg[f], h), v).st
      BY <1>0, <2>3, SettledType, SavedFacts
    <3>3. Onward(disk[f].st, disk'[f].st)
      BY <2>1, <2>3, <3>1, <3>2, FileFollows
    <3> QED BY <1>2, <2>1, <3>3
  <2> QED BY <1>1, <2>1, <2>2, <2>3
<1>6. ASSUME NEW e \in Entries, Prepare(e) PROVE Goal
  <2>1. CASE f = e
    <3>1. disk'[f].st = "QUEUED" /\ sends'[f] = sends[f]
      <4>1. disk'[f] = Saved(reg'[f]) /\ reg'[f].st = "QUEUED"
        BY <1>0, <1>6, <2>1 DEF Prepare, TypeOK, Record
      <4> QED BY <1>0, <1>6, <4>1, SavedFacts DEF Prepare
    <3>2. phase # "down" /\ reg[f].st \in {"NONE", "CREATED", "QUEUED"}
      BY <1>6, <2>1 DEF Prepare, MayPrepare
    <3>3. disk[f].st \in {"NONE", "QUEUED"}
      BY <1>0, <3>2, SavedFacts DEF Agrees, AsksBroker
    <3> QED BY <3>1, <3>3 DEF FileMove, Onward
  <2>2. CASE f # e
    BY <1>1, <1>6, <2>2 DEF Prepare, TypeOK
  <2> QED BY <2>1, <2>2
<1>7. ASSUME NEW e \in Entries, PrepareFails(e) PROVE Goal
  BY <1>1, <1>7 DEF PrepareFails
<1>8. ASSUME NEW e \in Entries, SubmitAccepted(e) PROVE Goal
  <2>1. CASE f = e
    <3>1. sends'[f] = sends[f] + 1
      BY <1>8, <2>1 DEF SubmitAccepted, Send, TypeOK
    <3>2. disk'[f].st = "SUBMITTED"
      <4>1. disk'[f] = Saved(reg'[f]) /\ reg'[f].st = "SUBMITTED"
        BY <1>0, <1>8, <2>1 DEF SubmitAccepted, TypeOK, Record
      <4> QED BY <1>0, <4>1, SavedFacts
    <3>3. phase # "down" /\ reg[f].st = "QUEUED"
      BY <1>8, <2>1 DEF SubmitAccepted, Submittable
    <3>4. disk[f].st = "QUEUED"
      BY <1>0, <3>3, SavedFacts DEF Agrees, AsksBroker, Blank, NoEntry
    <3> QED BY <3>1, <3>2, <3>4 DEF FileMove, Onward
  <2>2. CASE f # e
    BY <1>1, <1>8, <2>2 DEF SubmitAccepted, Send, TypeOK
  <2> QED BY <2>1, <2>2
<1>9. ASSUME NEW e \in Entries, SubmitRejected(e) PROVE Goal
  <2>1. CASE f = e
    <3>1. disk'[f].st = "REJECTED" /\ sends'[f] = sends[f]
      <4>1. disk'[f] = Saved(reg'[f]) /\ reg'[f].st = "REJECTED"
        BY <1>0, <1>9, <2>1 DEF SubmitRejected, TypeOK, Record
      <4> QED BY <1>0, <1>9, <4>1, SavedFacts DEF SubmitRejected
    <3>2. phase # "down" /\ reg[f].st = "QUEUED"
      BY <1>9, <2>1 DEF SubmitRejected, Submittable
    <3>3. disk[f].st = "QUEUED"
      BY <1>0, <3>2, SavedFacts DEF Agrees, AsksBroker, Blank, NoEntry
    <3> QED BY <3>1, <3>3 DEF FileMove, Onward
  <2>2. CASE f # e
    BY <1>1, <1>9, <2>2 DEF SubmitRejected, TypeOK
  <2> QED BY <2>1, <2>2
<1>10. ASSUME NEW e \in Entries, SubmitCrash(e) PROVE Goal
  BY <1>10 DEF SubmitCrash, FileMove, Onward
<1>11. ASSUME Stop PROVE Goal
  BY <1>1, <1>11 DEF Stop
<1>12. ASSUME Startup PROVE Goal
  <2>1. phase = "down" /\ sends' = sends
    BY <1>12 DEF Startup
  <2>2. PICK h :
           \/ FalseRejectEvidence(f) /\ disk'[f] = Saved(Recovered(f))
           \/ disk'[f] = StartedOnDisk(f, h)
    BY <1>12 DEF Startup, FalseRejects
  <2>3. CASE FalseRejectEvidence(f) /\ disk'[f] = Saved(Recovered(f))
    BY <2>1, <2>3, RecoverOutcome DEF FileMove, FalseRejectEvidence, TypeOK
  <2>4. CASE disk'[f] = StartedOnDisk(f, h)
    BY <1>2, <2>1, <2>4, StartOnward
  <2> QED BY <2>2, <2>3, <2>4
<1>13. ASSUME StartupCrash PROVE Goal
  <2>1. phase = "down" /\ sends' = sends
    BY <1>13 DEF StartupCrash
  <2>2. PICK h :
           \/ disk'[f] = disk[f]
           \/ FalseRejectEvidence(f) /\ disk'[f] = Saved(Forced(f))
           \/ FalseRejectEvidence(f) /\ disk'[f] = Saved(Recovered(f))
           \/ disk'[f] = StartedOnDisk(f, h)
    BY <1>13 DEF StartupCrash, FalseRejects
  <2>3. CASE FalseRejectEvidence(f) /\ disk'[f] = Saved(Forced(f))
    BY <2>1, <2>3, RecoverOutcome DEF FileMove, FalseRejectEvidence, TypeOK
  <2>4. CASE FalseRejectEvidence(f) /\ disk'[f] = Saved(Recovered(f))
    BY <2>1, <2>4, RecoverOutcome DEF FileMove, FalseRejectEvidence, TypeOK
  <2>5. CASE disk'[f] = StartedOnDisk(f, h)
    BY <1>2, <2>1, <2>5, StartOnward
  <2> QED BY <1>1, <2>1, <2>2, <2>3, <2>4, <2>5
<1>14. ASSUME NEW o \in Orders,
              \/ BrokerAccept(o) \/ BrokerRefuse(o)
              \/ \E v \in {1, Vol} : BrokerExecute(o, v)
              \/ BrokerCancel(o)
       PROVE  Goal
  BY <1>1, <1>14
     DEF BrokerAccept, BrokerRefuse, BrokerExecute, BrokerCancel, eaVars
<1>15. ASSUME NEW e \in Entries, Expire(e) PROVE Goal
  BY <1>1, <1>15 DEF Expire
<1>16. CASE UNCHANGED vars
  BY <1>1, <1>16 DEF vars, eaVars
<1> QED
  BY <1>3, <1>4, <1>5, <1>6, <1>7, <1>8, <1>9, <1>10, <1>11, <1>12, <1>13,
     <1>14, <1>15, <1>16 DEF Next

\* A terminal status in the file is never left, except by a close request
\* whose rejection a startup takes back because it was executed.
THEOREM TerminalIsFinalCorrect == Spec => TerminalIsFinal
<1>1. TypeOK /\ FileAgrees /\ [Next]_vars =>
        [\A e \in Entries :
            disk[e].st \in Terminal /\ disk'[e].st # disk[e].st =>
                /\ e \in Close /\ disk[e].st = "REJECTED" /\ done[e] = Vol
                /\ phase = "down"
                /\ disk'[e].st \in {"RECONCILING", "FILLED"}]_vars
  <2> SUFFICES ASSUME TypeOK, FileAgrees, [Next]_vars, NEW e \in Entries,
                      disk[e].st \in Terminal, disk'[e].st # disk[e].st
               PROVE  /\ e \in Close /\ disk[e].st = "REJECTED" /\ done[e] = Vol
                      /\ phase = "down"
                      /\ disk'[e].st \in {"RECONCILING", "FILLED"}
    OBVIOUS
  <2>1. FileMove(e)
    BY MoveStep
  <2> QED
    BY <2>1 DEF FileMove, Onward, InFlight, Terminal
<1> QED
  BY <1>1, TypeCorrect, FileAgreesCorrect, PTL DEF Spec, TerminalIsFinal

-------------------------------------------------------------------------------
(***************************************************************************)
(* An EA that does not die between the send and the save sends each        *)
(* request once.                                                           *)
(***************************************************************************)

\* SentOnce is not inductive: what makes it so is that an entry which the file
\* still holds as prepared has not been sent.
UnsentIfPrepared ==
    \A e \in Entries :
        sends[e] = 0 \/ (sends[e] = 1 /\ disk[e].st \notin {"NONE", "QUEUED"})

\* While the EA cannot die inside a submission, an entry the file holds as
\* absent or queued has not been sent, and no entry is sent twice.
LEMMA UnsentStep ==
    ASSUME ~MayCrash
    PROVE  TypeOK /\ FileAgrees /\ UnsentIfPrepared /\ [Next]_vars
              => UnsentIfPrepared'
<1> SUFFICES ASSUME TypeOK, FileAgrees, UnsentIfPrepared, [Next]_vars,
                    NEW f \in Entries
             PROVE  \/ sends'[f] = 0
                    \/ sends'[f] = 1 /\ disk'[f].st \notin {"NONE", "QUEUED"}
  BY DEF UnsentIfPrepared
<1>1. /\ FileMove(f)
      /\ \/ sends'[f] = sends[f]
         \/ /\ disk[f].st = "QUEUED" /\ disk'[f].st = "SUBMITTED"
            /\ sends'[f] = sends[f] + 1
  BY MoveStep
<1>2. sends[f] = 0 \/ (sends[f] = 1 /\ disk[f].st \notin {"NONE", "QUEUED"})
  BY DEF UnsentIfPrepared
<1>3. CASE sends'[f] = sends[f] /\ sends[f] = 1
  BY <1>1, <1>2, <1>3 DEF FileMove, Onward, InFlight, Terminal
<1>4. CASE disk[f].st = "QUEUED" /\ disk'[f].st = "SUBMITTED"
           /\ sends'[f] = sends[f] + 1
  BY <1>2, <1>4
<1> QED BY <1>1, <1>2, <1>3, <1>4

\* Whatever restarts, transactions and timeouts come in between, no request is
\* sent to the broker twice.
THEOREM SentOnceCorrect ==
    ASSUME ~MayCrash
    PROVE  Spec => []SentOnce
<1>1. Init => UnsentIfPrepared
  BY DEF Init, UnsentIfPrepared
<1>2. TypeOK /\ FileAgrees /\ UnsentIfPrepared /\ [Next]_vars
         => UnsentIfPrepared'
  BY UnsentStep
<1>3. UnsentIfPrepared => SentOnce
  BY DEF UnsentIfPrepared, SentOnce
<1> QED
  BY <1>1, <1>2, <1>3, TypeCorrect, FileAgreesCorrect, PTL DEF Spec

-------------------------------------------------------------------------------
(***************************************************************************)
(* The file and the sends implement the execution ledger.                  *)
(***************************************************************************)

\* A move of the file is a step of the entry's stage, or none.
LEMMA StageMove ==
    ASSUME TypeOK, TypeOK', NEW e \in Entries, FileMove(e), FileAgrees, FileAgrees'
    PROVE  StageOf(disk[e])' \in {StageOf(disk[e])} \cup Ledger!Onward(e)
<1>1. /\ disk[e].st \in Status /\ disk'[e].st \in Status
      /\ disk[e].st # "CREATED" /\ disk'[e].st # "CREATED"
  BY DEF TypeOK, Record, FileAgrees
<1>2. Ledger!Onward(e) =
         CASE StageOf(disk[e]) = "absent"   -> {"prepared"}
           [] StageOf(disk[e]) = "prepared" -> {"inflight", "closed"}
           [] StageOf(disk[e]) = "inflight" -> {"filled", "closed"}
           [] StageOf(disk[e]) = "closed"   ->
                IF e \in Close THEN {"inflight", "filled"} ELSE {}
           [] OTHER -> {}
  BY DEF Ledger!Onward
<1> QED
  BY <1>1, <1>2
     DEF FileMove, Onward, StageOf, InFlight, Terminal, Status

\* The stage of an entry is one of the ledger's.
LEMMA StageType == ASSUME NEW r PROVE StageOf(r) \in Ledger!Stage
BY DEF StageOf, Ledger!Stage

\* Only a submission sends, one that comes to its end or one that does not.
LEMMA OnlySubmissionSends ==
    ASSUME TypeOK, [Next]_vars, NEW e \in Entries, sends'[e] # sends[e]
    PROVE  SubmitAccepted(e) \/ SubmitCrash(e)
<1>1. ASSUME NEW f \in Entries, SubmitAccepted(f) \/ SubmitCrash(f) PROVE f = e
  BY <1>1 DEF SubmitAccepted, SubmitCrash, Send, TypeOK
<1>2. sends' # sends
  OBVIOUS
<1>3. PICK f \in Entries : SubmitAccepted(f) \/ SubmitCrash(f)
  BY <1>2
     DEF Next, vars, Deliver, ScanDueTimeouts, ProcessBatch, Prepare,
         PrepareFails, SubmitRejected, Expire, Stop, Startup, StartupCrash,
         BrokerAccept, BrokerRefuse, BrokerExecute, BrokerCancel
<1> QED BY <1>1, <1>3

\* What is submitted is queued in the file.
LEMMA SubmittedIsQueued ==
    ASSUME TypeOK, FileAgrees, NEW e \in Entries, Submittable(e)
    PROVE  disk[e].st = "QUEUED"
<1>1. phase # "down" /\ reg[e].st = "QUEUED" /\ reg[e] \in Record
  BY DEF Submittable, TypeOK
<1> QED
  BY <1>1, SavedFacts DEF FileAgrees, AsksBroker, Blank, NoEntry

\* Every step of the detailed specification is a step of the ledger, or
\* leaves it as it is.
LEMMA LedgerStep ==
    /\ TypeOK /\ FileAgrees /\ TypeOK' /\ FileAgrees' /\ [Next]_vars
    => [Ledger!LedgerNext]_(Ledger!ledgerVars)
<1> SUFFICES ASSUME TypeOK, FileAgrees, TypeOK', FileAgrees', [Next]_vars
             PROVE  [Ledger!LedgerNext]_(Ledger!ledgerVars)
  OBVIOUS
<1> DEFINE stages == [e \in Entries |-> StageOf(disk[e])]
<1>1. \A e \in Entries : FileMove(e)
  BY MoveStep
<1>2. \A e \in Entries : stages'[e] \in {stages[e]} \cup Ledger!Onward(e)
  BY <1>1, StageMove
<1>3. stages' \in [Entries -> Ledger!Stage]
  BY StageType
<1>4. CASE \A e \in Entries : sends'[e] = sends[e]
  <2>1. sends' = sends
    BY <1>4 DEF TypeOK
  <2>2. Ledger!Advance
    BY <1>2, <1>3, <2>1 DEF Ledger!Advance
  <2> QED BY <2>2 DEF Ledger!LedgerNext
<1>5. CASE \E e \in Entries : sends'[e] # sends[e]
  <2>1. PICK e \in Entries : sends'[e] # sends[e]
    BY <1>5
  <2>2. CASE SubmitAccepted(e)
    <3>1. /\ sends' = [sends EXCEPT ![e] = @ + 1]
          /\ \A f \in Entries \ {e} : disk'[f] = disk[f]
      BY <2>2 DEF SubmitAccepted, Send, TypeOK
    <3>2. disk[e].st = "QUEUED"
      BY <2>2, SubmittedIsQueued DEF SubmitAccepted
    <3>3. disk'[e].st = "SUBMITTED"
      <4>0. reg[e] \in Record /\ reg'[e] \in Record
        BY DEF TypeOK
      <4>1. disk'[e] = Saved(reg'[e]) /\ reg'[e].st = "SUBMITTED"
        BY <2>2, <4>0 DEF SubmitAccepted, TypeOK, Record
      <4> QED BY <4>0, <4>1, SavedFacts
    <3>4. stages[e] = "prepared" /\ stages' = [stages EXCEPT ![e] = "inflight"]
      BY <3>1, <3>2, <3>3 DEF StageOf, Terminal
    <3>5. Ledger!Send(e)
      BY <3>1, <3>4 DEF Ledger!Send
    <3> QED BY <3>5 DEF Ledger!LedgerNext
  <2>3. CASE SubmitCrash(e)
    <3>1. /\ MayCrash /\ disk' = disk
          /\ sends' = [sends EXCEPT ![e] = @ + 1]
      BY <2>3 DEF SubmitCrash
    <3>2. disk[e].st = "QUEUED"
      BY <2>3, SubmittedIsQueued DEF SubmitCrash
    <3>3. stages[e] = "prepared"
      BY <3>2 DEF StageOf, Terminal
    <3>4. Ledger!SendUnrecorded(e)
      BY <3>1, <3>3 DEF Ledger!SendUnrecorded
    <3> QED BY <3>4 DEF Ledger!LedgerNext
  <2> QED BY <2>1, <2>2, <2>3, OnlySubmissionSends
<1> QED BY <1>4, <1>5

\* The file and the sends are those of an execution ledger, over all restarts
\* and crashes: no entry leaves an end but a close request taken back, and
\* what is sent is prepared in the file; only an EA that dies between the send
\* and the save leaves it prepared, to be sent again.
THEOREM LedgerImplemented == Spec => IsLedger
<1>1. Init => Ledger!LedgerInit
  <2>1. StageOf(NoEntry) = "absent"
    BY DEF StageOf, NoEntry, Terminal
  <2> SUFFICES ASSUME Init PROVE Ledger!LedgerInit
    OBVIOUS
  <2>2. \A e \in Entries : StageOf(disk[e]) = "absent"
    BY <2>1 DEF Init
  <2> QED BY <2>2 DEF Init, Ledger!LedgerInit
<1> QED
  BY <1>1, LedgerStep, TypeCorrect, FileAgreesCorrect, PTL
     DEF Spec, IsLedger, Ledger!LedgerSpec
-------------------------------------------------------------------------------
(***************************************************************************)
(* Within a session no entry goes back.  The rules compare ranks, but two  *)
(* ways lead round them: the gate for broker reads, and partial fills that *)
(* the scan forces.  Neither lowers a rank, because an unresolved UNKNOWN, *)
(* whose rank is above both, never gets into a record.                     *)
(***************************************************************************)

\* No record says UNKNOWN.
NeverUnknown ==
    \A e \in Entries : reg[e].st # "UNKNOWN" /\ disk[e].st # "UNKNOWN"

\* From s to t without losing rank, and not into UNKNOWN.
Upward(s, t) == t # "UNKNOWN" /\ StatusRank[t] >= StatusRank[s]

\* No status has a lower rank than itself.
LEMMA StaysUpward ==
    ASSUME NEW s \in Status \ {"UNKNOWN"} PROVE Upward(s, s)
BY DEF Upward, StatusRank, Status

\* A transaction that is applied moves the entry upward.
LEMMA AcceptsUpward ==
    ASSUME NEW r \in Record, NEW tx, Accepts(r, tx), r.st # "UNKNOWN"
    PROVE  Upward(r.st, Applied(r, tx).st)
<1>1. Applied(r, tx).st = Proposed(r, tx)
  BY DEF Applied, Record
<1>2. r.st \in Status \ {"UNKNOWN"} /\ Proposed(r, tx) # "UNKNOWN"
  BY DEF Record, Proposed
<1>3. \/ r.st = Proposed(r, tx)
      \/ StatusRank[Proposed(r, tx)] >= StatusRank[r.st]
  BY DEF Accepts, CanTransition
<1> QED BY <1>1, <1>2, <1>3, StaysUpward DEF Upward

\* What has been settled on a broker read has moved upward.
LEMMA SettledUpward ==
    ASSUME NEW r \in Record, NEW s \in Resolvable, NEW v, MaySettle(r, s),
           r.st # "UNKNOWN"
    PROVE  Upward(r.st, Settled(r, s, v).st)
<1>1. r.st \in Status \ {"UNKNOWN"}
  BY DEF Record
<1>2. Target(s) \in Resolvable \ {"UNKNOWN"}
  BY DEF Target, Resolvable
<1>3. Settled(r, s, v).st = Target(s)
  BY DEF Settled, Marked, Record
<1>4. MayMark(r, Target(s), Target(s) \in {"FILLED", "RECONCILING"})
  BY DEF MaySettle
<1>5. ASSUME r.st = Target(s) \/ CanTransition(r.st, Target(s))
      PROVE  Upward(r.st, Target(s))
  BY <1>1, <1>2, <1>5, StaysUpward DEF CanTransition, Upward, Resolvable
<1>6. ASSUME Target(s) \in {"FILLED", "RECONCILING"},
             CanResolveFromBrokerRead(r.st, Target(s)),
             ~CanTransition(r.st, Target(s))
      PROVE  Upward(r.st, Target(s))
  <2>1. r.st \in {"SUBMITTED", "ACKNOWLEDGED", "ACCEPTED", "PARTIALLY_FILLED",
                  "RECONCILING"}
    BY <1>1, <1>6 DEF CanResolveFromBrokerRead
  <2> QED BY <1>6, <2>1 DEF Upward, StatusRank, Status
<1>7. Upward(r.st, Target(s))
  BY <1>1, <1>4, <1>5, <1>6 DEF MayMark
<1> QED BY <1>3, <1>7

\* What the scan makes of an entry, forced partial fills included, is upward.
LEMMA ScanUpward ==
    ASSUME TypeOK, NeverUnknown, NEW e \in Entries, NEW h, DueForScan(e)
    PROVE  Upward(reg[e].st, Scanned(e, h).st)
<1> DEFINE r == reg[e]
           s == Resolve(e, r, h)
           v == MatchedVolume(r, h)
<1>1. r \in Record /\ s \in Resolvable /\ r.st \in Status \ {"UNKNOWN"}
  BY ResolveRange DEF TypeOK, NeverUnknown, Record
<1>2. CASE s = "PARTIALLY_FILLED"
  <2>1. Scanned(e, h).st = "PARTIALLY_FILLED"
    BY <1>1, <1>2 DEF Scanned, ForcedPartial, Record
  <2>2. r.st \in {"QUEUED", "SUBMITTED", "ACKNOWLEDGED", "ACCEPTED",
                  "PARTIALLY_FILLED"}
    BY <1>1 DEF DueForScan, Status, Terminal
  <2> QED BY <2>1, <2>2 DEF Upward, StatusRank, Status
<1>3. CASE s # "PARTIALLY_FILLED" /\ MaySettle(r, s)
  <2>1. Scanned(e, h) = Settled(r, s, v)
    BY <1>3 DEF Scanned
  <2> QED BY <1>1, <1>3, <2>1, SettledUpward
<1>4. CASE s # "PARTIALLY_FILLED" /\ ~MaySettle(r, s)
  <2>1. Scanned(e, h) = r
    BY <1>4 DEF Scanned
  <2> QED BY <1>1, <2>1, StaysUpward
<1> QED BY <1>2, <1>3, <1>4

\* The startup puts no UNKNOWN into memory or file.
LEMMA StartKnown ==
    ASSUME TypeOK, NeverUnknown, NEW e \in Entries, NEW h
    PROVE  Started(e, h).st # "UNKNOWN" /\ StartedOnDisk(e, h).st # "UNKNOWN"
<1> DEFINE r == Hydrated(e, disk[e])
           s == Resolve(e, r, h)
           v == MatchedVolume(r, h)
<1>1. /\ disk[e] \in Record /\ r \in Record /\ s \in Resolvable
      /\ r.st = disk[e].st /\ r.st # "UNKNOWN"
  BY CodecType, SavedFacts, ResolveRange DEF TypeOK, NeverUnknown
<1>2. CASE ~AsksBroker(r)
  BY <1>1, <1>2 DEF Started, StartedOnDisk
<1>3. CASE AsksBroker(r) /\ s = "PARTIALLY_FILLED"
  <2>1. Started(e, h) = r /\ StartedOnDisk(e, h) = Saved(ForcedPartial(r, v))
    BY <1>3 DEF Started, StartedOnDisk
  <2>2. Saved(ForcedPartial(r, v)).st = "PARTIALLY_FILLED"
    BY <1>1 DEF Saved, ForcedPartial, Record
  <2> QED BY <1>1, <2>1, <2>2
<1>4. CASE AsksBroker(r) /\ s # "PARTIALLY_FILLED" /\ MaySettle(r, s)
  <2>1. Started(e, h) = Settled(r, s, v) /\ StartedOnDisk(e, h) = Saved(Settled(r, s, v))
    BY <1>4 DEF Started, StartedOnDisk
  <2>2. Settled(r, s, v) \in Record /\ Settled(r, s, v).st # "UNKNOWN"
    BY <1>1, <1>4, SettledType, SettledUpward DEF Upward
  <2> QED BY <2>1, <2>2, SavedFacts
<1>5. CASE AsksBroker(r) /\ s # "PARTIALLY_FILLED" /\ ~MaySettle(r, s)
  BY <1>1, <1>5 DEF Started, StartedOnDisk
<1> QED BY <1>2, <1>3, <1>4, <1>5

\* The three ways one entry's records can come out of a step of a session:
\* nothing has happened to them, the registry's record has moved upward and the
\* file has kept its own or taken this one, or the preparation has failed.
LEMMA SessionStep ==
    ASSUME TypeOK, NeverUnknown, [Next]_vars, NEW f \in Entries,
           phase # "down", phase' # "down"
    PROVE  /\ disk'[f].st # "UNKNOWN"
           /\ reg'[f] = Blank \/ Upward(reg[f].st, reg'[f].st)
<1> DEFINE Goal == /\ disk'[f].st # "UNKNOWN"
                   /\ reg'[f] = Blank \/ Upward(reg[f].st, reg'[f].st)
<1>0. /\ reg[f] \in Record /\ reg[f].st \in Status \ {"UNKNOWN"}
      /\ disk[f] \in Record /\ disk[f].st # "UNKNOWN"
      /\ reg'[f] \in Record
  BY TypeStep DEF TypeOK, NeverUnknown, Record
<1>1. ASSUME reg'[f] = reg[f], disk'[f] = disk[f] PROVE Goal
  BY <1>0, <1>1, StaysUpward
<1>2. ASSUME Upward(reg[f].st, reg'[f].st),
             disk'[f] = disk[f] \/ disk'[f] = Saved(reg'[f])
      PROVE  Goal
  BY <1>0, <1>2, SavedFacts DEF Upward
<1>3. ASSUME NEW tx \in inbox, Deliver(tx) PROVE Goal
  <2>1. PICK e \in Correlated(reg, tx) :
           /\ Accepts(reg[e], tx)
           /\ LET reg2 == [reg EXCEPT ![e] = Applied(@, tx)] IN
               /\ reg' = reg2
               /\ disk' = [disk EXCEPT ![e] = Saved(reg2[e])]
    BY <1>3 DEF Deliver
  <2>2. e \in Entries
    BY DEF Correlated
  <2>3. CASE f = e
    <3>1. reg'[f] = Applied(reg[f], tx) /\ disk'[f] = Saved(reg'[f])
      BY <2>1, <2>2, <2>3 DEF TypeOK
    <3> QED BY <1>0, <1>2, <2>1, <2>3, <3>1, AcceptsUpward
  <2>4. CASE f # e
    BY <1>1, <2>1, <2>2, <2>4 DEF TypeOK
  <2> QED BY <2>3, <2>4
<1>4. ASSUME ScanDueTimeouts PROVE Goal
  <2>1. PICK h :
           /\ reg'[f] = IF DueForScan(f) THEN Scanned(f, h[f]) ELSE reg[f]
           /\ disk'[f] = IF DueForScan(f) /\ ScanSaves(f, h[f])
                         THEN Saved(Scanned(f, h[f])) ELSE disk[f]
    BY <1>4 DEF ScanDueTimeouts
  <2>2. CASE DueForScan(f)
    BY <1>2, <2>1, <2>2, ScanUpward
  <2>3. CASE ~DueForScan(f)
    BY <1>1, <2>1, <2>3
  <2> QED BY <2>2, <2>3
<1>5. ASSUME ProcessBatch PROVE Goal
  <2>1. \/ reg'[f] = reg[f] /\ disk'[f] = disk[f]
        \/ \E h, v :
              /\ MaySettle(reg[f], Resolve(f, reg[f], h))
              /\ reg'[f] = Settled(reg[f], Resolve(f, reg[f], h), v)
              /\ disk'[f] = Saved(reg'[f])
    BY <1>5 DEF ProcessBatch, BatchApplies
  <2>2. ASSUME NEW h, NEW v, MaySettle(reg[f], Resolve(f, reg[f], h)),
               reg'[f] = Settled(reg[f], Resolve(f, reg[f], h), v),
               disk'[f] = Saved(reg'[f])
        PROVE  Goal
    BY <1>0, <1>2, <2>2, ResolveRange, SettledUpward
  <2> QED BY <1>1, <2>1, <2>2
<1>6. ASSUME NEW e \in Entries, Prepare(e) PROVE Goal
  <2>1. CASE f = e
    <3>1. disk'[f] = Saved(reg'[f]) /\ reg'[f].st = "QUEUED"
      BY <1>0, <1>6, <2>1 DEF Prepare, TypeOK, Record
    <3>2. reg[f].st \in {"NONE", "CREATED", "QUEUED"}
      BY <1>6, <2>1 DEF Prepare, MayPrepare
    <3> QED BY <1>2, <3>1, <3>2 DEF Upward, StatusRank, Status
  <2>2. CASE f # e
    BY <1>1, <1>6, <2>2 DEF Prepare, TypeOK
  <2> QED BY <2>1, <2>2
<1>7. ASSUME NEW e \in Entries, PrepareFails(e) PROVE Goal
  <2>1. disk'[f] = disk[f] /\ (reg'[f] = Blank \/ reg'[f] = reg[f])
    BY <1>7 DEF PrepareFails, TypeOK
  <2> QED BY <1>0, <1>1, <2>1
<1>8. ASSUME NEW e \in Entries, SubmitAccepted(e) \/ SubmitRejected(e) PROVE Goal
  <2>1. CASE f = e
    <3>1. disk'[f] = Saved(reg'[f])
      BY <1>8, <2>1 DEF SubmitAccepted, SubmitRejected, TypeOK
    <3>2. reg'[f].st \in {"SUBMITTED", "REJECTED"} /\ reg[f].st = "QUEUED"
      BY <1>0, <1>8, <2>1
         DEF SubmitAccepted, SubmitRejected, Submittable, TypeOK, Record
    <3> QED BY <1>2, <3>1, <3>2 DEF Upward, StatusRank, Status
  <2>2. CASE f # e
    BY <1>1, <1>8, <2>2 DEF SubmitAccepted, SubmitRejected, TypeOK
  <2> QED BY <2>1, <2>2
<1>9. ASSUME \/ \E e \in Entries : SubmitCrash(e)
             \/ Stop \/ Startup \/ StartupCrash
      PROVE  FALSE
  BY <1>9 DEF SubmitCrash, Stop, MemoryLost, Startup, StartupCrash
<1>10. ASSUME NEW o \in Orders,
              \/ BrokerAccept(o) \/ BrokerRefuse(o)
              \/ \E v \in {1, Vol} : BrokerExecute(o, v)
              \/ BrokerCancel(o)
       PROVE  Goal
  BY <1>1, <1>10
     DEF BrokerAccept, BrokerRefuse, BrokerExecute, BrokerCancel, eaVars
<1>11. ASSUME NEW e \in Entries, Expire(e) PROVE Goal
  BY <1>1, <1>11 DEF Expire
<1>12. CASE UNCHANGED vars
  BY <1>1, <1>12 DEF vars, eaVars
<1> QED
  BY <1>3, <1>4, <1>5, <1>6, <1>7, <1>8, <1>9, <1>10, <1>11, <1>12 DEF Next

\* UNKNOWN never gets into a record, by way of a restart either.
LEMMA KnownStep == TypeOK /\ NeverUnknown /\ [Next]_vars => NeverUnknown'
<1> SUFFICES ASSUME TypeOK, NeverUnknown, [Next]_vars, NEW f \in Entries
             PROVE  reg'[f].st # "UNKNOWN" /\ disk'[f].st # "UNKNOWN"
  BY DEF NeverUnknown
<1>0. disk[f].st # "UNKNOWN" /\ reg[f].st # "UNKNOWN" /\ disk[f] \in Record
  BY DEF NeverUnknown, TypeOK
<1>1. CASE phase # "down" /\ phase' # "down"
  BY <1>1, SessionStep DEF Upward, Blank, NoEntry
<1>2. ASSUME Stop \/ \E e \in Entries : SubmitCrash(e)
      PROVE  reg'[f].st # "UNKNOWN" /\ disk'[f].st # "UNKNOWN"
  <2>1. reg'[f] = NoEntry /\ disk'[f] = disk[f]
    BY <1>2 DEF Stop, SubmitCrash, MemoryLost
  <2> QED BY <1>0, <2>1 DEF NoEntry
<1>3. ASSUME Startup PROVE reg'[f].st # "UNKNOWN" /\ disk'[f].st # "UNKNOWN"
  <2>1. PICK h :
           \/ reg'[f] = Recovered(f) /\ disk'[f] = Saved(Recovered(f))
           \/ reg'[f] = Started(f, h) /\ disk'[f] = StartedOnDisk(f, h)
    BY <1>3 DEF Startup
  <2> QED BY <2>1, StartKnown, RecoverOutcome
<1>4. ASSUME StartupCrash PROVE reg'[f].st # "UNKNOWN" /\ disk'[f].st # "UNKNOWN"
  <2>1. reg' = reg
    BY <1>4 DEF StartupCrash
  <2>2. PICK h :
           \/ disk'[f] = disk[f]
           \/ disk'[f] = Saved(Forced(f))
           \/ disk'[f] = Saved(Recovered(f))
           \/ disk'[f] = StartedOnDisk(f, h)
    BY <1>4 DEF StartupCrash
  <2> QED BY <1>0, <2>1, <2>2, StartKnown, RecoverOutcome
<1>5. ASSUME NEW e \in Entries, Expire(e)
      PROVE  reg'[f].st # "UNKNOWN" /\ disk'[f].st # "UNKNOWN"
  BY <1>0, <1>5 DEF Expire
<1>6. ASSUME NEW o \in Orders,
             \/ BrokerAccept(o) \/ BrokerRefuse(o)
             \/ \E v \in {1, Vol} : BrokerExecute(o, v)
             \/ BrokerCancel(o)
      PROVE  reg'[f].st # "UNKNOWN" /\ disk'[f].st # "UNKNOWN"
  BY <1>0, <1>6
     DEF BrokerAccept, BrokerRefuse, BrokerExecute, BrokerCancel, eaVars
<1>7. CASE UNCHANGED vars
  BY <1>0, <1>7 DEF vars, eaVars
<1>8. ASSUME \/ \E tx \in inbox : Deliver(tx)
             \/ ScanDueTimeouts \/ ProcessBatch
             \/ \E e \in Entries : \/ Prepare(e) \/ PrepareFails(e)
                                   \/ SubmitAccepted(e) \/ SubmitRejected(e)
      PROVE  phase # "down" /\ phase' # "down"
  BY <1>8 DEF Deliver, ScanDueTimeouts, ProcessBatch, Prepare, PrepareFails,
              MayPrepare, SubmitAccepted, SubmitRejected, Submittable
<1> QED
  BY <1>1, <1>2, <1>3, <1>4, <1>5, <1>6, <1>7, <1>8 DEF Next

\* While the EA runs no entry falls back to a status of lower rank, although a
\* forced partial fill and a broker read go round the rules that compare ranks.
THEOREM SessionNeverRegressesCorrect == Spec => SessionNeverRegresses
<1>1. Init => NeverUnknown
  BY DEF Init, NeverUnknown, NoEntry
<1>2. TypeOK /\ NeverUnknown /\ [Next]_vars =>
        [phase # "down" /\ phase' # "down" =>
            \A e \in Entries :
                \/ reg'[e] = Blank
                \/ StatusRank[reg'[e].st] >= StatusRank[reg[e].st]]_vars
  BY SessionStep DEF Upward
<1> QED
  BY <1>1, <1>2, TypeCorrect, KnownStep, PTL DEF Spec, SessionNeverRegresses

-------------------------------------------------------------------------------
(***************************************************************************)
(* What the store says of an entry, held against what happened to its      *)
(* order.                                                                  *)
(***************************************************************************)

AtBroker == OrderState \ {"none", "sent", "refused"}

\* The broker's books.  An order is unknown to it before it is sent, has deals
\* only once it has entered the book and is off it when all is executed; an
\* order of others closes a position only when there is one; a transaction is
\* of an order that has entered the book, and tells what happened to it.
BrokerOK ==
    /\ \A e \in Entries : sends[e] = 0 => ord[e] = "none"
    /\ \A o \in Orders :
          /\ done[o] > 0 => ord[o] \in AtBroker
          /\ done[o] = Vol => ord[o] = "filled"
    /\ \A p \in Entries \ Close :
          p + N \in Orders /\ ord[p + N] # "none" => done[p] > 0
    /\ \A tx \in inbox :
          /\ ord[tx.order] \in AtBroker
          /\ tx.type = "DEAL_ADD" => done[tx.order] > 0
          /\ tx.type = "ORDER_DELETE" => ord[tx.order] \in {"filled", "cancelled"}

\* An order moves at the broker, or everything there is as it was.
LEMMA BrokerMove ==
    ASSUME [Next]_vars
    PROVE  \/ \E o \in Orders : \/ BrokerAccept(o) \/ BrokerRefuse(o)
                                \/ \E v \in {1, Vol} : BrokerExecute(o, v)
                                \/ BrokerCancel(o)
           \/ \E e \in Entries :
                 /\ sends[e] < MaxSends
                 /\ sends' = [sends EXCEPT ![e] = @ + 1]
                 /\ ord' = [ord EXCEPT ![e] = IF @ = "none" THEN "sent" ELSE @]
                 /\ done' = done
                 /\ inbox' \in {inbox, {}}
           \/ UNCHANGED <<sends, ord, done>> /\ inbox' \in {inbox, {}}
BY DEF Next, vars, brokerVars, Deliver, ScanDueTimeouts, ProcessBatch, Prepare,
       PrepareFails, SubmitAccepted, Send, SubmitRejected, SubmitCrash, Expire,
       Stop, Startup, StartupCrash

\* An order that closes a position is not that of an entry.
LEMMA ForeignOrders ==
    /\ Entries \subseteq Orders
    /\ \A o \in Orders \ Entries :
          /\ Position(o) \in Entries /\ Position(o) + N = o
          /\ \A p \in Entries : p + N = o => p = Position(o)
    /\ \A p \in Entries : p + N \notin Entries
BY Sizes DEF Entries, Orders, Position

\* Where there is open volume the order of the entry was executed.
LEMMA OpenMeansExecuted ==
    ASSUME TypeOK, NEW p \in Entries \ Close, OpenVolume(p) > 0
    PROVE  done[p] > 0
<1>1. done[p] \in Nat /\ Exited(p) \in Nat
  BY Sizes, ForeignOrders DEF TypeOK, Exited
<1>2. done[p] - Exited(p) > 0
  BY DEF OpenVolume
<1> QED BY <1>1, <1>2

\* What has happened to an order cannot be undone.
LEMMA BrokerForward ==
    ASSUME TypeOK, BrokerOK, [Next]_vars
    PROVE  /\ \A o \in Orders :
                 /\ done'[o] >= done[o]
                 /\ ord[o] \in AtBroker => ord'[o] \in AtBroker
                 /\ ord[o] \in {"filled", "cancelled"} => ord'[o] = ord[o]
           /\ \A e \in Entries : sends'[e] >= sends[e]
<1>0. /\ \A o \in Orders : done[o] \in Nat /\ ord[o] \in OrderState
      /\ \A e \in Entries : sends[e] \in Nat
      /\ Entries \subseteq Orders
  BY Sizes, ForeignOrders DEF TypeOK, MaxSends
<1>1. CASE \E o \in Orders : \/ BrokerAccept(o) \/ BrokerRefuse(o)
                             \/ \E v \in {1, Vol} : BrokerExecute(o, v)
                             \/ BrokerCancel(o)
  BY <1>0, <1>1
     DEF TypeOK, AtBroker, OrderState, BrokerAccept, BrokerRefuse,
         BrokerExecute, BrokerCancel
<1>2. CASE \E e \in Entries :
              /\ sends' = [sends EXCEPT ![e] = @ + 1]
              /\ ord' = [ord EXCEPT ![e] = IF @ = "none" THEN "sent" ELSE @]
              /\ done' = done
  BY <1>0, <1>2 DEF TypeOK, AtBroker
<1>3. CASE UNCHANGED <<sends, ord, done>>
  BY <1>0, <1>3
<1> QED BY <1>1, <1>2, <1>3, BrokerMove

\* The books stay in order.
LEMMA BrokerStep == TypeOK /\ BrokerOK /\ [Next]_vars => BrokerOK'
<1> SUFFICES ASSUME TypeOK, BrokerOK, [Next]_vars PROVE BrokerOK'
  OBVIOUS
<1> DEFINE Txs(i) == \A tx \in i :
              /\ ord'[tx.order] \in AtBroker
              /\ tx.type = "DEAL_ADD" => done'[tx.order] > 0
              /\ tx.type = "ORDER_DELETE"
                    => ord'[tx.order] \in {"filled", "cancelled"}
<1>0. /\ \A o \in Orders : /\ done[o] \in Nat /\ done'[o] \in Nat
                           /\ ord[o] \in OrderState
      /\ \A e \in Entries : sends[e] \in Nat /\ sends'[e] \in Nat
      /\ \A tx \in inbox : tx.order \in Orders
      /\ Entries \subseteq Orders /\ Vol \in Nat /\ Vol >= 1
  BY TypeStep, Sizes, ForeignOrders DEF TypeOK, MaxSends, Transaction
<1>1. Txs(inbox) /\ Txs({})
  BY <1>0, BrokerForward DEF BrokerOK
<1>2. ASSUME NEW o \in Orders, BrokerAccept(o) PROVE BrokerOK'
  <2>1. /\ ord' = [ord EXCEPT ![o] = "working"]
        /\ done' = done /\ sends' = sends
    BY <1>2 DEF BrokerAccept
  <2>2. done[o] = 0 /\ ord[o] \in {"none", "sent"}
    BY <1>0, <1>2 DEF BrokerAccept, BrokerOK, AtBroker
  <2>3. \A e \in Entries : sends'[e] = 0 => ord'[e] = "none"
    <3>1. o \in Entries => ord[o] = "sent"
      BY <1>2, Sizes DEF BrokerAccept, Entries
    <3> QED BY <2>1, <3>1, ForeignOrders DEF BrokerOK, TypeOK
  <2>4. \A q \in Orders : /\ done'[q] > 0 => ord'[q] \in AtBroker
                          /\ done'[q] = Vol => ord'[q] = "filled"
    BY <1>0, <2>1, <2>2 DEF BrokerOK, TypeOK, AtBroker, OrderState
  <2>5. ASSUME NEW p \in Entries \ Close, p + N \in Orders, ord'[p + N] # "none"
        PROVE  done'[p] > 0
    <3>1. CASE p + N = o /\ ord[o] = "none"
      <4>1. o \notin Entries
        BY <3>1, ForeignOrders
      <4>2. OpenVolume(Position(o)) > 0
        BY <1>2, <3>1 DEF BrokerAccept
      <4> QED BY <2>1, <3>1, <4>1, <4>2, ForeignOrders, OpenMeansExecuted
    <3>2. CASE ord[p + N] # "none"
      BY <2>1, <2>5, <3>2 DEF BrokerOK
    <3> QED BY <2>1, <2>5, <3>1, <3>2 DEF TypeOK
  <2>6. Txs({Tx("ORDER_ADD", o, 0)})
    BY <1>0, <2>1 DEF Tx, TypeOK, AtBroker, OrderState
  <2>7. inbox' \subseteq inbox \cup {Tx("ORDER_ADD", o, 0)}
    BY <1>2 DEF BrokerAccept, Emits
  <2>8. Txs(inbox')
    BY <1>1, <2>6, <2>7
  <2> QED BY <2>3, <2>4, <2>5, <2>8 DEF BrokerOK, AtBroker
<1>3. ASSUME NEW o \in Orders, BrokerRefuse(o) PROVE BrokerOK'
  <2>1. /\ ord' = [ord EXCEPT ![o] = "refused"] /\ ord[o] = "sent"
        /\ done' = done /\ sends' = sends /\ inbox' = inbox
    BY <1>3 DEF BrokerRefuse
  <2>2. done[o] = 0
    BY <1>0, <2>1 DEF BrokerOK, AtBroker
  <2>3. \A e \in Entries : sends'[e] = 0 => ord'[e] = "none"
    BY <2>1, ForeignOrders DEF BrokerOK, TypeOK
  <2>4. \A q \in Orders : /\ done'[q] > 0 => ord'[q] \in AtBroker
                          /\ done'[q] = Vol => ord'[q] = "filled"
    BY <1>0, <2>1, <2>2 DEF BrokerOK, TypeOK
  <2>5. \A p \in Entries \ Close :
           p + N \in Orders /\ ord'[p + N] # "none" => done'[p] > 0
    BY <2>1 DEF BrokerOK, TypeOK
  <2> QED BY <1>1, <2>1, <2>3, <2>4, <2>5 DEF BrokerOK, AtBroker
<1>4. ASSUME NEW o \in Orders, NEW v \in {1, Vol}, BrokerExecute(o, v) PROVE BrokerOK'
  <2>1. /\ ord' = [ord EXCEPT ![o] = IF done[o] + v = Vol THEN "filled" ELSE @]
        /\ ord[o] = "working" /\ done[o] + v <= Vol /\ v \in Nat /\ v >= 1
        /\ done' = [done EXCEPT ![o] = @ + v]
        /\ sends' = sends
    BY <1>0, <1>4 DEF BrokerExecute
  <2>3. \A e \in Entries : sends'[e] = 0 => ord'[e] = "none"
    BY <2>1, ForeignOrders DEF BrokerOK, TypeOK
  <2>4. \A q \in Orders : /\ done'[q] > 0 => ord'[q] \in AtBroker
                          /\ done'[q] = Vol => ord'[q] = "filled"
    BY <1>0, <2>1 DEF BrokerOK, TypeOK, AtBroker, OrderState
  <2>5. \A p \in Entries \ Close :
           p + N \in Orders /\ ord'[p + N] # "none" => done'[p] > 0
    BY <1>0, <2>1 DEF BrokerOK, TypeOK
  <2>6. Txs({Tx("DEAL_ADD", o, done[o] + v)})
    BY <1>0, <2>1 DEF Tx, TypeOK, AtBroker, OrderState
  <2>7. done[o] + v = Vol => Txs({Tx("ORDER_DELETE", o, 0)})
    BY <1>0, <2>1 DEF Tx, TypeOK, AtBroker, OrderState
  <2>8. inbox' \subseteq inbox \cup {Tx("DEAL_ADD", o, done[o] + v)}
             \cup (IF done[o] + v = Vol THEN {Tx("ORDER_DELETE", o, 0)} ELSE {})
    BY <1>4 DEF BrokerExecute, Emits
  <2>9. Txs(inbox')
    BY <1>1, <2>6, <2>7, <2>8
  <2> QED BY <2>3, <2>4, <2>5, <2>9 DEF BrokerOK, AtBroker
<1>5. ASSUME NEW o \in Orders, BrokerCancel(o) PROVE BrokerOK'
  <2>1. /\ ord' = [ord EXCEPT ![o] = "cancelled"] /\ ord[o] = "working"
        /\ done' = done /\ sends' = sends
    BY <1>5 DEF BrokerCancel
  <2>3. \A e \in Entries : sends'[e] = 0 => ord'[e] = "none"
    BY <2>1, ForeignOrders DEF BrokerOK, TypeOK
  <2>4. \A q \in Orders : /\ done'[q] > 0 => ord'[q] \in AtBroker
                          /\ done'[q] = Vol => ord'[q] = "filled"
    BY <1>0, <2>1 DEF BrokerOK, TypeOK, AtBroker, OrderState
  <2>5. \A p \in Entries \ Close :
           p + N \in Orders /\ ord'[p + N] # "none" => done'[p] > 0
    BY <1>0, <2>1 DEF BrokerOK, TypeOK
  <2>6. Txs({Tx("ORDER_DELETE", o, 0)})
    BY <1>0, <2>1 DEF Tx, TypeOK, AtBroker, OrderState
  <2>7. inbox' \subseteq inbox \cup {Tx("ORDER_DELETE", o, 0)}
    BY <1>5 DEF BrokerCancel, Emits
  <2>8. Txs(inbox')
    BY <1>1, <2>6, <2>7
  <2> QED BY <2>3, <2>4, <2>5, <2>8 DEF BrokerOK, AtBroker
<1>6. ASSUME NEW e \in Entries,
             sends' = [sends EXCEPT ![e] = @ + 1],
             ord' = [ord EXCEPT ![e] = IF @ = "none" THEN "sent" ELSE @],
             done' = done, inbox' \in {inbox, {}}
      PROVE  BrokerOK'
  <2>1. ord[e] = "none" => done[e] = 0
    BY <1>0 DEF BrokerOK, AtBroker
  <2>3. \A f \in Entries : sends'[f] = 0 => ord'[f] = "none"
    BY <1>0, <1>6 DEF BrokerOK, TypeOK
  <2>4. \A q \in Orders : /\ done'[q] > 0 => ord'[q] \in AtBroker
                          /\ done'[q] = Vol => ord'[q] = "filled"
    BY <1>0, <1>6, <2>1 DEF BrokerOK, TypeOK
  <2>5. \A p \in Entries \ Close :
           p + N \in Orders /\ ord'[p + N] # "none" => done'[p] > 0
    BY <1>6, ForeignOrders DEF BrokerOK, TypeOK
  <2> QED BY <1>1, <1>6, <2>3, <2>4, <2>5 DEF BrokerOK, AtBroker
<1>7. CASE UNCHANGED <<sends, ord, done>> /\ inbox' \in {inbox, {}}
  BY <1>7 DEF BrokerOK, AtBroker
<1> QED
  BY <1>2, <1>3, <1>4, <1>5, <1>6, <1>7, BrokerMove

\* A record can be held against what has happened to its order: it tells of a
\* fill only if there was one, and of a submission only if the request left.
Backed(e, r) ==
    /\ r.st \in {"FILLED", "PARTIALLY_FILLED"} \/ r.filled > 0 => done[e] > 0
    /\ r.st \notin {"NONE", "CREATED", "QUEUED", "REJECTED"} => sends[e] >= 1

RecordsBacked ==
    \A e \in Entries \ Close :
        Alone(e) => Backed(e, reg[e]) /\ Backed(e, disk[e])

\* An entry that is alone now has always been.
LEMMA AloneBefore ==
    ASSUME TypeOK, BrokerOK, [Next]_vars, NEW e \in Entries, Alone(e)'
    PROVE  Alone(e)
<1>1. \A f \in Entries : sends[f] \in Nat /\ sends'[f] \in Nat /\ sends'[f] >= sends[f]
  BY TypeStep, BrokerForward DEF TypeOK, MaxSends
<1> QED BY <1>1 DEF Alone

\* While an entry is alone, whatever the broker has orders and deals of is
\* traced to the entry's own order.
LEMMA OnlyOwn ==
    ASSUME TypeOK, BrokerOK, NEW e \in Entries \ Close, Alone(e), NEW o \in Orders
    PROVE  /\ done[o] > 0 => done[e] > 0
           /\ ord[o] \in AtBroker => sends[e] >= 1
           /\ o # e /\ ord[o] # "none" => done[e] > 0
           /\ done[e] > 0 => sends[e] >= 1
<1>0. /\ \A f \in Entries : sends[f] \in Nat
      /\ \A q \in Orders : done[q] \in Nat /\ ord[q] \in OrderState
      /\ e \in Orders
  BY Sizes, ForeignOrders DEF TypeOK, MaxSends
<1>1. ASSUME NEW f \in Entries, f # e PROVE ord[f] = "none" /\ done[f] = 0
  BY <1>0, <1>1, ForeignOrders DEF Alone, BrokerOK, AtBroker
<1>2. ord[e] \in AtBroker => sends[e] >= 1
  BY <1>0 DEF BrokerOK, AtBroker
<1>3. done[e] > 0 => sends[e] >= 1
  BY <1>0, <1>2 DEF BrokerOK
<1>4. CASE o \in Entries
  BY <1>1, <1>2, <1>3, <1>4 DEF AtBroker
<1>5. CASE o \notin Entries
  <2>1. Position(o) \in Entries \ Close /\ Position(o) + N = o
    BY <1>5, ForeignOrders DEF Alone
  <2>2. ord[o] # "none" => done[Position(o)] > 0
    BY <2>1 DEF BrokerOK
  <2>3. ord[o] # "none" => done[e] > 0
    BY <1>1, <2>1, <2>2
  <2>4. done[o] > 0 => ord[o] # "none"
    BY DEF BrokerOK, AtBroker
  <2>5. ord[o] \in AtBroker => ord[o] # "none"
    BY DEF AtBroker
  <2> QED BY <1>3, <2>3, <2>4, <2>5
<1> QED BY <1>4, <1>5

\* The positions the broker shows are then the entry's own.
LEMMA OpenIsOwn ==
    ASSUME TypeOK, BrokerOK, NEW e \in Entries \ Close, Alone(e),
           NEW r \in Record, Matching(r) # {}
    PROVE  done[e] > 0
<1>1. PICK p \in Matching(r) : TRUE
  OBVIOUS
<1>2. p \in Entries /\ OpenVolume(p) > 0
  BY Sizes DEF Matching, Record, Entries
<1>3. p \notin Close
  BY <1>2 DEF Alone
<1>4. done[p] > 0
  BY <1>2, <1>3, OpenMeansExecuted
<1> QED BY <1>2, <1>4, OnlyOwn, ForeignOrders

\* History shows a fill only of an order that was executed.
LEMMA HistoryFill ==
    ASSUME TypeOK, NEW e \in Entries, NEW r \in Record,
           NEW h \in HistoryAnswers(e, r), h.kind = "fill"
    PROVE  \E o \in Orders : done[o] > 0
<1> DEFINE o == IF r.order # 0 THEN r.order ELSE e
<1>1. o \in Orders
  BY Sizes, ForeignOrders DEF Record, Orders
<1>2. done[o] > 0
  BY DEF HistoryAnswers
<1> QED BY <1>1, <1>2

\* A broker read resolves a backed record to a fill only if there was one.
LEMMA ResolvedFill ==
    ASSUME TypeOK, BrokerOK, NEW e \in Entries \ Close, Alone(e),
           NEW r \in Record, Backed(e, r), NEW h \in HistoryAnswers(e, r),
           Resolve(e, r, h) \in {"FILLED", "PARTIALLY_FILLED"}
    PROVE  done[e] > 0
<1>1. \/ r.filled > 0
      \/ r.st = "FILLED"
      \/ Matching(r) # {}
      \/ h.kind = "fill"
  BY DEF Resolve, Record
<1>2. CASE r.filled > 0 \/ r.st = "FILLED"
  BY <1>2 DEF Backed
<1>3. CASE Matching(r) # {}
  BY <1>3, OpenIsOwn
<1>4. CASE h.kind = "fill"
  BY <1>4, HistoryFill, OnlyOwn
<1> QED BY <1>1, <1>2, <1>3, <1>4

\* What is settled on a broker read of a backed record is backed.
LEMMA SettledBacked ==
    ASSUME TypeOK, BrokerOK, NEW e \in Entries \ Close, Alone(e),
           NEW r \in Record, Backed(e, r), NEW h \in HistoryAnswers(e, r),
           r.st \notin {"NONE", "CREATED"}, NEW v,
           MaySettle(r, Resolve(e, r, h))
    PROVE  Backed(e, Settled(r, Resolve(e, r, h), v))
<1> DEFINE s == Resolve(e, r, h)
           t == Settled(r, s, v)
<1>0. s \in Resolvable /\ sends[e] \in Nat /\ r.st \in Status
  BY ResolveRange, Sizes DEF TypeOK, Record, MaxSends
<1>1. /\ t.st = Target(s)
      /\ s # "FILLED" => t.filled = r.filled
  BY <1>0 DEF Settled, Marked, Target, Record, Resolvable
<1>2. CASE s \in {"FILLED", "PARTIALLY_FILLED"}
  <2>1. done[e] > 0
    BY <1>2, ResolvedFill
  <2> QED BY <2>1, OnlyOwn, ForeignOrders DEF Backed
<1>3. CASE s \notin {"FILLED", "PARTIALLY_FILLED"}
  <2>1. t.st \in {"REJECTED", "TIMED_OUT", "RECONCILING"} /\ t.filled = r.filled
    BY <1>0, <1>1, <1>3 DEF Target, Resolvable
  <2>2. t.st # "REJECTED" => r.st \notin {"NONE", "CREATED", "QUEUED", "REJECTED"}
    BY <1>0, <1>1, <2>1
       DEF MaySettle, MayMark, CanResolveFromBrokerRead, CanTransition,
           Successors, Terminal, Status
  <2> QED BY <2>1, <2>2 DEF Backed
<1> QED BY <1>2, <1>3

\* So is what a partial fill is forced on.
LEMMA ForcedBacked ==
    ASSUME TypeOK, BrokerOK, NEW e \in Entries \ Close, Alone(e),
           NEW r \in Record, Backed(e, r), NEW h \in HistoryAnswers(e, r),
           Resolve(e, r, h) = "PARTIALLY_FILLED", NEW v
    PROVE  Backed(e, ForcedPartial(r, v))
<1>1. done[e] > 0
  BY ResolvedFill
<1> QED BY <1>1, OnlyOwn, ForeignOrders DEF Backed

\* So is what the scan makes of a due entry.
LEMMA ScannedBacked ==
    ASSUME TypeOK, BrokerOK, NEW e \in Entries \ Close, Alone(e),
           Backed(e, reg[e]), NEW h \in HistoryAnswers(e, reg[e]), DueForScan(e)
    PROVE  Backed(e, Scanned(e, h))
<1>1. reg[e] \in Record /\ reg[e].st \notin {"NONE", "CREATED"}
  BY DEF TypeOK, DueForScan
<1> QED BY <1>1, ForcedBacked, SettledBacked DEF Scanned

\* The codec drops nothing that a record is held to.
LEMMA SavedBacked ==
    ASSUME NEW r \in Record, NEW e \in Entries
    PROVE  Backed(e, Saved(r)) <=> Backed(e, r)
BY DEF Backed, Saved, Record

\* And what the startup makes of a record it reads.
LEMMA StartedBacked ==
    ASSUME TypeOK, BrokerOK, NEW e \in Entries \ Close, Alone(e),
           Backed(e, disk[e]), NEW h,
           AsksBroker(disk[e]) => h \in HistoryAnswers(e, disk[e])
    PROVE  Backed(e, Started(e, h)) /\ Backed(e, StartedOnDisk(e, h))
<1> DEFINE r == disk[e]
           s == Resolve(e, r, h)
           v == MatchedVolume(r, h)
<1>1. Hydrated(e, disk[e]) = r /\ r \in Record
  BY DEF Hydrated, TypeOK
<1>2. CASE ~AsksBroker(r)
  BY <1>1, <1>2 DEF Started, StartedOnDisk
<1>3. CASE AsksBroker(r) /\ s = "PARTIALLY_FILLED"
  <2>1. Started(e, h) = r /\ StartedOnDisk(e, h) = Saved(ForcedPartial(r, v))
    BY <1>1, <1>3 DEF Started, StartedOnDisk
  <2> QED BY <1>1, <1>3, <2>1, ForcedBacked, ForcedPartialType, SavedBacked
<1>4. CASE AsksBroker(r) /\ s # "PARTIALLY_FILLED" /\ MaySettle(r, s)
  <2>1. /\ Started(e, h) = Settled(r, s, v)
        /\ StartedOnDisk(e, h) = Saved(Settled(r, s, v))
    BY <1>1, <1>4 DEF Started, StartedOnDisk
  <2>2. r.st \notin {"NONE", "CREATED"}
    BY <1>4 DEF AsksBroker
  <2> QED BY <1>1, <1>4, <2>1, <2>2, SettledBacked, SettledType, SavedBacked
<1>5. CASE AsksBroker(r) /\ s # "PARTIALLY_FILLED" /\ ~MaySettle(r, s)
  BY <1>1, <1>5 DEF Started, StartedOnDisk
<1> QED BY <1>2, <1>3, <1>4, <1>5

\* A transaction that reaches the EA while the entry is alone is of its order,
\* or of one that closes its position.
LEMMA AppliedBacked ==
    ASSUME TypeOK, BrokerOK, NEW e \in Entries \ Close, Alone(e),
           NEW r \in Record, Backed(e, r), NEW tx \in inbox, Accepts(r, tx)
    PROVE  Backed(e, Applied(r, tx))
<1>1. tx \in Transaction /\ tx.order \in Orders
  BY DEF TypeOK, Transaction
<1>2. sends[e] >= 1 /\ (tx.type = "DEAL_ADD" => done[e] > 0)
  BY <1>1, OnlyOwn DEF BrokerOK
<1>3. /\ Applied(r, tx).st = Proposed(r, tx)
      /\ tx.type # "DEAL_ADD" => Applied(r, tx).filled = r.filled
  BY DEF Applied, Record
<1>4. CASE tx.type = "DEAL_ADD"
  BY <1>2, <1>4 DEF Backed
<1>5. CASE tx.type # "DEAL_ADD"
  <2>1. Proposed(r, tx) \in {"REJECTED", "ACKNOWLEDGED"}
    BY <1>5 DEF Proposed, Accepts
  <2> QED BY <1>2, <1>3, <1>5, <2>1 DEF Backed
<1> QED BY <1>4, <1>5

\* Answers to reads are answers for each of the entries.
LEMMA ReadsAnswer ==
    ASSUME NEW E, NEW registry, NEW h \in Reads(E, registry), NEW e \in E \cap Entries
    PROVE  h[e] \in HistoryAnswers(e, registry[e])
BY DEF Reads


\* What a batch does to an entry: nothing, or it settles it on an answer.
LEMMA BatchOutcome ==
    ASSUME TypeOK, ProcessBatch, NEW f \in Entries
    PROVE  \/ reg'[f] = reg[f] /\ disk'[f] = disk[f]
           \/ \E h \in HistoryAnswers(f, reg[f]) : \E v :
                 /\ reg[f].st = "RECONCILING"
                 /\ MaySettle(reg[f], Resolve(f, reg[f], h))
                 /\ reg'[f] = Settled(reg[f], Resolve(f, reg[f], h), v)
                 /\ disk'[f] = Saved(reg'[f])
<1>0. PICK batch \in SUBSET queue :
         LET work == {e \in batch : reg[e].st = "RECONCILING"} IN
         \E h \in Reads(work, reg) :
            LET applied == {e \in work : BatchApplies(e, h[e])}
                Result(e) == Settled(reg[e], Resolve(e, reg[e], h[e]),
                                     MatchedVolume(reg[e], h[e]))
            IN  /\ reg' = [e \in Entries |->
                      IF e \in applied THEN Result(e) ELSE reg[e]]
                /\ disk' = [e \in Entries |->
                      IF e \in applied THEN Saved(Result(e)) ELSE disk[e]]
  BY DEF ProcessBatch
<1> DEFINE work == {e \in batch : reg[e].st = "RECONCILING"}
<1>1. PICK h \in Reads(work, reg) :
         LET applied == {e \in work : BatchApplies(e, h[e])}
             Result(e) == Settled(reg[e], Resolve(e, reg[e], h[e]),
                                  MatchedVolume(reg[e], h[e]))
         IN  /\ reg' = [e \in Entries |->
                   IF e \in applied THEN Result(e) ELSE reg[e]]
             /\ disk' = [e \in Entries |->
                   IF e \in applied THEN Saved(Result(e)) ELSE disk[e]]
  BY <1>0
<1>2. CASE f \in batch /\ reg[f].st = "RECONCILING" /\ BatchApplies(f, h[f])
  <2>1. h[f] \in HistoryAnswers(f, reg[f])
    BY <1>2, ReadsAnswer
  <2>2. /\ reg'[f] = Settled(reg[f], Resolve(f, reg[f], h[f]),
                             MatchedVolume(reg[f], h[f]))
        /\ disk'[f] = Saved(reg'[f])
    BY <1>1, <1>2
  <2> QED BY <1>2, <2>1, <2>2 DEF BatchApplies
<1>3. CASE ~(f \in batch /\ reg[f].st = "RECONCILING" /\ BatchApplies(f, h[f]))
  BY <1>1, <1>3
<1> QED BY <1>2, <1>3

\* Every step leaves records backed: the broker only adds to what they can be
\* held against, and what the EA writes is backed by what it has been told.
LEMMA BackedStep ==
    TypeOK /\ BrokerOK /\ RecordsBacked /\ [Next]_vars => RecordsBacked'
<1> SUFFICES ASSUME TypeOK, BrokerOK, RecordsBacked, [Next]_vars,
                    NEW f \in Entries \ Close, Alone(f)'
             PROVE  Backed(f, reg[f])' /\ Backed(f, disk[f])'
  BY DEF RecordsBacked
<1> DEFINE Goal == Backed(f, reg[f])' /\ Backed(f, disk[f])'
<1>0. /\ Alone(f) /\ Backed(f, reg[f]) /\ Backed(f, disk[f])
      /\ reg[f] \in Record /\ disk[f] \in Record
      /\ reg'[f] \in Record /\ disk'[f] \in Record
  BY AloneBefore, TypeStep DEF RecordsBacked, TypeOK
<1>1. \A r : Backed(f, r) =>
         /\ r.st \in {"FILLED", "PARTIALLY_FILLED"} \/ r.filled > 0 => done'[f] > 0
         /\ r.st \notin {"NONE", "CREATED", "QUEUED", "REJECTED"} => sends'[f] >= 1
  <2>1. /\ done[f] \in Nat /\ done'[f] \in Nat /\ done'[f] >= done[f]
        /\ sends[f] \in Nat /\ sends'[f] \in Nat /\ sends'[f] >= sends[f]
    BY TypeStep, BrokerForward, Sizes, ForeignOrders DEF TypeOK, MaxSends
  <2> QED BY <2>1 DEF Backed
<1>2. ASSUME Backed(f, reg'[f]), Backed(f, disk'[f]) PROVE Goal
  BY <1>1, <1>2 DEF Backed
<1>3. ASSUME reg'[f] = reg[f], disk'[f] = disk[f] PROVE Goal
  BY <1>0, <1>2, <1>3
<1>4. ASSUME Backed(f, reg'[f]), disk'[f] = disk[f] \/ disk'[f] = Saved(reg'[f])
      PROVE  Goal
  BY <1>0, <1>2, <1>4, SavedBacked
<1>5. Backed(f, NoEntry) /\ Backed(f, Blank)
  BY DEF Backed, NoEntry, Blank
<1>6. ASSUME NEW tx \in inbox, Deliver(tx) PROVE Goal
  <2>1. PICK e \in Correlated(reg, tx) :
           /\ Accepts(reg[e], tx)
           /\ LET reg2 == [reg EXCEPT ![e] = Applied(@, tx)] IN
               /\ reg' = reg2
               /\ disk' = [disk EXCEPT ![e] = Saved(reg2[e])]
    BY <1>6 DEF Deliver
  <2>2. e \in Entries
    BY DEF Correlated
  <2>3. CASE f = e
    <3>1. reg'[f] = Applied(reg[f], tx) /\ disk'[f] = Saved(reg'[f])
      BY <2>1, <2>2, <2>3 DEF TypeOK
    <3> QED BY <1>0, <1>4, <2>1, <2>3, <3>1, AppliedBacked
  <2>4. CASE f # e
    BY <1>3, <2>1, <2>2, <2>4 DEF TypeOK
  <2> QED BY <2>3, <2>4
<1>7. ASSUME ScanDueTimeouts PROVE Goal
  <2>1. PICK h \in Reads({e \in Entries : DueForScan(e)}, reg) :
           /\ reg'[f] = IF DueForScan(f) THEN Scanned(f, h[f]) ELSE reg[f]
           /\ disk'[f] = IF DueForScan(f) /\ ScanSaves(f, h[f])
                         THEN Saved(Scanned(f, h[f])) ELSE disk[f]
    BY <1>7 DEF ScanDueTimeouts
  <2>2. CASE DueForScan(f)
    <3>1. h[f] \in HistoryAnswers(f, reg[f])
      BY <2>2, ReadsAnswer
    <3> QED BY <1>0, <1>4, <2>1, <2>2, <3>1, ScannedBacked
  <2>3. CASE ~DueForScan(f)
    BY <1>3, <2>1, <2>3
  <2> QED BY <2>2, <2>3
<1>8. ASSUME ProcessBatch PROVE Goal
  <2>1. \/ reg'[f] = reg[f] /\ disk'[f] = disk[f]
        \/ \E h \in HistoryAnswers(f, reg[f]) : \E v :
              /\ reg[f].st = "RECONCILING"
              /\ MaySettle(reg[f], Resolve(f, reg[f], h))
              /\ reg'[f] = Settled(reg[f], Resolve(f, reg[f], h), v)
              /\ disk'[f] = Saved(reg'[f])
    BY <1>8, BatchOutcome
  <2>2. ASSUME NEW h \in HistoryAnswers(f, reg[f]), NEW v,
               reg[f].st = "RECONCILING",
               MaySettle(reg[f], Resolve(f, reg[f], h)),
               reg'[f] = Settled(reg[f], Resolve(f, reg[f], h), v),
               disk'[f] = Saved(reg'[f])
        PROVE  Goal
    BY <1>0, <1>4, <2>2, SettledBacked
  <2> QED BY <1>3, <2>1, <2>2
<1>9. ASSUME NEW e \in Entries, Prepare(e) PROVE Goal
  <2>1. CASE f = e
    <3>1. /\ reg'[f].st = "QUEUED" /\ reg'[f].filled = reg[f].filled
          /\ disk'[f] = Saved(reg'[f])
      BY <1>0, <1>9, <2>1 DEF Prepare, TypeOK, Record
    <3> QED BY <1>0, <1>4, <3>1 DEF Backed
  <2>2. CASE f # e
    BY <1>3, <1>9, <2>2 DEF Prepare, TypeOK
  <2> QED BY <2>1, <2>2
<1>10. ASSUME NEW e \in Entries, PrepareFails(e) PROVE Goal
  <2>1. disk'[f] = disk[f] /\ (reg'[f] = Blank \/ reg'[f] = reg[f])
    BY <1>10 DEF PrepareFails, TypeOK
  <2> QED BY <1>0, <1>2, <1>5, <2>1
<1>11. ASSUME NEW e \in Entries, SubmitAccepted(e) PROVE Goal
  <2>1. CASE f = e
    <3>1. /\ reg'[f].st = "SUBMITTED" /\ reg'[f].filled = reg[f].filled
          /\ disk'[f] = Saved(reg'[f])
      BY <1>0, <1>11, <2>1 DEF SubmitAccepted, TypeOK, Record
    <3>2. sends'[f] >= 1
      BY <1>11, <2>1 DEF SubmitAccepted, Send, TypeOK, MaxSends
    <3>3. reg'[f].filled > 0 => done'[f] > 0
      BY <1>0, <1>1, <3>1
    <3>4. /\ Saved(reg'[f]).st = reg'[f].st
          /\ Saved(reg'[f]).filled = reg'[f].filled
      BY <1>0 DEF Saved, Record
    <3> QED BY <3>1, <3>2, <3>3, <3>4 DEF Backed
  <2>2. CASE f # e
    BY <1>3, <1>11, <2>2 DEF SubmitAccepted, TypeOK
  <2> QED BY <2>1, <2>2
<1>12. ASSUME NEW e \in Entries, SubmitRejected(e) PROVE Goal
  <2>1. CASE f = e
    <3>1. /\ reg'[f].st = "REJECTED" /\ reg'[f].filled = reg[f].filled
          /\ disk'[f] = Saved(reg'[f])
      BY <1>0, <1>12, <2>1 DEF SubmitRejected, TypeOK, Record
    <3> QED BY <1>0, <1>4, <3>1 DEF Backed
  <2>2. CASE f # e
    BY <1>3, <1>12, <2>2 DEF SubmitRejected, TypeOK
  <2> QED BY <2>1, <2>2
<1>13. ASSUME Stop \/ \E e \in Entries : SubmitCrash(e) PROVE Goal
  <2>1. reg'[f] = NoEntry /\ disk'[f] = disk[f]
    BY <1>13 DEF Stop, SubmitCrash, MemoryLost
  <2> QED BY <1>0, <1>2, <1>5, <2>1
<1>14. AsksBroker(disk[f]) => \A h \in HistoryReads : h[f] \in HistoryAnswers(f, disk[f])
  <2>1. Hydrated(f, disk[f]) = disk[f]
    BY DEF Hydrated
  <2> QED BY <2>1 DEF HistoryReads, Reads
<1>15. f \notin FalseRejects /\ ~FalseRejectEvidence(f)
  BY DEF FalseRejects, FalseRejectEvidence
<1>16. ASSUME Startup PROVE Goal
  <2>1. PICK h \in HistoryReads :
           reg'[f] = Started(f, h[f]) /\ disk'[f] = StartedOnDisk(f, h[f])
    BY <1>15, <1>16 DEF Startup
  <2> QED BY <1>0, <1>2, <1>14, <2>1, StartedBacked
<1>17. ASSUME StartupCrash PROVE Goal
  <2>1. reg'[f] = reg[f]
    BY <1>17 DEF StartupCrash
  <2>2. PICK h \in HistoryReads :
           disk'[f] = disk[f] \/ disk'[f] = StartedOnDisk(f, h[f])
    BY <1>15, <1>17 DEF StartupCrash
  <2> QED BY <1>0, <1>2, <1>14, <2>1, <2>2, StartedBacked
<1>18. ASSUME NEW o \in Orders,
              \/ BrokerAccept(o) \/ BrokerRefuse(o)
              \/ \E v \in {1, Vol} : BrokerExecute(o, v)
              \/ BrokerCancel(o)
       PROVE  Goal
  BY <1>3, <1>18
     DEF BrokerAccept, BrokerRefuse, BrokerExecute, BrokerCancel, eaVars
<1>19. ASSUME NEW e \in Entries, Expire(e) PROVE Goal
  BY <1>3, <1>19 DEF Expire
<1>20. CASE UNCHANGED vars
  BY <1>3, <1>20 DEF vars, eaVars
<1> QED
  BY <1>6, <1>7, <1>8, <1>9, <1>10, <1>11, <1>12, <1>13, <1>16, <1>17, <1>18,
     <1>19, <1>20 DEF Next

\* Nothing is at the broker, and nothing is recorded, in the initial state.
LEMMA BackedInit == Init => BrokerOK /\ RecordsBacked
<1> SUFFICES ASSUME Init PROVE BrokerOK /\ RecordsBacked
  OBVIOUS
<1>1. \A o \in Orders : done[o] = 0 /\ ord[o] = "none"
  BY DEF Init
<1>2. BrokerOK
  BY <1>1, Sizes, ForeignOrders DEF BrokerOK, Init
<1>3. RecordsBacked
  BY DEF Init, RecordsBacked, Backed, NoEntry
<1> QED BY <1>2, <1>3

\* The broker's books and the backing of the records hold for ever.
THEOREM RecordsBackedCorrect == Spec => [](BrokerOK /\ RecordsBacked)
BY TypeCorrect, BackedInit, BrokerStep, BackedStep, PTL DEF Spec

\* No entry of the store is in flight or at an end, but rejected, unless its
\* request has left for the broker, whatever reads, transactions of other
\* orders, restarts and crashes say meanwhile.
THEOREM InFlightWasSentCorrect == Spec => []InFlightWasSent
<1>1. TypeOK /\ FileAgrees /\ RecordsBacked => InFlightWasSent
  BY DEF RecordsBacked, Backed, InFlightWasSent, FileAgrees
<1> QED
  BY <1>1, TypeCorrect, FileAgreesCorrect, RecordsBackedCorrect, PTL

\* A fill that the store records has a deal of the entry's own order behind
\* it, for every volume.
FillWasExecuted ==
    \A e \in Entries \ Close :
        /\ Alone(e)
        /\ disk[e].st \in {"FILLED", "PARTIALLY_FILLED"} \/ disk[e].filled > 0
        => done[e] > 0

\* No fill is recorded of an order that was not executed at all, whatever the
\* volume; a close by another order, a late read and a restart included.
THEOREM FillWasExecutedCorrect == Spec => []FillWasExecuted
<1>1. RecordsBacked => FillWasExecuted
  BY DEF RecordsBacked, Backed, FillWasExecuted
<1> QED
  BY <1>1, RecordsBackedCorrect, PTL

\* With one deal to an order, a filled entry was executed in full.
THEOREM FilledMeansExecutedCorrect ==
    ASSUME Vol = 1
    PROVE  Spec => []FilledMeansExecuted
<1>1. TypeOK /\ RecordsBacked => FilledMeansExecuted
  BY ForeignOrders DEF TypeOK, RecordsBacked, Backed, FilledMeansExecuted
<1> QED
  BY <1>1, TypeCorrect, RecordsBackedCorrect, PTL

-------------------------------------------------------------------------------
(***************************************************************************)
(* A rejection is recorded only of an order that is over.  It takes an EA  *)
(* that does not die between a send and its save, and deals that leave     *)
(* nothing to be executed, or no orders of others.                         *)
(***************************************************************************)

Over(e, r) == r.st = "REJECTED" => ord[e] \notin {"sent", "working"}

RejectionsOver ==
    \A e \in Entries \ Close : Alone(e) => Over(e, reg[e]) /\ Over(e, disk[e])

\* An order that is neither on its way nor in the book gets there only by
\* being sent.
LEMMA OrderStaysOver ==
    ASSUME TypeOK, [Next]_vars, NEW e \in Entries, sends'[e] = sends[e],
           ord[e] \notin {"sent", "working"}
    PROVE  ord'[e] \notin {"sent", "working"}
<1>0. e \in Orders /\ sends[e] \in Nat
  BY Sizes, ForeignOrders DEF TypeOK, MaxSends
<1>1. CASE \E o \in Orders : \/ BrokerAccept(o) \/ BrokerRefuse(o)
                             \/ \E v \in {1, Vol} : BrokerExecute(o, v)
                             \/ BrokerCancel(o)
  <2>1. \A o \in Orders : BrokerAccept(o) => o # e
    BY Sizes DEF BrokerAccept, Entries
  <2> QED
    BY <1>0, <1>1, <2>1
       DEF TypeOK, BrokerAccept, BrokerRefuse, BrokerExecute, BrokerCancel
<1>2. CASE \E f \in Entries :
              /\ sends' = [sends EXCEPT ![f] = @ + 1]
              /\ ord' = [ord EXCEPT ![f] = IF @ = "none" THEN "sent" ELSE @]
  BY <1>0, <1>2 DEF TypeOK
<1>3. CASE UNCHANGED ord
  BY <1>3
<1> QED BY <1>1, <1>2, <1>3, BrokerMove

\* While an entry is alone, an order that has left the book leaves the entry's
\* own over.
LEMMA LeftIsOver ==
    ASSUME Vol = 1 \/ X = 0, TypeOK, BrokerOK, NEW e \in Entries \ Close,
           Alone(e), NEW o \in Orders, ord[o] \in {"filled", "cancelled"}
    PROVE  ord[e] \notin {"sent", "working"}
<1>1. CASE o = e
  BY <1>1
<1>2. CASE o \in Entries /\ o # e
  BY <1>2 DEF Alone, BrokerOK
<1>3. CASE o \notin Entries
  <2>1. Vol = 1
    BY <1>3, Sizes DEF Orders, Entries
  <2>2. done[e] > 0
    BY <1>3, OnlyOwn
  <2>3. done[e] \in 0..Vol /\ e \in Orders
    BY ForeignOrders DEF TypeOK
  <2>4. done[e] = Vol
    BY <2>1, <2>2, <2>3
  <2> QED BY <2>3, <2>4 DEF BrokerOK
<1> QED BY <1>1, <1>2, <1>3

\* A read resolves to a rejection only when the order is over.
LEMMA ResolvedReject ==
    ASSUME Vol = 1 \/ X = 0, TypeOK, BrokerOK, NEW e \in Entries \ Close,
           Alone(e), NEW r \in Record, NEW h \in HistoryAnswers(e, r),
           Resolve(e, r, h) = "REJECTED"
    PROVE  ord[e] \notin {"sent", "working"}
<1>1. h.kind = "reject"
  BY DEF Resolve
<1>2. r.order # 0 /\ ord[r.order] = "cancelled"
  BY <1>1 DEF HistoryAnswers
<1>3. r.order \in Orders
  BY <1>2, Sizes DEF Record, Orders
<1> QED BY <1>2, <1>3, LeftIsOver

\* So what is settled on a read is rejected only when the order is over.
LEMMA SettledOver ==
    ASSUME Vol = 1 \/ X = 0, TypeOK, BrokerOK, NEW e \in Entries \ Close,
           Alone(e), NEW r \in Record, Over(e, r), NEW h \in HistoryAnswers(e, r),
           NEW v
    PROVE  Over(e, Settled(r, Resolve(e, r, h), v))
<1>1. Settled(r, Resolve(e, r, h), v).st = Target(Resolve(e, r, h))
  BY DEF Settled, Marked, Record
<1>2. CASE Resolve(e, r, h) = "REJECTED"
  BY <1>2, ResolvedReject DEF Over
<1>3. CASE Resolve(e, r, h) # "REJECTED"
  BY <1>1, <1>3 DEF Over, Target
<1> QED BY <1>2, <1>3

\* The codec keeps the status, and a forced partial fill is no rejection.
LEMMA SavedOver ==
    ASSUME NEW r \in Record, NEW e, NEW v
    PROVE  /\ Over(e, Saved(r)) <=> Over(e, r)
           /\ Over(e, ForcedPartial(r, v))
           /\ Over(e, Saved(ForcedPartial(r, v)))
BY DEF Over, Saved, ForcedPartial, Record

\* What the startup makes of a record is rejected only when the order is over.
LEMMA StartedOver ==
    ASSUME Vol = 1 \/ X = 0, TypeOK, BrokerOK, NEW e \in Entries \ Close,
           Alone(e), Over(e, disk[e]), NEW h,
           AsksBroker(disk[e]) => h \in HistoryAnswers(e, disk[e])
    PROVE  Over(e, Started(e, h)) /\ Over(e, StartedOnDisk(e, h))
<1> DEFINE r == disk[e]
           s == Resolve(e, r, h)
           v == MatchedVolume(r, h)
<1>1. Hydrated(e, disk[e]) = r /\ r \in Record
  BY DEF Hydrated, TypeOK
<1>2. CASE ~AsksBroker(r)
  BY <1>1, <1>2 DEF Started, StartedOnDisk
<1>3. CASE AsksBroker(r) /\ s = "PARTIALLY_FILLED"
  <2>1. Started(e, h) = r /\ StartedOnDisk(e, h) = Saved(ForcedPartial(r, v))
    BY <1>1, <1>3 DEF Started, StartedOnDisk
  <2> QED BY <1>1, <2>1, SavedOver
<1>4. CASE AsksBroker(r) /\ s # "PARTIALLY_FILLED" /\ MaySettle(r, s)
  <2>1. /\ Started(e, h) = Settled(r, s, v)
        /\ StartedOnDisk(e, h) = Saved(Settled(r, s, v))
    BY <1>1, <1>4 DEF Started, StartedOnDisk
  <2> QED BY <1>1, <1>4, <2>1, SettledOver, SettledType, SavedOver
<1>5. CASE AsksBroker(r) /\ s # "PARTIALLY_FILLED" /\ ~MaySettle(r, s)
  BY <1>1, <1>5 DEF Started, StartedOnDisk
<1> QED BY <1>2, <1>3, <1>4, <1>5

\* Every step keeps it so: a rejection is written of an order that is over,
\* and an order that is over is not sent again.
LEMMA OverStep ==
    ASSUME ~MayCrash, Vol = 1 \/ X = 0
    PROVE  TypeOK /\ FileAgrees /\ UnsentIfPrepared /\ BrokerOK /\ RejectionsOver
              /\ [Next]_vars => RejectionsOver'
<1> SUFFICES ASSUME TypeOK, FileAgrees, UnsentIfPrepared, BrokerOK,
                    RejectionsOver, [Next]_vars,
                    NEW f \in Entries \ Close, Alone(f)'
             PROVE  Over(f, reg[f])' /\ Over(f, disk[f])'
  BY DEF RejectionsOver
<1> DEFINE Goal == Over(f, reg[f])' /\ Over(f, disk[f])'
<1>0. /\ Alone(f) /\ Over(f, reg[f]) /\ Over(f, disk[f]) /\ Agrees(f)
      /\ reg[f] \in Record /\ disk[f] \in Record
      /\ reg'[f] \in Record /\ disk'[f] \in Record
  BY AloneBefore, TypeStep, AgreesDef DEF RejectionsOver, TypeOK
<1>1. CASE sends'[f] # sends[f]
  <2>1. SubmitAccepted(f)
    BY <1>1, OnlySubmissionSends DEF SubmitCrash
  <2>2. disk'[f] = Saved(reg'[f]) /\ reg'[f].st = "SUBMITTED"
    BY <1>0, <2>1 DEF SubmitAccepted, TypeOK, Record
  <2> QED BY <1>0, <2>2, SavedFacts DEF Over
<1>2. CASE sends'[f] = sends[f]
  <2>1. ASSUME Over(f, reg'[f]), Over(f, disk'[f]) PROVE Goal
    BY <1>2, <2>1, OrderStaysOver DEF Over
  <2>2. ASSUME reg'[f] = reg[f], disk'[f] = disk[f] PROVE Goal
    BY <1>0, <2>1, <2>2
  <2>3. ASSUME Over(f, reg'[f]), disk'[f] = disk[f] \/ disk'[f] = Saved(reg'[f])
        PROVE  Goal
    BY <1>0, <2>1, <2>3, SavedOver
  <2>4. ASSUME reg'[f].st # "REJECTED",
               disk'[f] = disk[f] \/ disk'[f] = Saved(reg'[f])
        PROVE  Goal
    BY <2>3, <2>4 DEF Over
  <2>5. ASSUME NEW tx \in inbox, Deliver(tx) PROVE Goal
    <3>1. PICK e \in Correlated(reg, tx) :
             /\ Accepts(reg[e], tx)
             /\ LET reg2 == [reg EXCEPT ![e] = Applied(@, tx)] IN
                 /\ reg' = reg2
                 /\ disk' = [disk EXCEPT ![e] = Saved(reg2[e])]
      BY <2>5 DEF Deliver
    <3>2. e \in Entries
      BY DEF Correlated
    <3>3. CASE f = e
      <4>1. reg'[f] = Applied(reg[f], tx) /\ disk'[f] = Saved(reg'[f])
        BY <3>1, <3>2, <3>3 DEF TypeOK
      <4>2. reg'[f].st = Proposed(reg[f], tx)
        BY <1>0, <4>1 DEF Applied, Record
      <4>3. CASE tx.type = "ORDER_DELETE"
        <5>1. tx.order \in Orders /\ ord[tx.order] \in {"filled", "cancelled"}
          BY <4>3 DEF BrokerOK, TypeOK, Transaction
        <5>2. ord[f] \notin {"sent", "working"}
          BY <1>0, <5>1, LeftIsOver
        <5> QED BY <2>3, <4>1, <5>2 DEF Over
      <4>4. CASE tx.type # "ORDER_DELETE"
        BY <2>4, <4>1, <4>2, <4>4 DEF Proposed
      <4> QED BY <4>3, <4>4
    <3>4. CASE f # e
      BY <2>2, <3>1, <3>2, <3>4 DEF TypeOK
    <3> QED BY <3>3, <3>4
  <2>6. ASSUME ScanDueTimeouts PROVE Goal
    <3>1. PICK h \in Reads({e \in Entries : DueForScan(e)}, reg) :
             /\ reg'[f] = IF DueForScan(f) THEN Scanned(f, h[f]) ELSE reg[f]
             /\ disk'[f] = IF DueForScan(f) /\ ScanSaves(f, h[f])
                           THEN Saved(Scanned(f, h[f])) ELSE disk[f]
      BY <2>6 DEF ScanDueTimeouts
    <3>2. CASE DueForScan(f)
      <4>1. h[f] \in HistoryAnswers(f, reg[f])
        BY <3>2, ReadsAnswer
      <4>2. Over(f, Scanned(f, h[f]))
        BY <1>0, <4>1, SettledOver, SavedOver DEF Scanned
      <4> QED BY <2>3, <3>1, <3>2, <4>2
    <3>3. CASE ~DueForScan(f)
      BY <2>2, <3>1, <3>3
    <3> QED BY <3>2, <3>3
  <2>7. ASSUME ProcessBatch PROVE Goal
    <3>1. \/ reg'[f] = reg[f] /\ disk'[f] = disk[f]
          \/ \E h \in HistoryAnswers(f, reg[f]) : \E v :
                /\ reg'[f] = Settled(reg[f], Resolve(f, reg[f], h), v)
                /\ disk'[f] = Saved(reg'[f])
      BY <2>7, BatchOutcome
    <3>2. ASSUME NEW h \in HistoryAnswers(f, reg[f]), NEW v,
                 reg'[f] = Settled(reg[f], Resolve(f, reg[f], h), v),
                 disk'[f] = Saved(reg'[f])
          PROVE  Goal
      BY <1>0, <2>3, <3>2, SettledOver
    <3> QED BY <2>2, <3>1, <3>2
  <2>8. ASSUME NEW e \in Entries, Prepare(e) PROVE Goal
    <3>1. CASE f = e
      <4>1. reg'[f].st = "QUEUED" /\ disk'[f] = Saved(reg'[f])
        BY <1>0, <2>8, <3>1 DEF Prepare, TypeOK, Record
      <4> QED BY <2>4, <4>1
    <3>2. CASE f # e
      BY <2>2, <2>8, <3>2 DEF Prepare, TypeOK
    <3> QED BY <3>1, <3>2
  <2>9. ASSUME NEW e \in Entries, PrepareFails(e) PROVE Goal
    <3>1. disk'[f] = disk[f] /\ (reg'[f] = Blank \/ reg'[f] = reg[f])
      BY <2>9 DEF PrepareFails, TypeOK
    <3> QED BY <2>2, <2>4, <3>1 DEF Blank, NoEntry
  <2>10. ASSUME NEW e \in Entries, SubmitAccepted(e) PROVE Goal
    <3>1. f # e
      BY <1>2, <2>10, Sizes DEF SubmitAccepted, Send, TypeOK, MaxSends
    <3> QED BY <2>2, <2>10, <3>1 DEF SubmitAccepted, TypeOK
  <2>11. ASSUME NEW e \in Entries, SubmitRejected(e) PROVE Goal
    <3>1. CASE f = e
      <4>1. disk'[f] = Saved(reg'[f])
        BY <2>11, <3>1 DEF SubmitRejected, TypeOK
      <4>2. disk[f].st = "QUEUED"
        BY <2>11, <3>1, SubmittedIsQueued DEF SubmitRejected
      <4>3. ord[f] = "none"
        BY <4>2 DEF UnsentIfPrepared, BrokerOK
      <4> QED BY <2>3, <4>1, <4>3 DEF Over
    <3>2. CASE f # e
      BY <2>2, <2>11, <3>2 DEF SubmitRejected, TypeOK
    <3> QED BY <3>1, <3>2
  <2>12. ASSUME Stop PROVE Goal
    BY <2>4, <2>12 DEF Stop, MemoryLost, NoEntry
  <2>13. AsksBroker(disk[f]) => \A h \in HistoryReads : h[f] \in HistoryAnswers(f, disk[f])
    BY DEF HistoryReads, Reads, Hydrated
  <2>14. f \notin FalseRejects /\ ~FalseRejectEvidence(f)
    BY DEF FalseRejects, FalseRejectEvidence
  <2>15. ASSUME Startup PROVE Goal
    <3>1. PICK h \in HistoryReads :
             reg'[f] = Started(f, h[f]) /\ disk'[f] = StartedOnDisk(f, h[f])
      BY <2>14, <2>15 DEF Startup
    <3> QED BY <1>0, <2>1, <2>13, <3>1, StartedOver
  <2>16. ASSUME NEW o \in Orders,
                \/ BrokerAccept(o) \/ BrokerRefuse(o)
                \/ \E v \in {1, Vol} : BrokerExecute(o, v)
                \/ BrokerCancel(o)
         PROVE  Goal
    BY <2>2, <2>16
       DEF BrokerAccept, BrokerRefuse, BrokerExecute, BrokerCancel, eaVars
  <2>17. ASSUME NEW e \in Entries, Expire(e) PROVE Goal
    BY <2>2, <2>17 DEF Expire
  <2>18. CASE UNCHANGED vars
    BY <2>2, <2>18 DEF vars, eaVars
  <2> QED
    BY <2>5, <2>6, <2>7, <2>8, <2>9, <2>10, <2>11, <2>12, <2>15, <2>16, <2>17,
       <2>18 DEF Next, SubmitCrash, StartupCrash
<1> QED BY <1>1, <1>2

\* The store holds no entry as rejected whose order could still be executed.
THEOREM RejectedIsOverCorrect ==
    ASSUME ~MayCrash, Vol = 1 \/ X = 0
    PROVE  Spec => []RejectedIsOver
<1>1. Init => UnsentIfPrepared /\ RejectionsOver
  BY DEF Init, UnsentIfPrepared, RejectionsOver, Over, NoEntry
<1>2. TypeOK /\ FileAgrees /\ UnsentIfPrepared /\ [Next]_vars
         => UnsentIfPrepared'
  BY UnsentStep
<1>3. TypeOK /\ FileAgrees /\ UnsentIfPrepared /\ BrokerOK /\ RejectionsOver
         /\ [Next]_vars => RejectionsOver'
  BY OverStep
<1>4. RejectionsOver => RejectedIsOver
  BY DEF RejectionsOver, Over, RejectedIsOver
<1> QED
  BY <1>1, <1>2, <1>3, <1>4, TypeCorrect, FileAgreesCorrect,
     RecordsBackedCorrect, PTL DEF Spec
===============================================================================
