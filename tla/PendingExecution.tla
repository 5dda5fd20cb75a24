--------------------------- MODULE PendingExecution ---------------------------
(***************************************************************************)
(* The life of the broker executions the EA has asked for: preparation,    *)
(* submission, correlation of asynchronous trade transactions, the timeout *)
(* monitor and the reconciliation scheduler driven by OnTimer, and the     *)
(* reconciliation of persisted entries when the EA starts again.           *)
(*                                                                         *)
(* An MQL5 program is single threaded, so one event handler (OnTimer,      *)
(* OnTradeTransaction, a submission) is one action, except that OnTimer is *)
(* two: the broker may move between the timeout scan and the batch.  The   *)
(* broker runs by itself; its transactions reach the EA in any order, any  *)
(* number of times or never, and are lost while the EA is down.            *)
(***************************************************************************)
EXTENDS ExecutionStatus, FiniteSets, FiniteSetsExt

CONSTANTS
    N,              \* entries 1..N, numbered in the order they are first saved
    X,              \* orders N+1..N+X of others: N+p closes p's position
    Vol,            \* volume every entry requests; a deal is one unit, or all
    Close,          \* the entries whose intent is CLOSE_POSITION
    BatchSize,      \* CExecutionReconciliationScheduler's m_maxBatchSize
    MayCrash        \* may the EA die inside a handler?

ASSUME EntryCount == N \in Nat \ {0}
ASSUME ForeignCount == X \in 0..N
ASSUME VolumeUnits == Vol \in Nat \ {0}
ASSUME CloseAreEntries == Close \subseteq 1..N
ASSUME BatchIsPositive == BatchSize \in Nat \ {0}
ASSUME CrashIsBoolean == MayCrash \in BOOLEAN

Entries == 1..N
Orders  == 1..(N + X)
NoDeal  == <<0, 0>>
MaxFill == Vol + 1      \* bound: all volumes from here on are alike
MaxSends == 2           \* bound on broker sends of one entry

VARIABLES
    reg,        \* CPendingExecutionRegistry: entry -> record (memory)
    disk,       \* the pending execution store: entry -> record (file)
    processed,  \* m_processedKeys: transactions applied in this session
    queue,      \* the reconciliation scheduler's m_queue
    notified,   \* entries OnBrokerFillConfirmed was called for, this session
    front,      \* entries a restart registered ahead of the others
    phase,      \* "idle", "batch" (inside OnTimer) or "down"
    age,        \* 0 before the deadline, 1 after, 2 evidence window over
    sends,      \* number of times an entry was sent to the broker
    ord,        \* the broker's state of each order
    done,       \* executed units of each order, which also number its deals
    whole,      \* the orders executed by a single deal
    inbox       \* transactions this session's EA may still be given

eaVars == <<reg, disk, processed, queue, notified, front, phase, age>>
brokerVars == <<ord, done, whole, inbox>>
vars == <<eaVars, sends, brokerVars>>

OrderState == {"none", "sent", "refused", "working", "filled", "cancelled"}
Phase == {"idle", "batch", "down"}

Record ==
    [st : Status, filled : 0..MaxFill, order : 0..(N + X),
     deal : (0..(N + X)) \X (0..Vol), ticket : 0..N]

Transaction ==
    [type : {"ORDER_ADD", "DEAL_ADD", "ORDER_DELETE"}, order : Orders,
     deal : 0..Vol]

NoEntry == [st |-> "NONE", filled |-> 0, order |-> 0, deal |-> NoDeal,
            ticket |-> 0]
Blank == [NoEntry EXCEPT !.st = "CREATED"]

Capped(v) == IF v \in 0..MaxFill THEN v ELSE MaxFill

\* The position an order opens or closes, and its open volume: positions to
\* be closed start full, the others start empty.
Position(o) == IF o > N THEN o - N ELSE o
Closing(o) == o > N \/ o \in Close
Exited(p) == IF p + N \in Orders THEN done[p + N] ELSE 0
OpenVolume(p) ==
    IF p \in Close THEN Vol - done[p] - Exited(p) ELSE done[p] - Exited(p)

TypeOK ==
    /\ reg \in [Entries -> Record]
    /\ disk \in [Entries -> Record]
    /\ processed \subseteq Transaction
    /\ queue \subseteq Entries
    /\ notified \subseteq Entries
    /\ front \subseteq Entries
    /\ phase \in Phase
    /\ age \in [Entries -> 0..2]
    /\ sends \in [Entries -> 0..MaxSends]
    /\ ord \in [Orders -> OrderState]
    /\ done \in [Orders -> 0..Vol]
    /\ whole \subseteq {o \in Orders : done[o] = Vol}
    /\ inbox \subseteq Transaction
-------------------------------------------------------------------------------
(***************************************************************************)
(* Records: what is written to the file, and what is read back from it.    *)
(***************************************************************************)

\* CPendingExecutionPersistenceCodec keeps no position ticket.
Saved(r) == [r EXCEPT !.ticket = 0]

\* CPendingExecutionReconciliationHydrator: the ticket of a close request is
\* in its envelope.
Hydrated(e, r) ==
    IF r.st # "NONE" /\ e \in Close THEN [r EXCEPT !.ticket = e] ELSE r

HasKnownFill(r) == r.st = "FILLED" \/ r.filled > 0

-------------------------------------------------------------------------------
(***************************************************************************)
(* Correlation of a trade transaction with an entry, and its application.  *)
(***************************************************************************)

\* The close request whose comment the normalizer finds on tx, 0 if none: the
\* comment of an order can be read only while the order is open, that of a
\* deal always, and only profit-close comments decide a match.
CommentOwner(tx) ==
    IF /\ tx.order \in Close
       /\ \/ tx.type = "DEAL_ADD"
          \/ tx.type = "ORDER_ADD" /\ ord[tx.order] = "working"
    THEN tx.order ELSE 0

\* The position a transaction names: an order that opens one names it only
\* once it has been executed.
PositionOf(tx) ==
    IF Closing(tx.order) \/ tx.type = "DEAL_ADD"
       \/ (tx.type = "ORDER_DELETE" /\ done[tx.order] > 0)
    THEN Position(tx.order) ELSE 0

\* enum value >= SUBMITTED
ReachedSubmitted(s) == s \notin {"NONE", "CREATED", "QUEUED"}

\* CPendingExecutionCorrelationMatcher::TryMatch.  All entries trade one
\* symbol; a blank entry has neither symbol nor comment.
TryMatch(r, e, tx) ==
    /\ r.st \notin {"NONE", "CREATED"}
    /\ IF CommentOwner(tx) # 0
       THEN CommentOwner(tx) = e /\ r.st \notin Terminal
       ELSE \/ r.order = tx.order
            \/ r.order = 0 /\ r.st = "SUBMITTED"
            \/ tx.deal > 0 /\ r.deal = <<tx.order, tx.deal>>
            \/ tx.deal > 0 /\ r.deal = NoDeal /\ ReachedSubmitted(r.st)
            \/ PositionOf(tx) > 0 /\ r.ticket = PositionOf(tx)
            \/ PositionOf(tx) > 0 /\ r.ticket = 0

\* Order of the registry's array.
Precedes(e, f) ==
    \/ e \in front /\ f \notin front
    \/ (e \in front <=> f \in front) /\ e < f

\* CPendingExecutionRegistry::TryCorrelate: the first entry that matches.
Correlated(registry, tx) ==
    {e \in Entries :
        /\ TryMatch(registry[e], e, tx)
        /\ \A f \in Entries \ {e} :
              TryMatch(registry[f], f, tx) => Precedes(e, f)}

\* The volume of the deal a transaction reports.
DealVolume(tx) == IF tx.order \in whole THEN Vol ELSE 1

\* An order that has left the book is taken to be executed.
ProposedDeleteFills(r, tx) ==
    CASE tx.type = "ORDER_DELETE" -> "FILLED"
      [] tx.type = "DEAL_ADD" ->
            IF r.filled + DealVolume(tx) >= Vol THEN "FILLED" ELSE "PARTIALLY_FILLED"
      [] OTHER -> IF r.st = "RECONCILING" THEN "NONE" ELSE "ACKNOWLEDGED"

\* The status a transaction proposes for r ("NONE" when its type proposes none).
Proposed(r, tx) ==
    CASE tx.type = "ORDER_DELETE" -> "REJECTED"
      [] tx.type = "DEAL_ADD" ->
            IF r.filled + DealVolume(tx) >= Vol THEN "FILLED" ELSE "PARTIALLY_FILLED"
      [] OTHER -> IF r.st = "RECONCILING" THEN "NONE" ELSE "ACKNOWLEDGED"

Accepts(r, tx) ==
    Proposed(r, tx) # "NONE" /\ CanTransition(r.st, Proposed(r, tx))

\* CPendingExecutionTransactionApplicator: a late transaction of a reconciling
\* entry leaves the broker ids alone.
Applied(r, tx) ==
    LET fill == IF tx.type = "DEAL_ADD" THEN Capped(r.filled + DealVolume(tx))
                ELSE r.filled
    IN  IF r.st = "RECONCILING"
        THEN [r EXCEPT !.st = Proposed(r, tx), !.filled = fill]
        ELSE [r EXCEPT
                !.st = Proposed(r, tx),
                !.filled = fill,
                !.order = IF @ = 0 THEN tx.order ELSE @,
                !.deal = IF tx.deal > 0 THEN <<tx.order, tx.deal>> ELSE @,
                !.ticket = IF PositionOf(tx) > 0 THEN PositionOf(tx) ELSE @]

\* CApplicationContext::ApplyNormalizedTransaction.  A transaction that is a
\* duplicate, matches no entry or is out of order changes nothing; the fill
\* notifier is called for the entry a second correlation finds.
Deliver(tx) ==
    /\ phase = "idle"
    /\ tx \in inbox \ processed
    /\ \E e \in Correlated(reg, tx) :
        /\ Accepts(reg[e], tx)
        /\ LET reg2 == [reg EXCEPT ![e] = Applied(@, tx)] IN
            /\ reg' = reg2
            /\ disk' = [disk EXCEPT ![e] = Saved(reg2[e])]
            /\ notified' = notified \cup
                  {f \in Correlated(reg2, tx) : reg2[f].st = "FILLED"}
    /\ processed' = processed \cup {tx}
    /\ UNCHANGED <<queue, front, phase, age, sends, brokerVars>>

-------------------------------------------------------------------------------
(***************************************************************************)
(* What the broker answers to a read, and how it is judged.                *)
(***************************************************************************)

\* CExecutionReconciliationResolver::QueryCurrentOpenMatch: a known ticket
\* selects one open position, none selects every open position of the EA's
\* magic number and symbol.
Matching(r) ==
    {p \in (IF r.ticket # 0 THEN {r.ticket} ELSE Entries) : OpenVolume(p) > 0}

OpenMatch(r) == MapThenSumSet(OpenVolume, Matching(r))

\* CMt5BrokerExecutionHistoryReader::CorrelateExecutionHistory: the answers
\* it can give for r.  The order it holds, or its own comment, selects the
\* deals; a partial history selects some of them.  It has no cancellation and
\* no failure evidence.
HistoryAnswers(e, r) ==
    LET o == IF r.order # 0 THEN r.order ELSE e
        Answer(kind, v) == [kind |-> kind, vol |-> v]
    IN  IF r.order # 0 /\ ord[o] = "working"
        THEN {Answer("open_pending_order", 0)}
        ELSE {Answer("unavailable", 0)}
             \cup (IF done[o] > 0
                   THEN {Answer("fill", v) :
                            v \in IF o \in whole THEN {Vol} ELSE 1..done[o]}
                        \cup {Answer("ambiguous", 0)}
                   ELSE {Answer("none", 0)})
             \cup (IF r.order # 0 /\ ord[o] = "cancelled" /\ done[o] = 0
                   THEN {Answer("reject", 0)} ELSE {})

Answers == [kind : {"open_pending_order", "unavailable", "fill", "ambiguous",
                    "none", "reject"}, vol : 0..Vol]

\* Answers for the entries of E, whose records are those of registry.
Reads(E, registry) ==
    {h \in [Entries -> Answers] :
        \A e \in Entries :
            h[e] \in IF e \in E THEN HistoryAnswers(e, registry[e])
                     ELSE {[kind |-> "none", vol |-> 0]}}

\* An order that history does not show is taken to be rejected.
ResolveMissingRejected(e, r, h) ==
    LET FillOf(v) == IF v >= Vol THEN "FILLED" ELSE "PARTIALLY_FILLED"
    IN  CASE r.filled > 0 -> FillOf(r.filled)
          [] r.filled = 0 /\ r.st = "FILLED" -> "FILLED"
          [] ~HasKnownFill(r) /\ Matching(r) # {} -> FillOf(OpenMatch(r))
          [] OTHER ->
                CASE h.kind = "open_pending_order" -> "UNKNOWN"
                  [] h.kind = "fill" -> FillOf(h.vol)
                  [] h.kind \in {"reject", "none"} -> "REJECTED"
                  [] OTHER -> "RECONCILING"

\* CExecutionReconciliationResolver::Decide.
Resolve(e, r, h) ==
    LET FillOf(v) == IF v >= Vol THEN "FILLED" ELSE "PARTIALLY_FILLED"
    IN  CASE r.filled > 0 -> FillOf(r.filled)
          [] r.filled = 0 /\ r.st = "FILLED" -> "FILLED"
          [] ~HasKnownFill(r) /\ Matching(r) # {} -> FillOf(OpenMatch(r))
          [] OTHER ->
                CASE h.kind = "open_pending_order" -> "UNKNOWN"
                  [] h.kind = "fill" -> FillOf(h.vol)
                  [] h.kind = "reject" -> "REJECTED"
                  [] h.kind = "none" /\ age[e] = 2 -> "TIMED_OUT"
                  [] OTHER -> "RECONCILING"

\* matchedVolumeOut of ResolveWithReport, 0 when nothing was matched.
MatchedVolume(r, h) ==
    IF Matching(r) # {} THEN OpenMatch(r)
    ELSE IF h.kind = "fill" THEN h.vol ELSE r.filled

\* CPendingExecutionLifecycleService::ApplyStatus: does it succeed, and what
\* does it make of r?  Only MarkFilled and MarkUnknownReconciling may use the
\* gate for broker reads.
MayMark(r, s, brokerRead) ==
    \/ r.st = s
    \/ /\ r.st \notin Terminal
       /\ CanTransition(r.st, s)
          \/ (brokerRead /\ CanResolveFromBrokerRead(r.st, s))

Marked(r, s, v) ==
    IF r.st = s THEN r
    ELSE [r EXCEPT !.st = s, !.filled = IF v > 0 THEN Capped(v) ELSE @]

\* MarkFilled, MarkUnknownReconciling and the other Mark* operations, chosen by
\* what Resolve says; UNKNOWN is treated as RECONCILING.
Target(s) == IF s = "UNKNOWN" THEN "RECONCILING" ELSE s
MaySettle(r, s) == MayMark(r, Target(s), Target(s) \in {"FILLED", "RECONCILING"})
Settled(r, s, v) == Marked(r, Target(s), IF s = "FILLED" THEN v ELSE 0)

\* The assignments of a partial fill go round every rule.
ForcedPartial(r, v) ==
    [r EXCEPT !.st = "PARTIALLY_FILLED", !.filled = Capped(v)]

-------------------------------------------------------------------------------
(***************************************************************************)
(* OnTimer: the timeout scan, then the reconciliation batch.               *)
(***************************************************************************)

\* RECONCILING is scanned like any other open status.
DueForScanReconciling(e) ==
    /\ reg[e].st \notin Terminal \cup {"NONE", "CREATED"}
    /\ age[e] >= 1

\* An acknowledged order is left to its transactions.
DueForScanUnacknowledged(e) ==
    /\ reg[e].st \notin Terminal \cup
          {"NONE", "CREATED", "RECONCILING", "ACKNOWLEDGED"}
    /\ age[e] >= 1

\* IsPendingTimeout, and the two statuses ScanDueTimeouts skips.
DueForScan(e) ==
    /\ reg[e].st \notin Terminal \cup {"NONE", "CREATED", "RECONCILING"}
    /\ age[e] >= 1

\* What the scan makes of a due entry, and whether it saves the result.
Scanned(e, h) ==
    LET r == reg[e]
        s == Resolve(e, r, h)
        v == MatchedVolume(r, h)
    IN  IF s = "PARTIALLY_FILLED" THEN ForcedPartial(r, v)
        ELSE IF MaySettle(r, s) THEN Settled(r, s, v) ELSE r

\* A partial fill is written like a settled status: only if the rules allow it.
ScanSavesByRule(e, h) == MaySettle(reg[e], Resolve(e, reg[e], h))

ScanSaves(e, h) ==
    LET s == Resolve(e, reg[e], h)
    IN  s = "PARTIALLY_FILLED" \/ MaySettle(reg[e], s)

\* CExecutionTimeoutMonitor::ScanDueTimeouts.  The notifier is not called.
ScanDueTimeouts ==
    /\ phase = "idle"
    /\ phase' = "batch"
    /\ LET due == {e \in Entries : DueForScan(e)} IN
       \E h \in Reads(due, reg) :
        /\ reg' = [e \in Entries |->
              IF e \in due THEN Scanned(e, h[e]) ELSE reg[e]]
        /\ disk' = [e \in Entries |->
              IF e \in due /\ ScanSaves(e, h[e])
              THEN Saved(Scanned(e, h[e])) ELSE disk[e]]
        /\ queue' = queue \cup
              {e \in due : Scanned(e, h[e]).st = "RECONCILING"}
    /\ UNCHANGED <<processed, notified, front, age, sends, brokerVars>>

\* CExecutionReconciliationScheduler::ApplyResolvedStatus: an unresolved
\* entry is left alone, and a partial fill is refused by the rank rule.
BatchApplies(e, h) ==
    LET s == Resolve(e, reg[e], h)
    IN  /\ s \notin {"UNKNOWN", "RECONCILING", "PARTIALLY_FILLED"}
        /\ MaySettle(reg[e], s)

\* CExecutionReconciliationScheduler::ProcessBatch: what has been looked at
\* leaves the queue whatever came of it.
ProcessBatch ==
    /\ phase = "batch"
    /\ phase' = "idle"
    /\ \E batch \in SUBSET queue :
       LET work == {e \in batch : reg[e].st = "RECONCILING"} IN
       \E h \in Reads(work, reg) :
        LET applied == {e \in work : BatchApplies(e, h[e])}
            Result(e) == Settled(reg[e], Resolve(e, reg[e], h[e]),
                                 MatchedVolume(reg[e], h[e]))
        IN
        /\ batch = queue \/ Cardinality(batch) = BatchSize
        /\ Cardinality(batch) <= BatchSize
        /\ reg' = [e \in Entries |->
              IF e \in applied THEN Result(e) ELSE reg[e]]
        /\ disk' = [e \in Entries |->
              IF e \in applied THEN Saved(Result(e)) ELSE disk[e]]
        /\ notified' = notified \cup
              {e \in applied : Result(e).st = "FILLED"}
        /\ queue' = queue \ batch
    /\ UNCHANGED <<processed, front, age, sends, brokerVars>>

-------------------------------------------------------------------------------
(***************************************************************************)
(* Preparation and submission.                                             *)
(***************************************************************************)

\* A rejected request may be prepared again.
MayPrepareRejected(e) ==
    /\ phase = "idle"
    /\ \A f \in 1..(e - 1) : disk[f].st # "NONE"
    /\ \/ reg[e].st \in {"NONE", "CREATED", "REJECTED"}
       \/ reg[e].st = "QUEUED" /\ age[e] >= 1

\* The requests preparation goes through with: new, failed before, or queued
\* with an envelope that has expired.  The submission services turn the
\* others away.
MayPrepare(e) ==
    /\ phase = "idle"
    /\ \A f \in 1..(e - 1) : disk[f].st # "NONE"
    /\ \/ reg[e].st \in {"NONE", "CREATED"}
       \/ reg[e].st = "QUEUED" /\ age[e] >= 1

\* CExecutionSubmissionPreparer::Prepare succeeds.
Prepare(e) ==
    /\ MayPrepare(e)
    /\ reg' = [reg EXCEPT ![e].st = "QUEUED"]
    /\ disk' = [disk EXCEPT ![e] = Saved(reg'[e])]
    /\ age' = [age EXCEPT ![e] = 0]
    /\ UNCHANGED <<processed, queue, notified, front, phase, sends, brokerVars>>

\* Prepare fails: FailEntry puts a fresh record in the registry, whatever was
\* there, and saves nothing.
PrepareFails(e) ==
    /\ MayPrepare(e)
    /\ reg' = [reg EXCEPT ![e] = Blank]
    /\ UNCHANGED <<disk, processed, queue, notified, front, phase, age, sends,
                   brokerVars>>

\* The status test has forgotten that a submitted request is on its way.
SubmittableTwice(e) ==
    phase = "idle" /\ reg[e].st \in {"QUEUED", "SUBMITTED"} /\ age[e] = 0

\* PreparedSubmissionValidator: queued, and the envelope has not expired.
Submittable(e) ==
    phase = "idle" /\ reg[e].st = "QUEUED" /\ age[e] = 0

\* OrderSendAsync: the request leaves for the broker.
Send(e) ==
    /\ sends[e] < MaxSends
    /\ sends' = [sends EXCEPT ![e] = @ + 1]
    /\ ord' = [ord EXCEPT ![e] = IF @ = "none" THEN "sent" ELSE @]
    /\ UNCHANGED <<done, whole, inbox>>

\* CSubmitPreparedExecutionUseCase::Execute, accepted by the gateway; an
\* asynchronous result need not carry the order's id yet.
SubmitAccepted(e) ==
    /\ Submittable(e)
    /\ Send(e)
    /\ \E o \in {0, e} :
        reg' = [reg EXCEPT ![e].st = "SUBMITTED", ![e].order = o]
    /\ disk' = [disk EXCEPT ![e] = Saved(reg'[e])]
    /\ UNCHANGED <<processed, queue, notified, front, phase, age>>

\* Rejected by the gateway, before or by OrderSendAsync.
SubmitRejected(e) ==
    /\ Submittable(e)
    /\ reg' = [reg EXCEPT ![e].st = "REJECTED"]
    /\ disk' = [disk EXCEPT ![e] = Saved(reg'[e])]
    /\ UNCHANGED <<processed, queue, notified, front, phase, age, sends,
                   brokerVars>>

\* What a restart finds gone: everything that was kept in memory.
MemoryLost ==
    /\ phase' = "down"
    /\ reg' = [e \in Entries |-> NoEntry]
    /\ processed' = {}
    /\ queue' = {}
    /\ notified' = {}
    /\ front' = {}
    /\ UNCHANGED age

\* The EA dies after the send, before the entry is saved as SUBMITTED.
SubmitCrash(e) ==
    /\ MayCrash
    /\ Submittable(e)
    /\ sends[e] < MaxSends
    /\ sends' = [sends EXCEPT ![e] = @ + 1]
    /\ ord' = [ord EXCEPT ![e] = IF @ = "none" THEN "sent" ELSE @]
    /\ inbox' = {}
    /\ MemoryLost
    /\ UNCHANGED <<disk, done, whole>>

-------------------------------------------------------------------------------
(***************************************************************************)
(* The EA stops and starts again.                                          *)
(***************************************************************************)

\* OnDeinit, or the death of the terminal between two handlers.
Stop ==
    /\ phase # "down"
    /\ inbox' = {}
    /\ MemoryLost
    /\ UNCHANGED <<disk, sends, ord, done, whole>>

\* A deal of any volume is taken for the whole close.
FalseRejectAnyVolume(e) ==
    /\ e \in Close
    /\ disk[e].st = "REJECTED"
    /\ disk[e].order = e
    /\ done[e] > 0

\* TryFindFalseRejectedHistoryEvidence: history may show that the order of a
\* rejected close request was executed in full by exactly one deal.
FalseRejectEvidence(e) ==
    /\ e \in Close
    /\ disk[e].st = "REJECTED"
    /\ disk[e].order = e
    /\ e \in whole

\* ForceRejectedToReconciling, then MarkFilled.
Forced(e) ==
    [Hydrated(e, disk[e]) EXCEPT !.st = "RECONCILING", !.deal = <<e, Vol>>]
Recovered(e) == Marked(Forced(e), "FILLED", Vol)

\* The entries ReconcileEntry asks the broker about.
AsksBroker(r) == r.st \notin Terminal \cup {"NONE", "CREATED", "QUEUED"}

\* ReconcilePersistedEntries, one entry: the record it leaves in the registry.
Started(e, h) ==
    LET r == Hydrated(e, disk[e])
        s == Resolve(e, r, h)
    IN  IF AsksBroker(r) /\ s # "PARTIALLY_FILLED" /\ MaySettle(r, s)
        THEN Settled(r, s, MatchedVolume(r, h))
        ELSE r

\* The record it leaves in the file: a partial fill reaches only the file.
StartedOnDisk(e, h) ==
    LET r == Hydrated(e, disk[e])
        s == Resolve(e, r, h)
    IN  IF ~AsksBroker(r) THEN disk[e]
        ELSE IF s = "PARTIALLY_FILLED"
             THEN Saved(ForcedPartial(r, MatchedVolume(r, h)))
        ELSE IF MaySettle(r, s) THEN Saved(Started(e, h)) ELSE disk[e]

HistoryReads ==
    Reads({e \in Entries : AsksBroker(disk[e])},
          [e \in Entries |-> Hydrated(e, disk[e])])

FalseRejects == {e \in Entries : FalseRejectEvidence(e)}

\* The composition root: RestorePreparedEntries registers the queued entries,
\* then ReconcilePersistedEntries goes through all of them.
Startup ==
    /\ phase = "down"
    /\ phase' = "idle"
    /\ \E h \in HistoryReads,
          saved \in SUBSET FalseRejects :
        /\ reg' = [e \in Entries |->
              IF e \in saved THEN Recovered(e) ELSE Started(e, h[e])]
        /\ disk' = [e \in Entries |->
              IF e \in saved THEN Saved(Recovered(e)) ELSE StartedOnDisk(e, h[e])]
        /\ notified' = saved \cup
              {e \in Entries : disk[e].st # "FILLED" /\ reg'[e].st = "FILLED"}
    /\ front' = {e \in Entries : disk[e].st = "QUEUED"}
    /\ UNCHANGED <<processed, queue, age, sends, brokerVars>>

\* The EA dies on the way: the entries before k are saved, and k may be a
\* false rejection saved as RECONCILING.
StartupCrash ==
    /\ MayCrash
    /\ phase = "down"
    /\ \E h \in HistoryReads, k \in Entries, half \in BOOLEAN,
          saved \in SUBSET FalseRejects :
        /\ half => FalseRejectEvidence(k)
        /\ disk' = [e \in Entries |->
              CASE e > k \/ (e = k /\ ~half) -> disk[e]
                [] e = k /\ half -> Saved(Forced(e))
                [] e < k /\ e \in saved -> Saved(Recovered(e))
                [] OTHER -> StartedOnDisk(e, h[e])]
    /\ UNCHANGED <<reg, processed, queue, notified, front, phase, age, sends,
                   brokerVars>>

-------------------------------------------------------------------------------
(***************************************************************************)
(* Time, and the broker.  A transaction is lost unless the EA is running.  *)
(***************************************************************************)

\* The deadline of an entry passes, then its evidence window.
Expire(e) ==
    /\ disk[e].st # "NONE" /\ age[e] < 2
    /\ age' = [age EXCEPT ![e] = @ + 1]
    /\ UNCHANGED <<reg, disk, processed, queue, notified, front, phase, sends,
                   brokerVars>>

Emits(txs) == inbox' = IF phase = "down" THEN inbox ELSE inbox \cup txs

Tx(type, o, d) == [type |-> type, order |-> o, deal |-> d]

\* An order enters the book: one of ours, or one of others that closes a
\* position of ours.
BrokerAccept(o) ==
    /\ \/ ord[o] = "sent"
       \/ o > N /\ ord[o] = "none" /\ OpenVolume(Position(o)) > 0
    /\ ord' = [ord EXCEPT ![o] = "working"]
    /\ Emits({Tx("ORDER_ADD", o, 0)})
    /\ UNCHANGED <<eaVars, sends, done, whole>>

BrokerRefuse(o) ==
    /\ ord[o] = "sent"
    /\ ord' = [ord EXCEPT ![o] = "refused"]
    /\ UNCHANGED <<eaVars, sends, done, whole, inbox>>

\* One unit is executed, or the whole volume at once; an execution in full
\* takes the order off the book, which is also reported as ORDER_DELETE.
BrokerExecute(o, v) ==
    /\ ord[o] = "working"
    /\ v = 1 \/ done[o] = 0
    /\ done[o] + v <= Vol
    /\ Closing(o) => OpenVolume(Position(o)) >= v
    /\ done' = [done EXCEPT ![o] = @ + v]
    /\ whole' = IF v = Vol THEN whole \cup {o} ELSE whole
    /\ ord' = [ord EXCEPT ![o] = IF done[o] + v = Vol THEN "filled" ELSE @]
    /\ Emits({Tx("DEAL_ADD", o, done[o] + v)}
             \cup (IF done[o] + v = Vol
                   THEN {Tx("ORDER_DELETE", o, 0)} ELSE {}))
    /\ UNCHANGED <<eaVars, sends>>

BrokerCancel(o) ==
    /\ ord[o] = "working"
    /\ ord' = [ord EXCEPT ![o] = "cancelled"]
    /\ Emits({Tx("ORDER_DELETE", o, 0)})
    /\ UNCHANGED <<eaVars, sends, done, whole>>

-------------------------------------------------------------------------------
Init ==
    /\ reg = [e \in Entries |-> NoEntry]
    /\ disk = [e \in Entries |-> NoEntry]
    /\ processed = {} /\ queue = {} /\ notified = {} /\ front = {}
    /\ phase = "idle"
    /\ age = [e \in Entries |-> 0]
    /\ sends = [e \in Entries |-> 0]
    /\ ord = [o \in Orders |-> "none"]
    /\ done = [o \in Orders |-> 0]
    /\ whole = {}
    /\ inbox = {}

Next ==
    \/ \E tx \in inbox : Deliver(tx)
    \/ ScanDueTimeouts
    \/ ProcessBatch
    \/ \E e \in Entries :
        \/ Prepare(e) \/ PrepareFails(e)
        \/ SubmitAccepted(e) \/ SubmitRejected(e) \/ SubmitCrash(e)
        \/ Expire(e)
    \/ Stop
    \/ Startup
    \/ StartupCrash
    \/ \E o \in Orders :
        \/ BrokerAccept(o) \/ BrokerRefuse(o)
        \/ \E v \in {1, Vol} : BrokerExecute(o, v)
        \/ BrokerCancel(o)

Spec == Init /\ [][Next]_vars

\* MetaTrader keeps calling OnTimer while the EA is attached, and time passes.
Fairness ==
    /\ WF_vars(ScanDueTimeouts)
    /\ WF_vars(ProcessBatch)
    /\ \A e \in Entries : WF_vars(Expire(e))

FairSpec == Spec /\ Fairness
-------------------------------------------------------------------------------
(***************************************************************************)
(* Properties.                                                             *)
(***************************************************************************)

\* While the EA runs, registry and file tell the same story about an entry:
\* the file holds what the codec keeps of the registry's record.  The two
\* exceptions are a failed preparation, which blanks the registry's record of
\* a request never sent, and a partial fill found by the startup, which only
\* the file learns of.  Nothing half prepared gets into the file.
FileAgrees ==
    \A e \in Entries :
        /\ disk[e].st # "CREATED" /\ Saved(disk[e]) = disk[e]
        /\ phase # "down" =>
              \/ disk[e] = Saved(reg[e])
              \/ reg[e] = Blank /\ disk[e].st \in {"NONE", "QUEUED"}
              \/ disk[e].st = "PARTIALLY_FILLED" /\ AsksBroker(reg[e])

\* Whatever restarts and transactions come in between, a request is sent to
\* the broker once.
SentOnce == \A e \in Entries : sends[e] <= 1

\* Positions are read by magic number and symbol, and transactions matched by
\* them: what the store says of an entry can be held against its own order
\* while e's is the only request that has left, and no close is under way.
Alone(e) == \A f \in Entries \ {e} : f \notin Close /\ sends[f] = 0

\* A request that the store holds as in flight, timed out or filled has been
\* sent: a prepared envelope alone does not move the entry on.
InFlightWasSent ==
    \A e \in Entries \ Close :
        Alone(e) /\ disk[e].st \notin {"NONE", "QUEUED", "REJECTED"}
            => sends[e] >= 1

\* An entry the store holds as FILLED was executed in full by its own order.
FilledMeansExecuted ==
    \A e \in Entries \ Close :
        Alone(e) /\ disk[e].st = "FILLED" => done[e] = Vol

\* An entry the store holds as REJECTED has no order left at the broker that
\* could still be executed.
RejectedIsOver ==
    \A e \in Entries \ Close :
        Alone(e) /\ disk[e].st = "REJECTED" => ord[e] \notin {"sent", "working"}

\* An entry the store holds as REJECTED was not executed.
RejectedMeansNotExecuted ==
    \A e \in Entries : disk[e].st = "REJECTED" => done[e] < Vol

\* A terminal status in the file is never left, over crashes and restarts,
\* except that a startup may take back the rejection of a close request which
\* history shows to have been executed.
TerminalIsFinal ==
    [][\A e \in Entries :
          disk[e].st \in Terminal /\ disk'[e].st # disk[e].st =>
              /\ e \in Close /\ disk[e].st = "REJECTED" /\ done[e] = Vol
              /\ phase = "down"
              /\ disk'[e].st \in {"RECONCILING", "FILLED"}]_vars

\* Within a session no entry goes back to a status of lower rank, unless its
\* preparation has failed.
SessionNeverRegresses ==
    [][phase # "down" /\ phase' # "down" =>
          \A e \in Entries :
              \/ reg'[e] = Blank
              \/ StatusRank[reg'[e].st] >= StatusRank[reg[e].st]]_vars

\* An entry that becomes FILLED while the EA runs is reported to the fill
\* notifier, which is what advances the recovery step.
FillIsNotified ==
    [][\A e \in Entries :
          phase # "down" /\ reg[e].st # "FILLED" /\ reg'[e].st = "FILLED" =>
              e \in notified']_vars

\* Whether its transactions arrive or not, a submitted entry does not stay
\* submitted or acknowledged: the timeout monitor settles it or has it
\* reconciled.
InFlightIsResolved ==
    \A e \in Entries :
        reg[e].st \in {"SUBMITTED", "ACKNOWLEDGED"} ~>
            reg[e].st \notin {"SUBMITTED", "ACKNOWLEDGED"}

\* An entry whose order has been executed does not stay in reconciliation.
ReconcilingIsResolved ==
    \A e \in Entries :
        reg[e].st = "RECONCILING" /\ done[e] = Vol ~> reg[e].st # "RECONCILING"

\* The stage of an entry, read off the file.
StageOf(r) ==
    CASE r.st = "NONE" -> "absent"
      [] r.st \in {"CREATED", "QUEUED"} -> "prepared"
      [] r.st = "FILLED" -> "filled"
      [] r.st \in Terminal \ {"FILLED"} -> "closed"
      [] OTHER -> "inflight"

Ledger == INSTANCE ExecutionLedger WITH
    Recoverable <- Close,
    MayLose <- MayCrash,
    ledger <- [e \in Entries |-> StageOf(disk[e])]

\* The file and the sends of every behaviour are those of an execution ledger.
IsLedger == Ledger!LedgerSpec
===============================================================================
