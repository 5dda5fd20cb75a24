---------------------------- MODULE CommandPipeline ----------------------------
(***************************************************************************)
(* Commands on their way from the REST server to their handlers: the poll  *)
(* with its circuit breaker (CCommandIngestionService, CRestCommandSource, *)
(* CRestClient), the persistent queue (CPersistentCommandQueue), the       *)
(* processor (CCommandProcessor) and the keys of what has been processed   *)
(* (CInMemoryIdempotencyStore).  One timer event of CApplicationTimer-     *)
(* Pipeline polls, enqueues and acknowledges, then empties the queue.      *)
(* Files may fail, and the EA may die between any two effects.             *)
(***************************************************************************)
EXTENDS Naturals

CONSTANTS
    Commands,       \* the commands the server may issue
    NoKey,          \* the empty idempotency key
    KeyOf,          \* command -> idempotency key
    Priority,       \* command -> priority
    EnqueuedAt,     \* command -> time of enqueueing
    Needs,          \* command -> commands whose basket its handler loads
    Threshold,      \* failures that open the breaker
    GetAttempts,    \* attempts of a GET
    PostAttempts,   \* attempts of a POST
    MaxRuns,        \* bound on how often one handler is run
    Faults          \* what may go wrong

ASSUME CommandAttributes ==
    /\ Priority \in [Commands -> Nat]
    /\ EnqueuedAt \in [Commands -> Nat]
    /\ Needs \in [Commands -> SUBSET Commands]
ASSUME RestLimits ==
    /\ Threshold \in Nat \ {0}
    /\ GetAttempts \in Nat \ {0}
    /\ PostAttempts \in Nat \ {0}
ASSUME RunBound == MaxRuns \in Nat \ {0}
\* "net": a request fails; "save": a file cannot be written and stays as it was;
\* "torn": a file is deleted and the new one not put in its place; "kill": the
\* EA dies between two effects; "boot": it dies while it recovers the queue.
ASSUME FaultKinds == Faults \subseteq {"net", "save", "kill", "torn", "boot"}

VARIABLES
    acked,              \* commands the server was told it may forget
    batch,              \* commands of the running poll not yet handled
    failures,           \* m_failureCount of the breaker, up to Threshold
    open,               \* m_isOpen
    cooled,             \* the last failure is a minute or more ago
    authFailed,         \* m_authFailed
    queue, failed,      \* items of the queue: PENDING, FAILED
    completed,          \* m_completedKeys
    keys,               \* m_keys of the idempotency store
    pendingFile,        \* commands/pending.json
    keyFile,            \* idempotency/processed.json
    runs,               \* how often the handler of a command succeeded
    refused,            \* commands whose handler failed
    behind,             \* the recovery of this session left pendingFile short
    intact,             \* see below
    stage               \* of the timer event, or "down"

\* intact: no write was torn, no recovery was cut short, and no session ended
\* with commands that its recovery could not save again.
health == <<behind, intact>>
rest == <<failures, open, cooled, authFailed>>
memory == <<queue, failed, completed, keys>>
files == <<pendingFile, keyFile>>
past == <<runs, refused>>
vars == <<acked, batch, rest, memory, files, past, health, stage>>

Keys == {KeyOf[c] : c \in Commands}

TypeOK ==
    /\ acked \subseteq Commands /\ batch \subseteq Commands
    /\ failures \in 0..Threshold
    /\ open \in BOOLEAN /\ cooled \in BOOLEAN /\ authFailed \in BOOLEAN
    /\ queue \subseteq Commands /\ failed \subseteq Commands
    /\ completed \subseteq Keys /\ keys \subseteq Keys
    /\ pendingFile \subseteq Commands /\ keyFile \subseteq Keys
    /\ runs \in [Commands -> 0..MaxRuns]
    /\ refused \subseteq Commands
    /\ behind \in BOOLEAN /\ intact \in BOOLEAN
    /\ stage \in {"idle", "ingest", "cycle", "down"}
    /\ stage # "ingest" => batch = {}

Init ==
    /\ acked = {} /\ batch = {}
    /\ failures = 0 /\ open = FALSE /\ cooled = TRUE /\ authFailed = FALSE
    /\ queue = {} /\ failed = {} /\ completed = {} /\ keys = {}
    /\ pendingFile = {} /\ keyFile = {}
    /\ runs = [c \in Commands |-> 0] /\ refused = {}
    /\ behind = FALSE /\ intact = TRUE
    /\ stage = "idle"

-------------------------------------------------------------------------------
(***************************************************************************)
(* CRestCircuitBreaker.                                                    *)
(***************************************************************************)

AllowRequest == ~open \/ cooled

RecordSuccess ==
    /\ failures' = 0
    /\ open' = FALSE
    /\ UNCHANGED cooled

\* n failures in a row; the first one starts a new count after a quiet minute.
RecordFailures(n) ==
    LET count == (IF cooled THEN 0 ELSE failures) + n
    IN  /\ failures' = IF count < Threshold THEN count ELSE Threshold
        /\ open' = (count >= Threshold)
        /\ cooled' = FALSE

\* A request of at most so many attempts fails, perhaps for its credentials.
RequestFails(attempts) ==
    /\ "net" \in Faults
    /\ \E n \in 1..attempts : RecordFailures(n)
    /\ authFailed' \in BOOLEAN

\* A minute passes.
CoolDown ==
    /\ stage # "ingest"
    /\ ~cooled
    /\ cooled' = TRUE
    /\ UNCHANGED <<acked, batch, failures, open, authFailed, memory, files,
                   past, health, stage>>

-------------------------------------------------------------------------------
(***************************************************************************)
(* CCommandIngestionService::PollAndEnqueue.                               *)
(***************************************************************************)

IsAvailable == ~open /\ ~authFailed

\* The answer is any of the commands: some are not posted yet, the server goes
\* by its cursor, and the parser rejects some.
FetchPending ==
    /\ stage = "idle"
    /\ IsAvailable
    /\ batch' \in SUBSET Commands
    /\ RecordSuccess
    /\ stage' = "ingest"
    /\ UNCHANGED <<acked, authFailed, memory, files, past, health>>

FetchFails ==
    /\ stage = "idle"
    /\ IsAvailable
    /\ RequestFails(GetAttempts)
    /\ stage' = "cycle"
    /\ UNCHANGED <<acked, batch, memory, files, past, health>>

\* The poll is not due, or the source is not available.
SkipPoll ==
    /\ stage = "idle"
    /\ stage' = "cycle"
    /\ UNCHANGED <<acked, batch, rest, memory, files, past, health>>

\* Failed items are not found.
PendingWithKey(k) == {d \in queue : KeyOf[d] = k}

\* FindByIdempotencyKey: pending and failed items alike, the empty key included.
ItemsWithKey(k) == {d \in queue \cup failed : KeyOf[d] = k}

\* What ShouldSkipDuplicate skips and what Enqueue reports as queued and drops.
Duplicate(c) ==
    \/ ItemsWithKey(KeyOf[c]) # {}
    \/ KeyOf[c] # NoKey /\ KeyOf[c] \in completed

\* The POST may have reached the server although its answer was lost.
Acknowledge(c) ==
    IF authFailed \/ ~AllowRequest
    THEN UNCHANGED <<acked, rest>>
    ELSE \/ /\ acked' = acked \cup {c}
            /\ RecordSuccess
            /\ UNCHANGED authFailed
         \/ /\ acked' \in {acked, acked \cup {c}}
            /\ RequestFails(PostAttempts)

IngestDuplicate(c) ==
    /\ stage = "ingest"
    /\ c \in batch
    /\ Duplicate(c)
    /\ batch' = batch \ {c}
    /\ Acknowledge(c)
    /\ UNCHANGED <<memory, files, past, health, stage>>

\* The item is enqueued and not saved.
EnqueueUnsaved(c) ==
    /\ queue' = queue \cup {c}
    /\ UNCHANGED <<pendingFile, behind>>

\* Enqueue: the item first, then PersistPending.
Enqueue(c) ==
    /\ queue' = queue \cup {c}
    /\ pendingFile' = queue'
    /\ behind' = FALSE

IngestNew(c) ==
    /\ stage = "ingest"
    /\ c \in batch
    /\ ~Duplicate(c)
    /\ batch' = batch \ {c}
    /\ Enqueue(c)
    /\ Acknowledge(c)
    /\ UNCHANGED <<failed, completed, keys, keyFile, past, intact, stage>>

EndIngest ==
    /\ stage = "ingest"
    /\ batch = {}
    /\ stage' = "cycle"
    /\ UNCHANGED <<acked, batch, rest, memory, files, past, health>>

-------------------------------------------------------------------------------
(***************************************************************************)
(* CCommandProcessor::ProcessPhaseOne.                                     *)
(***************************************************************************)

Before(c, d) ==
    \/ Priority[c] > Priority[d]
    \/ Priority[c] = Priority[d] /\ EnqueuedAt[c] <= EnqueuedAt[d]

DequeueNext == {c \in queue : \A d \in queue : Before(c, d)}

IsProcessed(c) == KeyOf[c] # NoKey /\ KeyOf[c] \in keys

SameRequest(c, d) == c = d \/ (KeyOf[c] = KeyOf[d] /\ KeyOf[c] # NoKey)
HasRun(c) == \E d \in Commands : SameRequest(c, d) /\ runs[d] > 0

\* The handler finds the basket it loads.
CanRun(c) == \A d \in Needs[c] : HasRun(d)

\* PersistPending fails.  WriteAtomic deletes the file before it copies the new
\* one to its place, and the backup is read in recovery mode only, which is
\* never switched on.
Unsaved == "save" \in Faults /\ UNCHANGED pendingFile
Torn == "torn" \in Faults /\ pendingFile' = {} /\ intact' = FALSE

\* The callers of MarkCompleted and MarkFailed ignore the result.
PersistRest(items) ==
    \/ pendingFile' = items /\ behind' = FALSE /\ UNCHANGED intact
    \/ Unsaved /\ UNCHANGED health
    \/ Torn /\ UNCHANGED behind

MarkCompleted(c) ==
    /\ completed' = completed \cup {KeyOf[c]}
    /\ queue' = queue \ {c}
    /\ PersistRest(queue \ {c})
    /\ UNCHANGED failed

\* The failed command stays pending.
MarkFailedPending(c) ==
    /\ failed' = failed \cup {c}
    /\ PersistRest(queue)
    /\ UNCHANGED <<queue, completed>>

MarkFailed(c) ==
    /\ failed' = failed \cup {c}
    /\ queue' = queue \ {c}
    /\ PersistRest(queue \ {c})
    /\ UNCHANGED completed

SkipProcessed(c) ==
    /\ stage = "cycle"
    /\ c \in DequeueNext
    /\ IsProcessed(c)
    /\ MarkCompleted(c)
    /\ UNCHANGED <<acked, batch, rest, keys, keyFile, past, stage>>

\* The handler fails: for want of the basket, or for a reason of its own.
Refuse(c) ==
    /\ stage = "cycle"
    /\ c \in DequeueNext
    /\ ~IsProcessed(c)
    /\ MarkFailed(c)
    /\ refused' = refused \cup {c}
    /\ UNCHANGED <<acked, batch, rest, keys, keyFile, runs, stage>>

\* The handler succeeds and has saved the basket.
Handle(c) ==
    /\ stage = "cycle"
    /\ c \in DequeueNext
    /\ ~IsProcessed(c)
    /\ CanRun(c)
    /\ runs[c] < MaxRuns
    /\ runs' = [runs EXCEPT ![c] = @ + 1]

\* MarkProcessed: nothing for the empty key.
KeyFor(c) == {KeyOf[c]} \ {NoKey}

Execute(c) ==
    /\ Handle(c)
    /\ keys' = keys \cup KeyFor(c)
    /\ keyFile' = keyFile \cup KeyFor(c)
    /\ MarkCompleted(c)
    /\ UNCHANGED <<acked, batch, rest, refused, stage>>

\* The key cannot be saved: the cycle ends and leaves the command pending.
ExecuteUnrecorded(c) ==
    /\ Handle(c)
    /\ KeyOf[c] # NoKey
    /\ keys' = keys \cup KeyFor(c)
    /\ \/ "save" \in Faults /\ UNCHANGED <<keyFile, intact>>
       \/ "torn" \in Faults /\ keyFile' = {} /\ intact' = FALSE
    /\ stage' = "idle"
    /\ UNCHANGED <<acked, batch, rest, queue, failed, completed, pendingFile,
                   refused, behind>>

EndCycle ==
    /\ stage = "cycle"
    /\ queue = {}
    /\ stage' = "idle"
    /\ UNCHANGED <<acked, batch, rest, memory, files, past, health>>

-------------------------------------------------------------------------------
(***************************************************************************)
(* The end of the EA, and its start.                                       *)
(***************************************************************************)

Forget ==
    /\ stage' = "down"
    /\ batch' = {}
    /\ failures' = 0 /\ open' = FALSE /\ cooled' = TRUE /\ authFailed' = FALSE
    /\ queue' = {} /\ failed' = {} /\ completed' = {} /\ keys' = {}
    /\ behind' = FALSE

\* The session ends with the file as it is.
End ==
    /\ Forget
    /\ intact' = (intact /\ (behind => queue \subseteq pendingFile))

\* OnDeinit saves nothing of this.
Stop ==
    /\ stage = "idle" \/ (stage # "down" /\ "kill" \in Faults)
    /\ End
    /\ UNCHANGED <<acked, files, past>>

\* The server is told first.
DiesBeforeSave(c) ==
    /\ "kill" \in Faults
    /\ stage = "ingest"
    /\ c \in batch
    /\ ~Duplicate(c)
    /\ acked' = acked \cup {c}
    /\ End
    /\ UNCHANGED <<files, past>>

DiesBeforeAck(c) ==
    /\ "kill" \in Faults
    /\ stage = "ingest"
    /\ c \in batch
    /\ ~Duplicate(c)
    /\ pendingFile' = queue \cup {c}
    /\ Forget
    /\ UNCHANGED <<acked, keyFile, past, intact>>

\* A command that Enqueue could not save is deleted and stays in the array of
\* items: DequeueNext of the same timer event touches it, and the terminal ends
\* the program.
AbortsOnDeleted(c) ==
    /\ stage = "ingest"
    /\ c \in batch
    /\ ~Duplicate(c)
    /\ (Unsaved /\ End) \/ (Torn /\ Forget)
    /\ UNCHANGED <<acked, keyFile, past>>

\* Between the basket, the key and the pending commands.
DiesInCommand(c) ==
    /\ "kill" \in Faults
    /\ Handle(c)
    /\ keyFile' \in {keyFile, keyFile \cup KeyFor(c)}
    /\ End
    /\ UNCHANGED <<acked, pendingFile, refused>>

\* The keys are not loaded.
RecoverCommandsOnly ==
    /\ stage = "down"
    /\ queue' = pendingFile
    /\ keys' = {}
    /\ stage' = "idle"
    /\ UNCHANGED <<acked, batch, rest, failed, completed, files, past, health>>

\* The file is taken over and removed.
RecoverAndClear ==
    /\ stage = "down"
    /\ queue' = pendingFile
    /\ pendingFile' = {}
    /\ keys' = keyFile
    /\ stage' = "idle"
    /\ UNCHANGED <<acked, batch, rest, failed, completed, keyFile, past, health>>

\* RecoverFromPersistence enqueues the loaded commands one by one, and every
\* Enqueue saves what has been enqueued so far in place of what was loaded.  The
\* results are ignored: after a failing save of a later one the file holds some
\* of the commands (the first ones; their order is not modelled).
SomePending == (SUBSET pendingFile) \ {{}, pendingFile}

Resave ==
    \/ UNCHANGED <<pendingFile, health>>
    \/ /\ "save" \in Faults
       /\ pendingFile' \in SomePending
       /\ behind' = TRUE
       /\ UNCHANGED intact
    \/ /\ pendingFile # {}
       /\ Torn
       /\ behind' = TRUE

\* CPersistenceManager::RecoverOnStartup.
RecoverOnStartup ==
    /\ stage = "down"
    /\ queue' = pendingFile
    /\ keys' = keyFile
    /\ stage' = "idle"
    /\ Resave
    /\ UNCHANGED <<acked, batch, rest, failed, completed, keyFile, past>>

\* Between two saves of the recovery.
DiesInRecovery ==
    /\ "boot" \in Faults
    /\ stage = "down"
    /\ pendingFile' \in SomePending
    /\ intact' = FALSE
    /\ UNCHANGED <<acked, batch, rest, memory, keyFile, past, behind, stage>>

Ingest(c) == IngestDuplicate(c) \/ IngestNew(c)
ProcessNext(c) == SkipProcessed(c) \/ Refuse(c) \/ Execute(c) \/ ExecuteUnrecorded(c)

OnTimer ==
    \/ FetchPending \/ FetchFails \/ SkipPoll
    \/ EndIngest \/ EndCycle
    \/ \E c \in Commands : Ingest(c) \/ ProcessNext(c)

Dies(c) == DiesBeforeAck(c) \/ AbortsOnDeleted(c) \/ DiesInCommand(c)

Next ==
    \/ OnTimer
    \/ CoolDown
    \/ Stop \/ RecoverOnStartup \/ DiesInRecovery
    \/ \E c \in Commands : Dies(c)

Spec == Init /\ [][Next]_vars

\* The terminal calls OnTimer while the EA is attached, and time passes.
FairSpec == Spec /\ WF_vars(OnTimer) /\ WF_vars(CoolDown)

\* And the server answers again and again when it is asked.
HealthySpec == FairSpec /\ SF_vars(FetchPending)

-------------------------------------------------------------------------------
(***************************************************************************)
(* Properties.                                                             *)
(***************************************************************************)

\* A request whose handler has done its work or has refused it.
Settled(c) == HasRun(c) \/ \E d \in refused : SameRequest(c, d)

\* The key of c is that of its own request only: always so for a key, and for the
\* empty key, which the queue takes for a key like any other, as long as no
\* second command comes without one.
OwnKey(c) == \A d \in Commands : KeyOf[c] = KeyOf[d] => SameRequest(c, d)
OwnKeys == {c \in Commands : OwnKey(c)}

\* The commands the EA will come back to: those on disk and, from a recovery that
\* could not save all it had loaded to the next save, those of the queue.
Waiting == pendingFile \cup (IF behind THEN queue ELSE {})

\* The server forgets what it was told: a command that was acknowledged waits or
\* has been settled.  Held by the order of Enqueue and Acknowledge in
\* PollAndEnqueue, of MarkProcessed and MarkCompleted in ProcessPhaseOne, and by
\* the recovery of the queue, also when its saves fail.
AckedIsKept ==
    \A c \in acked \cap OwnKeys :
        Settled(c) \/ \E d \in Waiting : SameRequest(c, d)

\* What waits in memory waits on disk: no crash between two timer events can
\* take a command out of the queue, except between a recovery that could not
\* save all it had loaded and the next save.  (A file may hold more than the
\* queue, when the save of a completed command failed.)
QueueIsOnDisk == behind \/ queue \subseteq pendingFile

\* Both as long as no write was torn, no recovery was cut short, and no session
\* ended before it had saved what its recovery could not.
AckedIsKeptWhileIntact == intact => AckedIsKept
QueueIsOnDiskWhileIntact == intact => QueueIsOnDisk

\* The requests of a set of commands, each the set of its commands.
Request == [c \in Commands |-> {d \in Commands : SameRequest(c, d)}]
RequestsOf(S) == {Request[c] : c \in S}

\* Commands whose own handler has done its work or has refused.
Done == {c \in Commands : runs[c] > 0} \cup refused

Delivery == INSTANCE CommandDelivery WITH
    Requests <- RequestsOf(Commands),
    waiting <- RequestsOf(Waiting),
    served <- RequestsOf(Done),
    told <- RequestsOf(acked \cap OwnKeys),
    damaged <- ~intact

\* The pipeline delivers: every step of it, with its failing saves, short
\* recoveries and deaths, saves a request before the server is told, runs a
\* handler only for what waits, and lets go only of what is settled.
IsDelivery == Delivery!DeliverySpec

\* Pending and failed items have different keys, so a request that comes twice,
\* or that comes again after a restart, has one item at most.
OnePerKey ==
    \A c \in queue \cup failed :
        \A d \in queue \cup failed : KeyOf[c] = KeyOf[d] => c = d

\* Once the key of a request is in the file, its handler never runs again, in
\* this session or in any later one.
RecordedNeverRunsAgain ==
    [][\A c \in Commands :
           KeyOf[c] \in keyFile \ {NoKey} => runs'[c] = runs[c]]_vars

\* The queue empties again and again: a command that always fails is no obstacle
\* to those behind it, nor is a file that cannot be written, nor a cycle that
\* gives up because a key cannot be saved.
QueueEmpties == queue # {} ~> queue = {}

\* Commands of one basket are processed in the order they are issued: none is
\* refused for want of a basket whose creation is still in the queue.
SerialPerBasket ==
    [][\A c \in refused' \ refused : CanRun(c) \/ Needs[c] \cap queue = {}]_vars

\* A breaker that is open closes again once the server is well, unless the
\* credentials were refused: after its minute a request goes through.
BreakerCloses == open /\ ~authFailed ~> ~open \/ authFailed
===============================================================================
