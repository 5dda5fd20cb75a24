------------------------- MODULE CommandPipelineProofs -------------------------
(***************************************************************************)
(* Proofs about CommandPipeline, for any set of commands, keys and faults. *)
(***************************************************************************)
EXTENDS CommandPipeline, TLAPS

(***************************************************************************)
(* Type correctness.                                                       *)
(***************************************************************************)

\* The breaker counts within its bound.
LEMMA FailuresType ==
    ASSUME TypeOK, NEW attempts \in Nat, RequestFails(attempts)
    PROVE  /\ failures' \in 0..Threshold
           /\ open' \in BOOLEAN /\ cooled' \in BOOLEAN /\ authFailed' \in BOOLEAN
<1>1. PICK n \in 1..attempts : RecordFailures(n)
  BY DEF RequestFails
<1>2. (IF cooled THEN 0 ELSE failures) + n \in Nat
  BY RestLimits DEF TypeOK
<1>3. failures' \in 0..Threshold
  BY <1>1, <1>2, RestLimits DEF RecordFailures
<1>4. ((IF cooled THEN 0 ELSE failures) + n >= Threshold) \in BOOLEAN
  BY <1>2, RestLimits
<1>5. open' \in BOOLEAN /\ cooled' \in BOOLEAN
  BY <1>1, <1>4, Zenon DEF RecordFailures
<1> QED
  BY <1>3, <1>5 DEF RequestFails

\* So it does when a request succeeds.
LEMMA SuccessType ==
    ASSUME TypeOK, RecordSuccess
    PROVE  failures' \in 0..Threshold /\ open' \in BOOLEAN /\ cooled' \in BOOLEAN
<1>1. failures' \in 0..Threshold
  BY RestLimits DEF RecordSuccess
<1>2. open' \in BOOLEAN /\ cooled' \in BOOLEAN
  BY Zenon DEF RecordSuccess, TypeOK
<1> QED
  BY <1>1, <1>2

\* Whatever becomes of an acknowledgement.
LEMMA AcknowledgeType ==
    ASSUME TypeOK, NEW c \in Commands, Acknowledge(c)
    PROVE  /\ acked' \in {acked, acked \cup {c}}
           /\ failures' \in 0..Threshold
           /\ open' \in BOOLEAN /\ cooled' \in BOOLEAN /\ authFailed' \in BOOLEAN
<1>1. CASE UNCHANGED <<acked, rest>>
  BY <1>1 DEF rest, TypeOK
<1>2. CASE acked' = acked \cup {c} /\ RecordSuccess /\ UNCHANGED authFailed
  BY <1>2, SuccessType DEF TypeOK
<1>3. CASE acked' \in {acked, acked \cup {c}} /\ RequestFails(PostAttempts)
  BY <1>3, FailuresType, RestLimits
<1> QED
  BY <1>1, <1>2, <1>3 DEF Acknowledge

\* The pending commands after an attempt to save them.
LEMMA PersistType ==
    ASSUME TypeOK, NEW items \in SUBSET Commands, PersistRest(items)
    PROVE  /\ pendingFile' \in SUBSET Commands
           /\ behind' \in BOOLEAN /\ intact' \in BOOLEAN
  BY DEF PersistRest, Unsaved, Torn, TypeOK, health

\* And after the saves of a recovery.
LEMMA ResaveType ==
    ASSUME TypeOK, Resave
    PROVE  /\ pendingFile' \in SUBSET pendingFile
           /\ behind' \in BOOLEAN /\ intact' \in BOOLEAN
           /\ intact' => intact
           /\ intact' => behind' \/ UNCHANGED <<pendingFile, behind>>
<1>1. CASE UNCHANGED <<pendingFile, health>>
  BY <1>1, Zenon DEF TypeOK, health
<1>2. CASE pendingFile' \in SomePending /\ behind' = TRUE /\ UNCHANGED intact
  BY <1>2 DEF TypeOK, SomePending
<1>3. CASE Torn /\ behind' = TRUE
  BY <1>3 DEF TypeOK, Torn
<1> QED
  BY <1>1, <1>2, <1>3 DEF Resave

\* Nothing of a session is kept when it ends.
LEMMA ForgetType ==
    ASSUME Forget
    PROVE  /\ stage' = "down" /\ batch' = {} /\ failures' \in 0..Threshold
           /\ open' \in BOOLEAN /\ cooled' \in BOOLEAN /\ authFailed' \in BOOLEAN
           /\ queue' = {} /\ failed' = {} /\ completed' = {} /\ keys' = {}
           /\ behind' \in BOOLEAN /\ behind' = FALSE
<1>1. failures' \in 0..Threshold
  BY RestLimits DEF Forget
<1>2. /\ open' \in BOOLEAN /\ cooled' \in BOOLEAN /\ authFailed' \in BOOLEAN
      /\ behind' \in BOOLEAN
  BY Zenon DEF Forget
<1> QED
  BY <1>1, <1>2 DEF Forget

\* A session that ends loses what only its memory held.
LEMMA EndIs ==
    ASSUME TypeOK, End
    PROVE  /\ Forget
           /\ intact' \in BOOLEAN
           /\ intact' => intact /\ (behind => queue \subseteq pendingFile)
<1>1. intact' = (intact /\ (behind => queue \subseteq pendingFile))
  BY DEF End
<1>2. (intact /\ (behind => queue \subseteq pendingFile)) \in BOOLEAN
  BY Zenon DEF TypeOK
<1> QED
  BY <1>1, <1>2, Zenon DEF End

\* The typing invariant is preserved by every step.
LEMMA TypeStep == TypeOK /\ [Next]_vars => TypeOK'
<1> SUFFICES ASSUME TypeOK, [Next]_vars PROVE TypeOK'
  OBVIOUS
<1> USE DEF TypeOK, memory, files, past, rest, health
<1>1. CASE FetchPending
  BY <1>1, SuccessType DEF FetchPending
<1>2. CASE FetchFails
  BY <1>2, FailuresType, RestLimits DEF FetchFails
<1>3. CASE SkipPoll \/ EndIngest \/ EndCycle \/ CoolDown
  BY <1>3 DEF SkipPoll, EndIngest, EndCycle, CoolDown
<1>4. ASSUME NEW c \in Commands, IngestDuplicate(c) PROVE TypeOK'
  BY <1>4, AcknowledgeType DEF IngestDuplicate
<1>5. ASSUME NEW c \in Commands, IngestNew(c) PROVE TypeOK'
  BY <1>5, AcknowledgeType DEF IngestNew, Enqueue
<1>6. ASSUME NEW c \in Commands, SkipProcessed(c) PROVE TypeOK'
  BY <1>6, PersistType DEF SkipProcessed, MarkCompleted, Keys
<1>7. ASSUME NEW c \in Commands, Refuse(c) PROVE TypeOK'
  BY <1>7, PersistType DEF Refuse, MarkFailed
<1>8. ASSUME NEW c \in Commands, Handle(c)
      PROVE  runs' \in [Commands -> 0..MaxRuns]
  BY <1>8, RunBound DEF Handle
<1>9. ASSUME NEW c \in Commands, Execute(c) PROVE TypeOK'
  BY <1>9, <1>8, PersistType DEF Execute, Handle, MarkCompleted, Keys, KeyFor
<1>10. ASSUME NEW c \in Commands, ExecuteUnrecorded(c) PROVE TypeOK'
  BY <1>10, <1>8 DEF ExecuteUnrecorded, Handle, Keys, KeyFor
<1>11. CASE Stop
  BY <1>11, EndIs, ForgetType DEF Stop
<1>12. CASE RecoverOnStartup
  BY <1>12, ResaveType DEF RecoverOnStartup
<1>13. CASE DiesInRecovery
  BY <1>13 DEF DiesInRecovery, SomePending
<1>14. ASSUME NEW c \in Commands, DiesBeforeAck(c) PROVE TypeOK'
  BY <1>14, ForgetType DEF DiesBeforeAck
<1>15. ASSUME NEW c \in Commands, AbortsOnDeleted(c) PROVE TypeOK'
  BY <1>15, EndIs, ForgetType DEF AbortsOnDeleted, Unsaved, Torn
<1>16. ASSUME NEW c \in Commands, DiesInCommand(c) PROVE TypeOK'
  BY <1>16, <1>8, EndIs, ForgetType DEF DiesInCommand, Keys, KeyFor
<1>17. CASE UNCHANGED vars
  BY <1>17 DEF vars
<1> QED
  BY <1>1, <1>2, <1>3, <1>4, <1>5, <1>6, <1>7, <1>9, <1>10, <1>11, <1>12,
     <1>13, <1>14, <1>15, <1>16, <1>17
  DEF Next, OnTimer, Ingest, ProcessNext, Dies

\* And it holds at the start.
LEMMA PipelineInit == Init => TypeOK
<1> SUFFICES ASSUME Init PROVE TypeOK
  OBVIOUS
<1>1. /\ open \in BOOLEAN /\ cooled \in BOOLEAN /\ authFailed \in BOOLEAN
      /\ behind \in BOOLEAN /\ intact \in BOOLEAN
  BY Zenon DEF Init
<1> QED
  BY <1>1, RestLimits, RunBound DEF Init, TypeOK

\* Every reachable state is well typed: the queue holds commands, the records
\* of what has been processed hold keys, the breaker counts within its bound.
THEOREM PipelineTypeCorrect == Spec => []TypeOK
  BY PipelineInit, TypeStep, PTL DEF Spec

-------------------------------------------------------------------------------
(***************************************************************************)
(* One item per key.                                                       *)
(***************************************************************************)

\* What a restart needs in addition: the file has no key twice either, and
\* nothing is left in memory when the EA is down.
Unique ==
    /\ stage = "down" => queue = {} /\ failed = {}
    /\ \A c \in pendingFile : \A d \in pendingFile : KeyOf[c] = KeyOf[d] => c = d
    /\ OnePerKey

\* A command that is no duplicate brings a new key.
LEMMA NewKey ==
    ASSUME NEW c, ~Duplicate(c)
    PROVE  \A d \in queue \cup failed : KeyOf[d] # KeyOf[c]
  BY DEF Duplicate, ItemsWithKey

\* The steps of one command in the queue leave no key twice.
LEMMA UniqueMark ==
    ASSUME Unique, NEW c \in queue, stage # "down", stage' # "down",
           MarkCompleted(c) \/ MarkFailed(c)
    PROVE  Unique'
  BY DEF Unique, OnePerKey, MarkCompleted, MarkFailed, PersistRest, Unsaved, Torn

\* No step brings a second item of a key into the queue or into the file.
LEMMA UniqueStep == Unique /\ [Next]_vars => Unique'
<1> SUFFICES ASSUME Unique, [Next]_vars PROVE Unique'
  OBVIOUS
<1>1. CASE UNCHANGED <<memory, pendingFile>> /\ stage' # "down"
  BY <1>1 DEF Unique, OnePerKey, memory
<1>2. ASSUME Forget, UNCHANGED pendingFile PROVE Unique'
  BY <1>2 DEF Unique, OnePerKey, Forget
<1>3. CASE FetchPending \/ FetchFails \/ SkipPoll \/ EndIngest \/ EndCycle
  BY <1>1, <1>3 DEF FetchPending, FetchFails, SkipPoll, EndIngest, EndCycle, files
<1>4. CASE CoolDown \/ UNCHANGED vars
  BY <1>4 DEF CoolDown, vars, memory, files, Unique, OnePerKey
<1>5. ASSUME NEW c \in Commands, IngestDuplicate(c) PROVE Unique'
  BY <1>1, <1>5 DEF IngestDuplicate, files
<1>6. ASSUME NEW c \in Commands, IngestNew(c) PROVE Unique'
  <2>1. \A d \in queue \cup failed : KeyOf[d] # KeyOf[c]
    BY <1>6, NewKey DEF IngestNew
  <2> QED
    BY <1>6, <2>1 DEF IngestNew, Enqueue, Unique, OnePerKey
<1>7. ASSUME NEW c \in Commands, SkipProcessed(c) \/ Refuse(c) \/ Execute(c)
      PROVE  Unique'
  <2>1. c \in queue /\ stage = "cycle" /\ stage' = "cycle"
    BY <1>7 DEF SkipProcessed, Refuse, Execute, Handle, DequeueNext
  <2> QED
    BY <1>7, <2>1, UniqueMark DEF SkipProcessed, Refuse, Execute
<1>8. ASSUME NEW c \in Commands, ExecuteUnrecorded(c) PROVE Unique'
  BY <1>8 DEF ExecuteUnrecorded, Unique, OnePerKey
<1>9. CASE Stop
  BY <1>2, <1>9 DEF Stop, End, files
<1>10. CASE RecoverOnStartup
  BY <1>10 DEF RecoverOnStartup, Resave, SomePending, Torn, Unique, OnePerKey
<1>11. CASE DiesInRecovery
  BY <1>11 DEF DiesInRecovery, SomePending, memory, Unique, OnePerKey
<1>12. ASSUME NEW c \in Commands, DiesBeforeAck(c) PROVE Unique'
  <2>1. \A d \in queue \cup failed : KeyOf[d] # KeyOf[c]
    BY <1>12, NewKey DEF DiesBeforeAck
  <2> QED
    BY <1>12, <2>1 DEF DiesBeforeAck, Forget, Unique, OnePerKey
<1>13. ASSUME NEW c \in Commands, AbortsOnDeleted(c) PROVE Unique'
  BY <1>13 DEF AbortsOnDeleted, Unsaved, Torn, End, Forget, Unique, OnePerKey
<1>14. ASSUME NEW c \in Commands, DiesInCommand(c) PROVE Unique'
  BY <1>2, <1>14 DEF DiesInCommand, End
<1> QED
  BY <1>3, <1>4, <1>5, <1>6, <1>7, <1>8, <1>9, <1>10, <1>11, <1>12, <1>13, <1>14
  DEF Next, OnTimer, Ingest, ProcessNext, Dies

\* A request has at most one item, pending or failed, however often it is
\* posted and whatever restarts, crashes and failing files come in between.
THEOREM OnePerKeyCorrect == Spec => []OnePerKey
<1>1. Init => Unique
  BY DEF Init, Unique, OnePerKey
<1>2. Unique => OnePerKey
  BY DEF Unique
<1> QED
  BY <1>1, <1>2, UniqueStep, PTL DEF Spec

-------------------------------------------------------------------------------
(***************************************************************************)
(* What is recorded does not run again.                                    *)
(***************************************************************************)

\* The store knows at least the keys of its file while the EA runs.
KeysLoaded == stage # "down" => keyFile \subseteq keys

\* Keys are added to both, and a restart loads them.
LEMMA LoadedStep == KeysLoaded /\ [Next]_vars => KeysLoaded'
<1> SUFFICES ASSUME KeysLoaded, [Next]_vars PROVE KeysLoaded'
  OBVIOUS
<1> USE DEF KeysLoaded, memory, files
<1>1. CASE FetchPending \/ FetchFails \/ SkipPoll \/ EndIngest \/ EndCycle
  BY <1>1 DEF FetchPending, FetchFails, SkipPoll, EndIngest, EndCycle
<1>2. CASE CoolDown \/ UNCHANGED vars
  BY <1>2 DEF CoolDown, vars
<1>3. ASSUME NEW c \in Commands, Ingest(c) PROVE KeysLoaded'
  BY <1>3 DEF Ingest, IngestDuplicate, IngestNew
<1>4. ASSUME NEW c \in Commands, ProcessNext(c) PROVE KeysLoaded'
  BY <1>4 DEF ProcessNext, SkipProcessed, Refuse, Execute, ExecuteUnrecorded, Handle
<1>5. CASE Stop
  BY <1>5 DEF Stop, End, Forget
<1>6. CASE RecoverOnStartup
  BY <1>6 DEF RecoverOnStartup
<1>7. CASE DiesInRecovery
  BY <1>7 DEF DiesInRecovery
<1>8. ASSUME NEW c \in Commands, Dies(c) PROVE KeysLoaded'
  BY <1>8 DEF Dies, DiesBeforeAck, AbortsOnDeleted, DiesInCommand, End, Forget
<1> QED
  BY <1>1, <1>2, <1>3, <1>4, <1>5, <1>6, <1>7, <1>8 DEF Next, OnTimer

\* Only the handler of a command counts a run, and only if its key is unknown.
LEMMA RunsStep ==
    ASSUME [Next]_vars
    PROVE  \/ UNCHANGED runs
           \/ \E c \in Commands : Handle(c)
<1>1. CASE FetchPending \/ FetchFails \/ SkipPoll \/ EndIngest \/ EndCycle
  BY <1>1 DEF FetchPending, FetchFails, SkipPoll, EndIngest, EndCycle, past
<1>2. CASE CoolDown \/ Stop \/ RecoverOnStartup \/ DiesInRecovery \/ UNCHANGED vars
  BY <1>2 DEF CoolDown, Stop, RecoverOnStartup, DiesInRecovery, vars, past
<1>3. ASSUME NEW c \in Commands, Ingest(c) \/ ProcessNext(c) \/ Dies(c)
      PROVE  UNCHANGED runs \/ Handle(c)
  BY <1>3 DEF Ingest, IngestDuplicate, IngestNew, ProcessNext, SkipProcessed,
     Refuse, Execute, ExecuteUnrecorded, Dies, DiesBeforeAck, AbortsOnDeleted,
     DiesInCommand, past
<1> QED
  BY <1>1, <1>2, <1>3 DEF Next, OnTimer

\* Once the key of a request is in the file, no handler runs for it again, in
\* this session or in a later one, whatever dies or fails.
THEOREM RecordedNeverRunsAgainCorrect == Spec => RecordedNeverRunsAgain
<1>1. Init => KeysLoaded /\ TypeOK
  BY PipelineInit DEF Init, KeysLoaded
<1>2. KeysLoaded /\ TypeOK /\ [Next]_vars
         => [\A c \in Commands :
                 KeyOf[c] \in keyFile \ {NoKey} => runs'[c] = runs[c]]_vars
  <2> SUFFICES ASSUME KeysLoaded, TypeOK, [Next]_vars, NEW c \in Commands,
                      KeyOf[c] \in keyFile \ {NoKey}
               PROVE  runs'[c] = runs[c]
    OBVIOUS
  <2>1. ASSUME NEW d \in Commands, Handle(d) PROVE runs'[c] = runs[c]
    <3>1. stage = "cycle" /\ ~IsProcessed(d)
      BY <2>1 DEF Handle
    <3>2. c # d
      BY <3>1 DEF IsProcessed, KeysLoaded
    <3> QED
      BY <2>1, <3>2 DEF Handle, TypeOK
  <2> QED
    BY <2>1, RunsStep
<1> QED
  BY <1>1, <1>2, LoadedStep, TypeStep, PTL DEF Spec, RecordedNeverRunsAgain

-------------------------------------------------------------------------------
(***************************************************************************)
(* What was acknowledged is kept.                                          *)
(***************************************************************************)

\* A key that memory or file knows is the key of a command that has run, and a
\* failed item is one that was refused.
Told ==
    /\ \A k \in (completed \cup keys \cup keyFile) \ {NoKey} :
           \E d \in Commands : KeyOf[d] = k /\ runs[d] > 0
    /\ failed \subseteq refused

\* While nothing was lost: memory and file go together, what the file still
\* holds and memory does not is settled, and the server was not deceived.
Kept ==
    intact =>
        /\ stage = "down" => ~behind
        /\ QueueIsOnDisk
        /\ stage # "down" => \A c \in pendingFile \ queue : Settled(c)
        /\ AckedIsKept

\* The past only grows.
LEMMA PastGrows ==
    ASSUME TypeOK, [Next]_vars
    PROVE  /\ \A c \in Commands : runs[c] > 0 => runs'[c] > 0
           /\ refused \subseteq refused'
<1>1. \A c \in Commands : runs[c] > 0 => runs'[c] > 0
  <2>1. ASSUME NEW c \in Commands, Handle(c), NEW d \in Commands, runs[d] > 0
        PROVE  runs'[d] > 0
    BY <2>1, RunBound DEF Handle, TypeOK
  <2> QED
    BY <2>1, RunsStep
<1>2. CASE FetchPending \/ FetchFails \/ SkipPoll \/ EndIngest \/ EndCycle
  BY <1>1, <1>2 DEF FetchPending, FetchFails, SkipPoll, EndIngest, EndCycle, past
<1>3. CASE CoolDown \/ Stop \/ RecoverOnStartup \/ DiesInRecovery \/ UNCHANGED vars
  BY <1>1, <1>3 DEF CoolDown, Stop, RecoverOnStartup, DiesInRecovery, vars, past
<1>4. ASSUME NEW c \in Commands, Ingest(c) \/ ProcessNext(c) \/ Dies(c)
      PROVE  refused \subseteq refused'
  BY <1>4 DEF Ingest, IngestDuplicate, IngestNew, ProcessNext, SkipProcessed,
     Refuse, Execute, ExecuteUnrecorded, Dies, DiesBeforeAck, AbortsOnDeleted,
     DiesInCommand, past
<1> QED
  BY <1>1, <1>2, <1>3, <1>4 DEF Next, OnTimer

\* So what is settled stays settled.
LEMMA SettledStays ==
    ASSUME TypeOK, [Next]_vars, NEW c, Settled(c)
    PROVE  Settled(c)'
  BY PastGrows DEF Settled, HasRun

\* A command has run once its handler has.
LEMMA HandleRuns ==
    ASSUME TypeOK, NEW c \in Commands, Handle(c)
    PROVE  runs'[c] > 0 /\ Settled(c)'
<1>1. runs'[c] > 0
  BY RunBound DEF Handle, TypeOK
<1> QED
  BY <1>1 DEF Settled, HasRun, SameRequest

\* The keys stay true of the past.
LEMMA ToldStep == TypeOK /\ Told /\ [Next]_vars => Told'
<1> SUFFICES ASSUME TypeOK, Told, [Next]_vars PROVE Told'
  OBVIOUS
<1> USE PastGrows DEF Told, memory, files
<1>1. CASE FetchPending \/ FetchFails \/ SkipPoll \/ EndIngest \/ EndCycle
  BY <1>1 DEF FetchPending, FetchFails, SkipPoll, EndIngest, EndCycle
<1>2. CASE CoolDown \/ UNCHANGED vars
  BY <1>2 DEF CoolDown, vars
<1>3. ASSUME NEW c \in Commands, Ingest(c) PROVE Told'
  BY <1>3 DEF Ingest, IngestDuplicate, IngestNew
<1>4. ASSUME NEW c \in Commands, SkipProcessed(c) PROVE Told'
  BY <1>4 DEF SkipProcessed, MarkCompleted, IsProcessed
<1>5. ASSUME NEW c \in Commands, Refuse(c) PROVE Told'
  BY <1>5 DEF Refuse, MarkFailed
<1>6. ASSUME NEW c \in Commands, Execute(c) PROVE Told'
  BY <1>6, HandleRuns DEF Execute, MarkCompleted, KeyFor
<1>7. ASSUME NEW c \in Commands, ExecuteUnrecorded(c) PROVE Told'
  BY <1>7, HandleRuns DEF ExecuteUnrecorded, KeyFor
<1>8. CASE Stop
  BY <1>8 DEF Stop, End, Forget
<1>9. CASE RecoverOnStartup
  BY <1>9 DEF RecoverOnStartup
<1>10. CASE DiesInRecovery
  BY <1>10 DEF DiesInRecovery
<1>11. ASSUME NEW c \in Commands, DiesBeforeAck(c) \/ AbortsOnDeleted(c)
       PROVE  Told'
  BY <1>11 DEF DiesBeforeAck, AbortsOnDeleted, End, Forget
<1>12. ASSUME NEW c \in Commands, DiesInCommand(c) PROVE Told'
  BY <1>12, HandleRuns DEF DiesInCommand, End, Forget, KeyFor
<1> QED
  BY <1>1, <1>2, <1>3, <1>4, <1>5, <1>6, <1>7, <1>8, <1>9, <1>10, <1>11, <1>12
  DEF Next, OnTimer, Ingest, ProcessNext, Dies

\* A duplicate belongs to a request that is settled or waits in the queue.
LEMMA DuplicateIsKept ==
    ASSUME TypeOK, Told, NEW c \in Commands, Duplicate(c), OwnKey(c)
    PROVE  Settled(c) \/ \E d \in queue : SameRequest(c, d)
<1>1. \A d \in Commands : KeyOf[c] = KeyOf[d] => SameRequest(c, d)
  BY DEF OwnKey
<1>2. ASSUME NEW d \in queue \cup failed, KeyOf[d] = KeyOf[c]
      PROVE  Settled(c) \/ \E i \in queue : SameRequest(c, i)
  BY <1>1, <1>2 DEF Told, Settled, TypeOK
<1>3. CASE KeyOf[c] # NoKey /\ KeyOf[c] \in completed
  BY <1>3 DEF Told, Settled, HasRun, SameRequest
<1> QED
  BY <1>2, <1>3 DEF Duplicate, ItemsWithKey

\* The command that MarkCompleted or MarkFailed is called for is settled.
LEMMA MarkedIsSettled ==
    ASSUME TypeOK, Told, [Next]_vars, NEW c \in Commands,
           SkipProcessed(c) \/ Refuse(c) \/ Execute(c)
    PROVE  Settled(c)'
<1>1. CASE SkipProcessed(c)
  <2>1. Settled(c)
    BY <1>1 DEF SkipProcessed, IsProcessed, Told, Settled, HasRun, SameRequest
  <2> QED
    BY <2>1, SettledStays
<1>2. CASE Refuse(c)
  BY <1>2 DEF Refuse, Settled, SameRequest
<1>3. CASE Execute(c)
  BY <1>3, HandleRuns DEF Execute
<1> QED
  BY <1>1, <1>2, <1>3

\* A request settles all its commands.
LEMMA SameRequestSettled ==
    ASSUME NEW c, NEW d, SameRequest(c, d)
    PROVE  /\ Settled(d) => Settled(c)
           /\ Settled(d)' => Settled(c)'
<1>1. \A e : SameRequest(d, e) => SameRequest(c, e)
  BY DEF SameRequest
<1> QED
  BY <1>1 DEF Settled, HasRun

\* What was torn stays torn.
LEMMA IntactBefore ==
    ASSUME TypeOK, [Next]_vars, intact'
    PROVE  intact
<1>1. CASE FetchPending \/ FetchFails \/ SkipPoll \/ EndIngest \/ EndCycle
  BY <1>1 DEF FetchPending, FetchFails, SkipPoll, EndIngest, EndCycle, health
<1>2. CASE CoolDown \/ Stop \/ RecoverOnStartup \/ DiesInRecovery \/ UNCHANGED vars
  BY <1>2, EndIs, ResaveType DEF CoolDown, Stop, RecoverOnStartup, DiesInRecovery,
     vars, health
<1>3. ASSUME NEW c \in Commands, Ingest(c) \/ ProcessNext(c)
      PROVE  intact
  BY <1>3 DEF Ingest, IngestDuplicate, IngestNew, ProcessNext, SkipProcessed,
     Refuse, Execute, ExecuteUnrecorded, MarkCompleted, MarkFailed, PersistRest,
     Torn, health
<1>4. ASSUME NEW c \in Commands, Dies(c) PROVE intact
  BY <1>4, EndIs DEF Dies, DiesBeforeAck, AbortsOnDeleted, DiesInCommand, Torn
<1> QED
  BY <1>1, <1>2, <1>3, <1>4 DEF Next, OnTimer

\* Acknowledged commands are kept if only settled ones stop waiting and what
\* is newly acknowledged waits or is settled.
LEMMA AckedFollows ==
    ASSUME TypeOK, [Next]_vars, AckedIsKept,
           \A d \in Waiting : d \in Waiting' \/ Settled(d)',
           \A c \in acked' \ acked : OwnKey(c) =>
               Settled(c)' \/ \E d \in Waiting' : SameRequest(c, d)
    PROVE  AckedIsKept'
<1>1. ASSUME NEW c \in acked, OwnKey(c)
      PROVE  Settled(c)' \/ \E d \in Waiting' : SameRequest(c, d)
  <2>1. CASE Settled(c)
    BY <2>1, SettledStays
  <2>2. ASSUME NEW d \in Waiting, SameRequest(c, d)
        PROVE  Settled(c)' \/ \E i \in Waiting' : SameRequest(c, i)
    <3>1. CASE d \in Waiting'
      BY <2>2, <3>1
    <3>2. CASE Settled(d)'
      BY <2>2, <3>2, SameRequestSettled
    <3> QED
      BY <3>1, <3>2
  <2> QED
    BY <1>1, <2>1, <2>2 DEF AckedIsKept, OwnKeys, TypeOK
<1> QED
  BY <1>1 DEF AckedIsKept, OwnKeys

\* The strengthened invariant is preserved.
LEMMA KeptStep ==
    TypeOK /\ Told /\ Kept /\ [Next]_vars => Kept'
<1> DEFINE Goal ==
      /\ stage' = "down" => ~behind'
      /\ QueueIsOnDisk'
      /\ stage' # "down" => \A c \in pendingFile' \ queue' : Settled(c)'
      /\ AckedIsKept'
<1> SUFFICES ASSUME TypeOK, Told, Kept, [Next]_vars, intact' PROVE Goal
  BY DEF Kept
<1>a. /\ stage = "down" => ~behind
      /\ QueueIsOnDisk
      /\ stage # "down" => \A c \in pendingFile \ queue : Settled(c)
      /\ AckedIsKept
  BY IntactBefore DEF Kept
<1>b. ASSUME UNCHANGED <<queue, pendingFile, behind, acked>>,
             stage' = "down" <=> stage = "down"
      PROVE  Goal
  BY <1>a, <1>b, SettledStays, AckedFollows DEF QueueIsOnDisk, Waiting
<1>c. ASSUME End, UNCHANGED <<pendingFile, acked>> PROVE Goal
  <2>1. behind' = FALSE /\ queue' = {} /\ stage' = "down"
    BY <1>c, EndIs, ForgetType
  <2>2. Waiting' = Waiting
    BY <1>c, <2>1, EndIs DEF Waiting
  <2> QED
    BY <1>a, <1>c, <2>1, <2>2, AckedFollows DEF QueueIsOnDisk
<1>d. ASSUME NEW c, stage # "down", pendingFile' = queue \cup {c}, behind' = FALSE
      PROVE  \A d \in Waiting : d \in Waiting' \/ Settled(d)'
  BY <1>a, <1>d, SettledStays DEF Waiting
<1>1. CASE FetchPending \/ FetchFails \/ SkipPoll \/ EndIngest \/ EndCycle
  BY <1>1, <1>b DEF FetchPending, FetchFails, SkipPoll, EndIngest, EndCycle,
     memory, files, health
<1>2. CASE CoolDown \/ UNCHANGED vars
  BY <1>2, <1>b DEF CoolDown, vars, memory, files, health
<1>3. ASSUME NEW c \in Commands, IngestDuplicate(c) PROVE Goal
  <2>1. /\ UNCHANGED <<queue, pendingFile, behind>>
        /\ stage # "down" /\ stage' = stage /\ Duplicate(c)
    BY <1>3 DEF IngestDuplicate, memory, files, health
  <2>2. acked' \in {acked, acked \cup {c}}
    BY <1>3, AcknowledgeType DEF IngestDuplicate
  <2>3. OwnKey(c) => Settled(c)' \/ \E d \in Waiting' : SameRequest(c, d)
    BY <1>a, <2>1, DuplicateIsKept, SettledStays DEF QueueIsOnDisk, Waiting
  <2>4. AckedIsKept'
    BY <1>a, <2>1, <2>2, <2>3, AckedFollows DEF Waiting
  <2> QED
    BY <1>a, <2>1, <2>4, SettledStays DEF QueueIsOnDisk
<1>4. ASSUME NEW c \in Commands, IngestNew(c) PROVE Goal
  <2>1. /\ queue' = queue \cup {c} /\ pendingFile' = queue \cup {c}
        /\ behind' = FALSE /\ stage # "down" /\ stage' # "down"
    BY <1>4 DEF IngestNew, Enqueue
  <2>2. acked' \in {acked, acked \cup {c}}
    BY <1>4, AcknowledgeType DEF IngestNew
  <2>3. AckedIsKept'
    BY <1>a, <1>d, <2>1, <2>2, AckedFollows DEF SameRequest, Waiting
  <2> QED
    BY <2>1, <2>3 DEF QueueIsOnDisk
<1>5. ASSUME NEW c \in Commands, SkipProcessed(c) \/ Refuse(c) \/ Execute(c)
      PROVE  Goal
  <2>1. /\ queue' = queue \ {c} /\ c \in queue /\ acked' = acked
        /\ stage = "cycle" /\ stage' = "cycle"
        /\ \/ UNCHANGED <<pendingFile, behind>>
           \/ pendingFile' = queue \ {c} /\ behind' = FALSE
    BY <1>5 DEF SkipProcessed, Refuse, Execute, Handle, DequeueNext,
       MarkCompleted, MarkFailed, PersistRest, Unsaved, Torn, health
  <2>2. Settled(c)'
    BY <1>5, MarkedIsSettled
  <2>3. \A d \in pendingFile \ queue : Settled(d)'
    BY <1>a, <2>1, SettledStays
  <2>4. \A d \in Waiting : d \in Waiting' \/ Settled(d)'
    BY <1>a, <2>1, <2>2, <2>3 DEF Waiting
  <2>5. AckedIsKept'
    BY <1>a, <2>1, <2>4, AckedFollows
  <2> QED
    BY <1>a, <2>1, <2>2, <2>3, <2>5 DEF QueueIsOnDisk
<1>6. ASSUME NEW c \in Commands, ExecuteUnrecorded(c) PROVE Goal
  BY <1>6, <1>b DEF ExecuteUnrecorded, Handle
<1>7. CASE Stop
  BY <1>7, <1>c DEF Stop, files
<1>8. CASE RecoverOnStartup
  <2>1. /\ queue' = pendingFile /\ acked' = acked
        /\ stage = "down" /\ stage' = "idle"
        /\ pendingFile' \in SUBSET pendingFile
        /\ behind' \/ UNCHANGED <<pendingFile, behind>>
    BY <1>8, ResaveType DEF RecoverOnStartup
  <2>2. \A d \in Waiting : d \in Waiting'
    BY <1>a, <2>1 DEF Waiting
  <2> QED
    BY <1>a, <2>1, <2>2, AckedFollows DEF QueueIsOnDisk
<1>9. CASE DiesInRecovery
  BY <1>9 DEF DiesInRecovery
<1>10. ASSUME NEW c \in Commands, DiesBeforeAck(c) PROVE Goal
  <2>1. /\ pendingFile' = queue \cup {c} /\ stage # "down" /\ acked' = acked
        /\ queue' = {} /\ stage' = "down" /\ behind' = FALSE
    BY <1>10 DEF DiesBeforeAck, Forget
  <2>2. AckedIsKept'
    BY <1>a, <1>d, <2>1, AckedFollows
  <2> QED
    BY <2>1, <2>2 DEF QueueIsOnDisk
<1>11. ASSUME NEW c \in Commands, AbortsOnDeleted(c) PROVE Goal
  BY <1>11, <1>c DEF AbortsOnDeleted, Unsaved, Torn
<1>12. ASSUME NEW c \in Commands, DiesInCommand(c) PROVE Goal
  BY <1>12, <1>c DEF DiesInCommand
<1> QED
  BY <1>1, <1>2, <1>3, <1>4, <1>5, <1>6, <1>7, <1>8, <1>9, <1>10, <1>11, <1>12
  DEF Next, OnTimer, Ingest, ProcessNext, Dies

\* All of it together.
LEMMA KeptAlways ==
    Spec => [](TypeOK /\ Told /\ Kept)
<1>1. Init => TypeOK /\ Told /\ Kept
  BY PipelineInit DEF Init, Told, Kept, QueueIsOnDisk, AckedIsKept, OwnKeys, Waiting
<1>2. TypeOK /\ Told /\ Kept /\ [Next]_vars => TypeOK' /\ Told' /\ Kept'
  BY TypeStep, ToldStep, KeptStep
<1> QED
  BY <1>1, <1>2, PTL DEF Spec

\* A command that the server was told it may forget waits or has been settled, as
\* long as no write was torn, no recovery was cut short and no session ended
\* before it had saved what its recovery could not; failing requests, failing
\* saves, also those of a recovery, and deaths between two effects are allowed.
THEOREM AckedIsKeptCorrect ==
    Spec => []AckedIsKeptWhileIntact
<1>1. Kept => AckedIsKeptWhileIntact
  BY DEF Kept, AckedIsKeptWhileIntact
<1> QED
  BY <1>1, KeptAlways, PTL

\* What waits in memory waits in the file, under the same condition, except
\* between a recovery whose saves failed and the next save.
THEOREM QueueIsOnDiskCorrect ==
    Spec => []QueueIsOnDiskWhileIntact
<1>1. Kept => QueueIsOnDiskWhileIntact
  BY DEF Kept, QueueIsOnDiskWhileIntact
<1> QED
  BY <1>1, KeptAlways, PTL

-------------------------------------------------------------------------------
(***************************************************************************)
(* The pipeline delivers.                                                  *)
(***************************************************************************)

\* Two commands have one request if they are the same request.
LEMMA OneRequest ==
    ASSUME NEW c \in Commands, NEW d \in Commands
    PROVE  Request[c] = Request[d] <=> SameRequest(c, d)
<1>1. SameRequest(c, d) => \A e \in Commands : SameRequest(c, e) <=> SameRequest(d, e)
  BY DEF SameRequest
<1>2. d \in Request[d]
  BY DEF Request, SameRequest
<1>3. Request[c] = Request[d] => d \in Request[c]
  BY <1>2
<1>4. Request[c] = Request[d] => SameRequest(c, d)
  BY <1>3 DEF Request
<1> QED
  BY <1>1, <1>4 DEF Request

\* A request is among those of some commands if one of them has it.
LEMMA RequestAmong ==
    ASSUME NEW S \in SUBSET Commands, NEW c \in Commands
    PROVE  Request[c] \in RequestsOf(S) <=> \E d \in S : SameRequest(c, d)
BY OneRequest DEF RequestsOf

\* The requests that have been served are those that are settled.
LEMMA ServedIsSettled ==
    ASSUME TypeOK, NEW c \in Commands
    PROVE  Request[c] \in RequestsOf(Done) <=> Settled(c)
<1>1. Done \in SUBSET Commands
  BY DEF TypeOK, Done
<1>2. (\E d \in Done : SameRequest(c, d)) <=> Settled(c)
  BY DEF Done, Settled, HasRun, TypeOK
<1> QED
  BY <1>1, <1>2, RequestAmong

LEMMA ServedIsSettledNext ==
    ASSUME TypeOK', NEW c \in Commands
    PROVE  Request[c] \in RequestsOf(Done)' <=> Settled(c)'
<1>1. Done' \in SUBSET Commands
  BY DEF TypeOK, Done
<1>2. (\E d \in Done' : SameRequest(c, d)) <=> Settled(c)'
  BY DEF Done, Settled, HasRun, TypeOK
<1>3. RequestsOf(Done)' = RequestsOf(Done')
  BY DEF RequestsOf
<1> QED
  BY <1>1, <1>2, <1>3, RequestAmong

\* One command more is one request more, perhaps a known one.
LEMMA RequestAdded ==
    ASSUME NEW S, NEW c
    PROVE  RequestsOf(S \cup {c}) = RequestsOf(S) \cup {Request[c]}
BY DEF RequestsOf

LEMMA RequestsGrow ==
    ASSUME NEW S, NEW T, S \subseteq T
    PROVE  RequestsOf(S) \subseteq RequestsOf(T)
BY DEF RequestsOf

\* The requests told to the server stay told.
LEMMA AckedGrows ==
    ASSUME [Next]_vars
    PROVE  acked \subseteq acked'
<1>1. CASE FetchPending \/ FetchFails \/ SkipPoll \/ EndIngest \/ EndCycle
  BY <1>1 DEF FetchPending, FetchFails, SkipPoll, EndIngest, EndCycle
<1>2. CASE CoolDown \/ Stop \/ RecoverOnStartup \/ DiesInRecovery \/ UNCHANGED vars
  BY <1>2 DEF CoolDown, Stop, RecoverOnStartup, DiesInRecovery, vars
<1>3. ASSUME NEW c \in Commands, Ingest(c) PROVE acked \subseteq acked'
  BY <1>3 DEF Ingest, IngestDuplicate, IngestNew, Acknowledge
<1>4. ASSUME NEW c \in Commands, ProcessNext(c) \/ Dies(c)
      PROVE  acked \subseteq acked'
  BY <1>4 DEF ProcessNext, SkipProcessed, Refuse, Execute, ExecuteUnrecorded,
     Dies, DiesBeforeAck, AbortsOnDeleted, DiesInCommand
<1> QED
  BY <1>1, <1>2, <1>3, <1>4 DEF Next, OnTimer

\* A handler that runs serves the request of its command and no other.
LEMMA HandleServes ==
    ASSUME TypeOK, NEW c \in Commands, Handle(c), UNCHANGED refused
    PROVE  RequestsOf(Done') = RequestsOf(Done) \cup {Request[c]}
<1>1. \A d \in Commands : runs'[d] > 0 <=> runs[d] > 0 \/ d = c
  BY RunBound DEF Handle, TypeOK
<1>2. Done' = Done \cup {c}
  BY <1>1 DEF Done
<1> QED
  BY <1>2, RequestAdded

\* The command that leaves the queue is served with its step.
LEMMA MarkedIsServed ==
    ASSUME TypeOK, Told, NEW c \in Commands,
           SkipProcessed(c) \/ Refuse(c) \/ Execute(c)
    PROVE  RequestsOf(Done') = RequestsOf(Done) \cup {Request[c]}
<1>1. CASE SkipProcessed(c)
  <2>1. Settled(c)
    BY <1>1 DEF SkipProcessed, IsProcessed, Told, Settled, HasRun, SameRequest
  <2>2. UNCHANGED past
    BY <1>1 DEF SkipProcessed, MarkCompleted
  <2>3. Done' = Done
    BY <2>2 DEF Done, past
  <2> QED
    BY <2>1, <2>3, ServedIsSettled
<1>2. CASE Refuse(c)
  <2>1. Done' = Done \cup {c}
    BY <1>2 DEF Refuse, Done
  <2> QED
    BY <2>1, RequestAdded
<1>3. CASE Execute(c)
  BY <1>3, HandleServes DEF Execute
<1> QED
  BY <1>1, <1>2, <1>3

\* If only settled commands stop waiting, only served requests are given up.
LEMMA UnservedStay ==
    ASSUME TypeOK', NEW S \in SUBSET Commands,
           \A d \in S : d \in Waiting' \/ Settled(d)'
    PROVE  RequestsOf(S) \ RequestsOf(Done)' \subseteq RequestsOf(Waiting')
<1> SUFFICES ASSUME NEW d \in S, Request[d] \notin RequestsOf(Done)'
             PROVE  Request[d] \in RequestsOf(Waiting')
  BY DEF RequestsOf
<1> QED
  BY ServedIsSettledNext DEF RequestsOf

\* What is told with an acknowledgement.
LEMMA ToldAdded ==
    ASSUME NEW S, NEW c \in Commands
    PROVE  RequestsOf((S \cup {c}) \cap OwnKeys) =
              RequestsOf(S \cap OwnKeys) \cup (IF OwnKey(c) THEN {Request[c]} ELSE {})
<1>1. CASE OwnKey(c)
  BY <1>1 DEF RequestsOf, OwnKeys
<1>2. CASE ~OwnKey(c)
  BY <1>2 DEF RequestsOf, OwnKeys
<1> QED
  BY <1>1, <1>2

\* Every step of the pipeline is a step of the delivery, or none.
LEMMA DeliveryStep ==
    TypeOK /\ Told /\ Kept /\ [Next]_vars
       => [Delivery!DeliveryNext]_(Delivery!deliveryVars)
<1> SUFFICES ASSUME TypeOK, Told, Kept, [Next]_vars
             PROVE  [Delivery!DeliveryNext]_(Delivery!deliveryVars)
  OBVIOUS
<1>0. TypeOK' /\ Told' /\ Kept'
  BY TypeStep, ToldStep, KeptStep
<1>1. /\ RequestsOf(Waiting)' = RequestsOf(Waiting')
      /\ RequestsOf(Done)' = RequestsOf(Done')
      /\ RequestsOf(acked \cap OwnKeys)' = RequestsOf(acked' \cap OwnKeys)
  BY DEF RequestsOf, OwnKeys
<1>2. /\ Done \subseteq Done' /\ Done' \subseteq Commands
      /\ Done \subseteq Commands
      /\ acked \cap OwnKeys \subseteq acked' \cap OwnKeys
      /\ acked' \cap OwnKeys \subseteq Commands
  BY <1>0, PastGrows, AckedGrows DEF Done, TypeOK, OwnKeys
<1>3. CASE ~intact'
  <2>0. Waiting' \subseteq Commands
    BY <1>0 DEF Waiting, TypeOK
  <2>1. Delivery!Damage
    BY <1>1, <1>2, <1>3, <2>0, RequestsGrow DEF Delivery!Damage
  <2> QED
    BY <2>1 DEF Delivery!DeliveryNext
<1>4. CASE intact'
  <2>0. /\ intact /\ QueueIsOnDisk
        /\ stage = "down" => ~behind
        /\ queue \subseteq Waiting
        /\ stage # "down" => \A d \in Waiting \ queue : Settled(d)
    BY <1>4, IntactBefore DEF Kept, QueueIsOnDisk, Waiting
  <2>1. ASSUME UNCHANGED <<Waiting, past>>,
               RequestsOf(acked' \cap OwnKeys) = RequestsOf(acked \cap OwnKeys)
        PROVE  UNCHANGED Delivery!deliveryVars
    BY <1>1, <1>4, <2>0, <2>1 DEF Delivery!deliveryVars, Done, past
  <2>a. ASSUME End, UNCHANGED pendingFile PROVE Waiting' = Waiting
    BY <1>4, <2>a, EndIs, ForgetType DEF Waiting
  <2>2. ASSUME NEW c \in Commands, IngestDuplicate(c)
        PROVE  [Delivery!DeliveryNext]_(Delivery!deliveryVars)
    <3>1. UNCHANGED <<Waiting, past>> /\ Duplicate(c)
      BY <2>2 DEF IngestDuplicate, memory, files, health, Waiting
    <3>2. acked' \in {acked, acked \cup {c}}
      BY <2>2, AcknowledgeType DEF IngestDuplicate
    <3>3. CASE acked' = acked \/ ~OwnKey(c)
      <4>1. RequestsOf(acked' \cap OwnKeys) = RequestsOf(acked \cap OwnKeys)
        BY <3>2, <3>3, ToldAdded
      <4> QED BY <1>1, <2>1, <3>1, <4>1
    <3>4. CASE acked' = acked \cup {c} /\ OwnKey(c)
      <4>1. Request[c] \in RequestsOf(Waiting) \cup RequestsOf(Done)
        <5>1. CASE Settled(c)
          BY <5>1, ServedIsSettled
        <5>2. ASSUME NEW d \in queue, SameRequest(c, d)
              PROVE  Request[c] \in RequestsOf(Waiting)
          BY <2>0, <5>2, RequestAmong DEF TypeOK, Waiting
        <5> QED BY <3>1, <3>4, <5>1, <5>2, DuplicateIsKept
      <4>2. RequestsOf(acked' \cap OwnKeys) =
               RequestsOf(acked \cap OwnKeys) \cup {Request[c]}
        BY <3>4, ToldAdded
      <4>3. Done' = Done
        BY <3>1 DEF Done, past
      <4>4. Delivery!Tell(Request[c])
        BY <1>1, <1>4, <2>0, <3>1, <4>1, <4>2, <4>3 DEF Delivery!Tell
      <4> QED BY <4>4 DEF Delivery!DeliveryNext, RequestsOf
    <3> QED BY <3>2, <3>3, <3>4
  <2>3. ASSUME NEW c \in Commands, IngestNew(c) \/ DiesBeforeAck(c)
        PROVE  Delivery!DeliveryNext
    <3>1. /\ stage # "down" /\ Waiting' = queue \cup {c} /\ UNCHANGED past
          /\ acked' \in {acked, acked \cup {c}}
      BY <2>3, AcknowledgeType
         DEF IngestNew, Enqueue, DiesBeforeAck, Forget, Waiting
    <3>2. Done' = Done
      BY <3>1 DEF Done, past
    <3>3. RequestsOf(Waiting') \subseteq RequestsOf(Waiting) \cup {Request[c]}
      BY <2>0, <3>1 DEF RequestsOf
    <3>4. \A d \in Waiting \cup {c} : d \in Waiting' \/ Settled(d)'
      BY <2>0, <3>1, SettledStays
    <3>5. RequestsOf(Waiting \cup {c}) \ RequestsOf(Done)'
             \subseteq RequestsOf(Waiting')
      BY <1>0, <3>4, UnservedStay DEF TypeOK, Waiting
    <3>6. Delivery!KeepUnserved(RequestsOf(Waiting) \cup {Request[c]})
      BY <1>1, <3>3, <3>5, RequestAdded DEF Delivery!KeepUnserved
    <3>7. Request[c] \in RequestsOf(Waiting')
      BY <3>1 DEF RequestsOf
    <3>8. RequestsOf(acked' \cap OwnKeys) \in
             {RequestsOf(acked \cap OwnKeys),
              RequestsOf(acked \cap OwnKeys) \cup {Request[c]}}
      BY <3>1, ToldAdded
    <3>9. Delivery!Receive(Request[c])
      BY <1>1, <1>4, <2>0, <3>2, <3>6, <3>7, <3>8 DEF Delivery!Receive
    <3> QED BY <3>9 DEF Delivery!DeliveryNext, RequestsOf
  <2>4. ASSUME NEW c \in queue, c \in Commands, acked' = acked,
               RequestsOf(Done') = RequestsOf(Done) \cup {Request[c]},
               Waiting' \subseteq Waiting,
               \A d \in Waiting : d \in Waiting' \/ Settled(d)'
        PROVE  Delivery!DeliveryNext
    <3>1. Request[c] \in RequestsOf(Waiting)
      BY <2>0 DEF RequestsOf
    <3>2. RequestsOf(Waiting) \ RequestsOf(Done)'
             \subseteq RequestsOf(Waiting')
      BY <1>0, <2>4, UnservedStay DEF TypeOK, Waiting
    <3>3. Delivery!KeepUnserved(RequestsOf(Waiting))
      BY <1>1, <2>4, <3>2, RequestsGrow DEF Delivery!KeepUnserved
    <3>4. Delivery!Serve(Request[c])
      BY <1>1, <1>4, <2>0, <2>4, <3>1, <3>3 DEF Delivery!Serve
    <3> QED BY <2>4, <3>4 DEF Delivery!DeliveryNext, RequestsOf
  <2>5. ASSUME NEW c \in Commands, SkipProcessed(c) \/ Refuse(c) \/ Execute(c)
        PROVE  Delivery!DeliveryNext
    <3>1. /\ queue' = queue \ {c} /\ c \in queue /\ acked' = acked
          /\ stage = "cycle"
          /\ \/ UNCHANGED <<pendingFile, behind>>
             \/ pendingFile' = queue \ {c} /\ behind' = FALSE
      BY <1>4, <2>5 DEF SkipProcessed, Refuse, Execute, Handle, DequeueNext,
         MarkCompleted, MarkFailed, PersistRest, Unsaved, Torn, health
    <3>2. \A d \in Waiting : d \in Waiting' \/ Settled(d)'
      BY <2>0, <2>5, <3>1, MarkedIsSettled, SettledStays DEF Waiting
    <3>3. Waiting' \subseteq Waiting
      BY <2>0, <3>1 DEF Waiting
    <3> QED BY <2>4, <2>5, <3>1, <3>2, <3>3, MarkedIsServed
  <2>6. ASSUME NEW c \in Commands, ExecuteUnrecorded(c) \/ DiesInCommand(c)
        PROVE  Delivery!DeliveryNext
    <3>1. /\ Handle(c) /\ c \in queue
          /\ UNCHANGED <<acked, refused>>
      BY <2>6 DEF ExecuteUnrecorded, DiesInCommand, Handle, DequeueNext
    <3>2. Waiting' = Waiting
      BY <2>6, <2>a DEF ExecuteUnrecorded, DiesInCommand, Waiting
    <3> QED BY <2>4, <3>1, <3>2, HandleServes
  <2>7. CASE FetchPending \/ FetchFails \/ SkipPoll \/ EndIngest \/ EndCycle
    BY <2>1, <2>7 DEF FetchPending, FetchFails, SkipPoll, EndIngest, EndCycle,
       memory, files, health, Waiting
  <2>8. CASE CoolDown \/ UNCHANGED vars
    BY <2>1, <2>8 DEF CoolDown, vars, memory, files, health, past, Waiting
  <2>b. CASE Stop
    BY <2>1, <2>a, <2>b DEF Stop, files
  <2>c. CASE RecoverOnStartup
    <3>1. /\ queue' = pendingFile /\ UNCHANGED <<acked, past>> /\ stage = "down"
          /\ pendingFile' \in SUBSET pendingFile
          /\ behind' \/ UNCHANGED <<pendingFile, behind>>
      BY <1>4, <2>c, ResaveType DEF RecoverOnStartup
    <3>2. Waiting' = Waiting
      BY <2>0, <3>1 DEF Waiting
    <3> QED BY <2>1, <3>1, <3>2
  <2>9. ASSUME NEW c \in Commands, AbortsOnDeleted(c)
        PROVE  UNCHANGED Delivery!deliveryVars
    BY <1>4, <2>1, <2>9, <2>a DEF AbortsOnDeleted, Unsaved, Torn
  <2>10. CASE DiesInRecovery
    BY <1>4, <2>10 DEF DiesInRecovery
  <2> QED
    BY <2>1, <2>2, <2>3, <2>5, <2>6, <2>7, <2>8, <2>9, <2>10, <2>b, <2>c
    DEF Next, OnTimer, Ingest, ProcessNext, Dies
<1> QED
  BY <1>3, <1>4

\* Whatever requests fail, whatever cannot be saved and wherever the EA dies,
\* the pipeline tells the server only what waits or has been served, serves
\* only what waited, and gives up only what has been served.
THEOREM PipelineDelivers ==
    Spec => IsDelivery
<1>1. Init => Delivery!DeliveryInit
  BY DEF Init, Delivery!DeliveryInit, RequestsOf, OwnKeys, Done, Waiting
<1>2. TypeOK /\ Told /\ Kept /\ [Next]_vars
         => [Delivery!DeliveryNext]_(Delivery!deliveryVars)
  BY DeliveryStep
<1> QED
  BY <1>1, <1>2, KeptAlways, PTL DEF Spec, IsDelivery, Delivery!DeliverySpec
===============================================================================
