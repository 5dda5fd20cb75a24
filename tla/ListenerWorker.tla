----------------------------- MODULE ListenerWorker -----------------------------
(***************************************************************************)
(* The process that listens to Telegram and the dashboard's threads that   *)
(* start it, stop it and send it commands: ListenerWorkerClient,           *)
(* ListenerWorkerRuntime, the lock file, and the rows of                   *)
(* listener_worker_state and listener_worker_commands they share.          *)
(*                                                                         *)
(* A process is named by its number, which is its pid: the system does not *)
(* give the pid of a dead process to another one.  Every transaction and   *)
(* every read with the decision taken on it is a step.  A request waits    *)
(* eight seconds for a worker or for an answer, and goes on without it:    *)
(* only what it still does to the shared state afterwards is kept of that. *)
(* The hook of the worker to Telegram is TelethonHook's.                   *)
(***************************************************************************)
EXTENDS Integers, Sequences, SequencesExt

CONSTANTS
    Threads,        \* HTTP threads of the dashboard
    Routes,
    MaxWorkers,     \* bound on the processes that are started
    MaxCommands     \* bound on the commands that are enqueued

ASSUME WorkerBound == MaxWorkers \in Nat
ASSUME CommandBound == MaxCommands \in Nat

VARIABLES
    lock,           \* the pid in the lock file, 0 when there is no file
    row,            \* listener_worker_state: its state, pid (0 for NULL), routes
    cmds,           \* listener_worker_commands, in the order of their ids
    wk,             \* pid -> the process
    http            \* HTTP thread -> the request it is in

(* History variables.                                                      *)
VARIABLES
    raced,          \* a process was started, or the row reset, on the strength
                    \* of an outdated reading or before an earlier process had
                    \* registered itself
    unsynced        \* processes whose routes changed in a command that failed

history == <<raced, unsynced>>
vars == <<lock, row, cmds, wk, http, history>>

Pids == 1..MaxWorkers
State == {"STOPPED", "STARTING", "CONNECTING", "CONNECTED", "ERROR", "STOPPING"}
Row == [state : State, pid : Pids \cup {0}, active : SUBSET Routes]

\* A command for the worker itself has no route.
NoRoute == "none"
Kind == {"START_ROUTE", "STOP_ROUTE", "WORKER_STOP"}
Command == [kind : Kind, route : Routes \cup {NoRoute},
            status : {"PENDING", "PROCESSING", "DONE", "FAILED"}]

\* A process: where it is, the routes it listens to, the commands it has
\* claimed and not yet carried out.
Process == [at : {"unborn", "boot", "lock", "register", "connect", "loop", "sync",
                  "stopping", "drain", "release", "gone"},
            active : SUBSET Routes, batch : Seq(1..MaxCommands)]
Unborn == [at |-> "unborn", active |-> {}, batch |-> <<>>]

\* A request that is not yet over: where it is, the command it will enqueue,
\* and whether what it has read was overtaken.
Request == [at : {"claim", "enqueue", "await", "reset"},
            kind : Kind \cup {"WORKER_START"}, route : Routes \cup {NoRoute},
            overtaken : BOOLEAN]
NoRequest == [at |-> "none"]

TypeOK ==
    /\ lock \in Pids \cup {0}
    /\ row \in Row
    /\ cmds \in Seq(Command) /\ Len(cmds) <= MaxCommands
    /\ wk \in [Pids -> Process]
    /\ http \in [Threads -> Request \cup {NoRequest}]
    /\ raced \in BOOLEAN
    /\ unsynced \subseteq Pids

Init ==
    /\ lock = 0
    /\ row = [state |-> "STOPPED", pid |-> 0, active |-> {}]
    /\ cmds = <<>>
    /\ wk = [w \in Pids |-> Unborn]
    /\ http = [t \in Threads |-> NoRequest]
    /\ raced = FALSE
    /\ unsynced = {}

-------------------------------------------------------------------------------
(***************************************************************************)
(* ListenerWorkerClient.                                                   *)
(***************************************************************************)

\* is_process_running
Runs(w) == w # 0 /\ wk[w].at \notin {"unborn", "gone"}

\* effective_worker_state, but for a late heartbeat, which nobody acts on.
EffectiveState ==
    IF row.state \notin {"STOPPED", "STOPPING"} /\ row.pid # 0 /\ ~Runs(row.pid)
    THEN "ERROR" ELSE row.state

\* start_worker finds a worker.
WorkerFound == Runs(row.pid) \/ Runs(lock)

\* Whether _ensure_worker_running is content, for a start and for a stop.
Content(kind) ==
    \/ EffectiveState \notin {"STOPPED", "ERROR"} /\ Runs(row.pid)
    \/ kind = "STOP_ROUTE" /\ EffectiveState = "STOPPED"

Starting == {t \in Threads : http[t].at = "claim"}
Unstarted == {w \in Pids : wk[w].at = "unborn"}
NextPid == CHOOSE w \in Unstarted : TRUE
MayStart == \E w \in Unstarted : \E v \in Unstarted : Starting = {} \/ v # w

Ask(t, at, kind, r) ==
    http' = [http EXCEPT ![t] = [at |-> at, kind |-> kind, route |-> r,
                                 overtaken |-> FALSE]]

\* start_worker up to its decision: a stale lock is cleared, and without a
\* worker in the row and in the lock one is started.
Look(t, kind, r) ==
    /\ lock' = IF Runs(lock) THEN lock ELSE 0
    /\ IF WorkerFound THEN Ask(t, "enqueue", kind, r)
       ELSE MayStart /\ Ask(t, "claim", kind, r)

StartWorker(t) ==
    /\ http[t] = NoRequest
    /\ ~WorkerFound
    /\ Look(t, "WORKER_START", NoRoute)
    /\ UNCHANGED <<row, cmds, wk, history>>

ForRoute(t, kind, r) ==
    /\ http[t] = NoRequest
    /\ IF Content(kind) THEN Ask(t, "enqueue", kind, r) /\ UNCHANGED lock
       ELSE Look(t, kind, r)
    /\ UNCHANGED <<row, cmds, wk, history>>

\* What the other requests have read is true no longer.
Overtaken(h) == [t \in Threads |->
    IF h[t].at \in {"claim", "reset"} THEN [h[t] EXCEPT !.overtaken = TRUE] ELSE h[t]]

\* A process that was started and is not yet in the row.
Unregistered == {w \in Pids : wk[w].at \in {"boot", "lock", "register"}}

\* The row is reset for the new process, and the process started.
Claim(t) ==
    LET q == [http EXCEPT ![t] = IF @.kind = "WORKER_START" THEN NoRequest
                                 ELSE [@ EXCEPT !.at = "enqueue"]] IN
    /\ http[t].at = "claim"
    /\ Unstarted # {}
    /\ row' = [row EXCEPT !.state = "STARTING", !.pid = 0]
    /\ wk' = [wk EXCEPT ![NextPid].at = "boot"]
    /\ http' = Overtaken(q)
    /\ raced' = (raced \/ http[t].overtaken \/ Unregistered # {})
    /\ UNCHANGED <<lock, cmds, unsynced>>

Enqueued(kind, r) ==
    Append(cmds, [kind |-> kind, route |-> r, status |-> "PENDING"])

\* A stop wants a worker that runs; a start takes it for granted.
Enqueue(t) ==
    LET q == http[t] IN
    /\ q.at = "enqueue"
    /\ q.kind = "STOP_ROUTE" => Runs(row.pid)
    /\ Len(cmds) < MaxCommands
    /\ cmds' = Enqueued(q.kind, q.route)
    /\ http' = [http EXCEPT ![t] = NoRequest]
    /\ UNCHANGED <<lock, row, wk, history>>

\* Nothing to stop; or the bound on the commands is reached.
EnqueueNothing(t) ==
    /\ http[t].at = "enqueue"
    /\ \/ http[t].kind = "STOP_ROUTE" /\ ~Runs(row.pid)
       \/ Len(cmds) = MaxCommands
    /\ http' = [http EXCEPT ![t] = NoRequest]
    /\ UNCHANGED <<lock, row, cmds, wk, history>>

StopWorker(t) ==
    /\ http[t] = NoRequest
    /\ IF Runs(row.pid)
       THEN /\ Len(cmds) < MaxCommands
            /\ cmds' = Enqueued("WORKER_STOP", NoRoute)
            /\ Ask(t, "await", "WORKER_STOP", NoRoute)
       ELSE Ask(t, "reset", "WORKER_STOP", NoRoute) /\ UNCHANGED cmds
    /\ UNCHANGED <<lock, row, wk, history>>

\* No worker was found: the row says so, and the lock is removed.
Reset(t) ==
    LET q == [http EXCEPT ![t] = NoRequest] IN
    /\ http[t].at = "reset"
    /\ row' = [state |-> "STOPPED", pid |-> 0, active |-> {}]
    /\ lock' = 0
    /\ http' = Overtaken(q)
    /\ raced' = (raced \/ http[t].overtaken)
    /\ UNCHANGED <<cmds, wk, unsynced>>

\* WORKER_STOP has its answer, which comes before the worker has stopped, or
\* the eight seconds are over: the lock is removed.
Unlock(t) ==
    /\ http[t].at = "await"
    /\ lock' = 0
    /\ http' = [http EXCEPT ![t] = NoRequest]
    /\ UNCHANGED <<row, cmds, wk, history>>

Client(t) ==
    \/ StartWorker(t) \/ StopWorker(t)
    \/ \E kind \in {"START_ROUTE", "STOP_ROUTE"}, r \in Routes : ForRoute(t, kind, r)
    \/ Claim(t) \/ Enqueue(t) \/ EnqueueNothing(t) \/ Reset(t) \/ Unlock(t)

-------------------------------------------------------------------------------
(***************************************************************************)
(* ListenerWorkerRuntime.                                                  *)
(***************************************************************************)

Goto(w, at) == wk' = [wk EXCEPT ![w].at = at]

\* _acquire_lock: the lock of a process that runs is respected,
Boot(w) ==
    /\ wk[w].at = "boot"
    /\ Goto(w, IF Runs(lock) THEN "gone" ELSE "lock")
    /\ lock' = IF Runs(lock) THEN lock ELSE 0
    /\ UNCHANGED <<row, cmds, http, history>>

\* and any other one is overwritten.
TakeLock(w) ==
    /\ wk[w].at = "lock"
    /\ lock' = w
    /\ Goto(w, "register")
    /\ UNCHANGED <<row, cmds, http, history>>

\* STARTING and, with the manager built, CONNECTING.
Register(w) ==
    /\ wk[w].at = "register"
    /\ row' = [state |-> "CONNECTING", pid |-> w, active |-> {}]
    /\ http' = Overtaken(http)
    /\ Goto(w, "connect")
    /\ UNCHANGED <<lock, cmds, history>>

Connect(w) ==
    /\ wk[w].at = "connect"
    /\ \E s \in {"CONNECTED", "ERROR"} : row' = [row EXCEPT !.state = s]
    /\ Goto(w, "loop")
    /\ UNCHANGED <<lock, cmds, http, history>>

Pending == {c \in DOMAIN cmds : cmds[c].status = "PENDING"}

\* In the order of their ids.
Claimed == SetToSortSeq(Pending, <)

\* claim_pending_worker_commands
Fetch(w) ==
    /\ wk[w].at = "loop" /\ wk[w].batch = <<>>
    /\ Pending # {}
    /\ wk' = [wk EXCEPT ![w].batch = Claimed]
    /\ cmds' = [c \in DOMAIN cmds |->
           IF c \in Pending THEN [cmds[c] EXCEPT !.status = "PROCESSING"] ELSE cmds[c]]
    /\ UNCHANGED <<lock, row, http, history>>

Task(w) == cmds[Head(wk[w].batch)]
HasTask(w, kinds) ==
    /\ wk[w].at = "loop"
    /\ wk[w].batch # <<>>
    /\ Task(w).kind \in kinds

\* What start_route and stop_route of the manager make of the routes; a start
\* may be refused.
Outcomes(w) ==
    IF Task(w).kind = "STOP_ROUTE" THEN {wk[w].active \ {Task(w).route}}
    ELSE {wk[w].active, wk[w].active \cup {Task(w).route}}

RunCommand(w) ==
    /\ HasTask(w, {"START_ROUTE", "STOP_ROUTE"})
    /\ \E a \in Outcomes(w) : wk' = [wk EXCEPT ![w].active = a, ![w].at = "sync"]
    /\ UNCHANGED <<lock, row, cmds, http, history>>

Completed(w, status) == [cmds EXCEPT ![Head(wk[w].batch)].status = status]

\* The answer is given and the row left as it was.
SyncNothing(w) ==
    /\ wk[w].at = "sync"
    /\ cmds' = Completed(w, "DONE")
    /\ wk' = [wk EXCEPT ![w].at = "loop", ![w].batch = Tail(@)]
    /\ UNCHANGED <<lock, row, http, history>>

\* _sync_active_routes, and the answer.
Sync(w) ==
    /\ wk[w].at = "sync"
    /\ row' = [row EXCEPT !.active = wk[w].active]
    /\ cmds' = Completed(w, "DONE")
    /\ wk' = [wk EXCEPT ![w].at = "loop", ![w].batch = Tail(@)]
    /\ unsynced' = unsynced \ {w}
    /\ UNCHANGED <<lock, http, raced>>

\* A command that raises after the routes were changed, or before.
CommandFails(w) ==
    /\ HasTask(w, {"START_ROUTE", "STOP_ROUTE"})
    /\ cmds' = Completed(w, "FAILED")
    /\ \E a \in Outcomes(w) \cup {wk[w].active} :
           wk' = [wk EXCEPT ![w].active = a, ![w].batch = Tail(@)]
    /\ unsynced' = unsynced \cup {w}
    /\ UNCHANGED <<lock, row, http, raced>>

\* The stop waits until nothing else was claimed with it.
RunStopWhenLast(w) ==
    /\ HasTask(w, {"WORKER_STOP"})
    /\ cmds' = Completed(w, "DONE")
    /\ wk' = [wk EXCEPT ![w].at = IF Len(wk[w].batch) = 1 THEN "stopping" ELSE "loop",
                        ![w].batch = Tail(@)]
    /\ UNCHANGED <<lock, row, http, history>>

\* WORKER_STOP is answered, and the commands claimed with it are dropped.
RunStop(w) ==
    /\ HasTask(w, {"WORKER_STOP"})
    /\ cmds' = Completed(w, "DONE")
    /\ wk' = [wk EXCEPT ![w].at = "stopping", ![w].batch = <<>>]
    /\ UNCHANGED <<lock, row, http, history>>

\* _maybe_heartbeat
Heartbeat(w) ==
    /\ wk[w].at = "loop" /\ wk[w].batch = <<>>
    /\ row.state \notin {"STOPPING", "STOPPED", "ERROR"}
    /\ row' = [row EXCEPT !.active = wk[w].active]
    /\ unsynced' = unsynced \ {w}
    /\ UNCHANGED <<lock, cmds, wk, http, raced>>

\* The pid leaves the row before the routes are stopped.
StoppingEarly(w) ==
    /\ wk[w].at = "stopping"
    /\ row' = [row EXCEPT !.state = "STOPPING", !.pid = 0]
    /\ Goto(w, "drain")
    /\ UNCHANGED <<lock, cmds, http, history>>

\* _shutdown: STOPPING,
Stopping(w) ==
    /\ wk[w].at = "stopping"
    /\ row' = [row EXCEPT !.state = "STOPPING"]
    /\ Goto(w, "drain")
    /\ UNCHANGED <<lock, cmds, http, history>>

\* the routes are stopped, STOPPED,
Drain(w) ==
    /\ wk[w].at = "drain"
    /\ row' = [state |-> "STOPPED", pid |-> 0, active |-> {}]
    /\ wk' = [wk EXCEPT ![w].at = "release", ![w].active = {}]
    /\ UNCHANGED <<lock, cmds, http, history>>

\* and _release_lock.
Release(w) ==
    /\ wk[w].at = "release"
    /\ lock' = IF lock = w THEN 0 ELSE lock
    /\ Goto(w, "gone")
    /\ UNCHANGED <<row, cmds, http, history>>

Die(w) ==
    /\ Runs(w)
    /\ Goto(w, "gone")
    /\ UNCHANGED <<lock, row, cmds, http, history>>

Worker(w) ==
    \/ Boot(w) \/ TakeLock(w) \/ Register(w) \/ Connect(w)
    \/ Fetch(w) \/ RunCommand(w) \/ Sync(w) \/ CommandFails(w) \/ RunStop(w)
    \/ Stopping(w) \/ Drain(w) \/ Release(w)

Next ==
    \/ \E t \in Threads : Client(t)
    \/ \E w \in Pids : Worker(w) \/ Heartbeat(w) \/ Die(w)

Spec == Init /\ [][Next]_vars

\* The main loop of a process that lives goes round.
FairSpec == Spec /\ \A w \in Pids : WF_vars(Worker(w))

-------------------------------------------------------------------------------
(***************************************************************************)
(* Properties.                                                             *)
(***************************************************************************)

\* From its registration to its last word in the row.
Works(w) == wk[w].at \in {"connect", "loop", "sync", "stopping", "drain"}

\* Two processes listen at the same time only if requests of the dashboard
\* overtook one another while the first one was started.
OneWorker ==
    raced \/ \A v, w \in Pids : Works(v) /\ Works(w) => v = w

\* While a worker is in its loop the row names it and the routes it listens
\* to, with the same exception, and but for a command that failed.
RowIsTrue ==
    \A w \in Pids : wk[w].at = "loop" /\ ~raced /\ w \notin unsynced =>
        row.pid = w /\ row.active = wk[w].active

\* A worker that works while WORKER_STOP is pending stops.
StopIsObeyed ==
    \A w \in Pids :
        Works(w) /\ (\E c \in Pending : cmds[c].kind = "WORKER_STOP")
            ~> wk[w].at = "gone" \/ raced
===============================================================================
