------------------------------ MODULE TelethonHook ------------------------------
(***************************************************************************)
(* The worker's connection to Telegram, beside the login it depends on:    *)
(* TelethonRouteListenerBridge, its use by RouteListenerManager and the    *)
(* monitor of ListenerWorkerRuntime.                                       *)
(*                                                                         *)
(* The worker's loop is one thread.  It starts a thread of its own for the *)
(* Telethon client, waits for it to start and joins it when it is shut     *)
(* down, and both waits may time out with that thread still alive.  All    *)
(* threads write the same fields of the bridge; a step is what happens     *)
(* under the bridge's lock or between two waits.  A thread whose bridge    *)
(* the manager has dropped writes to an object nobody reads.  No bridge    *)
(* and a new one, whose fields are all None, behave alike.                 *)
(***************************************************************************)
EXTENDS TelegramLogin, FiniteSets

CONSTANTS
    Routes,
    MaxListeners,   \* bound on the client threads alive at a time
    MaxSlow,        \* bound on the waits that time out too early
    MaxFaults       \* bound on the connects that fail

ASSUME ListenerBound == MaxListeners \in Nat
ASSUME SlowBound == MaxSlow \in Nat
ASSUME FaultBound == MaxFaults \in Nat

VARIABLES
    loop,           \* the worker's loop: where it is and why
    active,         \* _active: the routes it listens for
    bridge,         \* the fields of the manager's bridge, 0 for None
    listener,       \* the client threads
    set,            \* the threads whose shutdown event is set
    worker          \* the state published in listener_worker_state

(* History variables.                                                      *)
VARIABLES slow, faults

hookHistory == <<slow, faults>>
hookVars == <<loop, active, bridge, listener, set, worker, hookHistory>>
vars == <<loginVars, hookVars>>

Listeners == 1..MaxListeners
NoRoute == "no route"

\* late: the wait for the thread's start has timed out.
Loop == [at : {"down", "idle", "ensure", "starting", "join"},
         why : {"none", "boot", "start", "stop", "monitor"},
         route : Routes \cup {NoRoute}, late : BOOLEAN]
At(at, why) == [at |-> at, why |-> why, route |-> NoRoute, late |-> FALSE]

\* _connected is TRUE just when _client is set.
Bridge == [thread : 0..MaxListeners, loop : 0..MaxListeners,
           client : 0..MaxListeners, event : 0..MaxListeners,
           startup : BOOLEAN, error : BOOLEAN]
NewBridge == [thread |-> 0, loop |-> 0, client |-> 0, event |-> 0,
              startup |-> FALSE, error |-> FALSE]

\* ours: its bridge is still the manager's.  event: the one it awaits.
Listener == [at : {"none", "born", "connecting", "ready", "up", "ending"},
             ours : BOOLEAN, event : 0..MaxListeners]
NoListener == [at |-> "none", ours |-> FALSE, event |-> 0]

TypeOK ==
    /\ LoginTypeOK
    /\ loop \in Loop
    /\ active \subseteq Routes
    /\ bridge \in Bridge
    /\ listener \in [Listeners -> Listener]
    /\ set \subseteq Listeners
    /\ worker \in {"STARTING", "CONNECTING", "CONNECTED", "ERROR", "RECONNECTING"}
    /\ slow \in 0..MaxSlow /\ faults \in 0..MaxFaults

Init ==
    /\ LoginInit
    /\ loop = At("down", "none")
    /\ active = {}
    /\ bridge = NewBridge
    /\ listener = [l \in Listeners |-> NoListener]
    /\ set = {}
    /\ worker = "STARTING"
    /\ slow = 0 /\ faults = 0

Alive(l) == l # 0 /\ listener[l].at # "none"

\* It hears messages.
Up(l) == listener[l].at \in {"ready", "up"}

-------------------------------------------------------------------------------
(***************************************************************************)
(* ensure_started and shutdown.                                            *)
(***************************************************************************)

\* The caller of _ensure_telethon_hook goes on with its answer.
Result(error) ==
    /\ loop' = At("idle", "none")
    /\ active' = IF error THEN active \ {loop.route} ELSE active
    /\ worker' = CASE loop.why = "boot" /\ error -> "ERROR"
                   [] loop.why = "monitor" /\ error -> "RECONNECTING"
                   [] loop.why \in {"boot", "monitor"} /\ ~error -> "CONNECTED"
                   [] loop.why = "start" -> worker

\* Connected, or a thread is there and has answered.
EnsureFinds ==
    /\ loop.at = "ensure"
    /\ bridge.client # 0 \/ Alive(bridge.thread)
    /\ Result(bridge.client = 0 /\ bridge.error)
    /\ UNCHANGED <<bridge, listener, set, hookHistory>>

\* load_telegram_config and validate_listener_session_config: the session file
\* is there once a login has called Telegram.
SessionReady == credentials /\ requests > 0

EnsureRefuses ==
    /\ loop.at = "ensure"
    /\ bridge.client = 0 /\ ~Alive(bridge.thread)
    /\ ~SessionReady
    /\ bridge' = [bridge EXCEPT !.error = TRUE]
    /\ Result(TRUE)
    /\ UNCHANGED <<listener, set, hookHistory>>

\* A number no thread has, and no field of the bridge.
Free == {l \in Listeners : ~Alive(l) /\ l # bridge.event}

EnsureStarts ==
    /\ loop.at = "ensure"
    /\ bridge.client = 0 /\ ~Alive(bridge.thread)
    /\ SessionReady
    /\ Free # {}
    /\ LET l == CHOOSE n \in Free : TRUE IN
       /\ listener' = [listener EXCEPT ![l] = [at |-> "born", ours |-> TRUE, event |-> 0]]
       /\ bridge' = [bridge EXCEPT !.thread = l, !.startup = FALSE, !.error = FALSE]
       /\ set' = set \ {l}
    /\ loop' = [loop EXCEPT !.at = "starting"]
    /\ UNCHANGED <<active, worker, hookHistory>>

Started ==
    /\ loop.at = "starting"
    /\ bridge.startup
    /\ Result(bridge.error)
    /\ UNCHANGED <<bridge, listener, set, hookHistory>>

\* shutdown up to its join.
Signal ==
    /\ set' = IF bridge.loop # 0 /\ bridge.event # 0 THEN set \cup {bridge.event} ELSE set

\* The wait for the start times out, and the bridge is shut down.
StartLate ==
    /\ loop.at = "starting"
    /\ ~bridge.startup
    /\ slow < MaxSlow /\ slow' = slow + 1
    /\ bridge' = [bridge EXCEPT !.error = TRUE]
    /\ Signal
    /\ loop' = [loop EXCEPT !.at = "join", !.late = TRUE]
    /\ UNCHANGED <<active, listener, worker, faults>>

\* shutdown from its join on.  The manager drops the bridge unless it was
\* ensure_started that shut it down.
Shut ==
    /\ bridge' = IF loop.late
                 THEN [NewBridge EXCEPT !.startup = bridge.startup, !.error = bridge.error]
                 ELSE NewBridge
    /\ listener' = [l \in Listeners |->
           [listener[l] EXCEPT !.ours = @ /\ loop.late,
                               !.event = IF listener[l].ours /\ listener[l].at = "ready"
                                         THEN 0 ELSE @]]
    /\ CASE loop.late -> Result(TRUE)
         [] ~loop.late /\ loop.why = "monitor" ->
                loop' = [loop EXCEPT !.at = "ensure"] /\ UNCHANGED <<active, worker>>
         [] ~loop.late /\ loop.why = "stop" ->
                loop' = At("idle", "none") /\ UNCHANGED <<active, worker>>
    /\ UNCHANGED <<set, faults>>

\* A thread nobody has told to leave.
Deserted(l) == listener[l].at = "up" /\ listener[l].event \notin set

\* Mutant: the thread is told to leave and not waited for.
JoinedAtOnce == loop.at = "join" /\ Shut /\ UNCHANGED slow

\* The thread has ended, or the wait for one that will not end times out.
Joined ==
    /\ loop.at = "join"
    /\ Alive(bridge.thread) => Deserted(bridge.thread)
    /\ Shut
    /\ UNCHANGED slow

JoinLate ==
    /\ loop.at = "join"
    /\ Alive(bridge.thread) /\ ~Deserted(bridge.thread)
    /\ slow < MaxSlow /\ slow' = slow + 1
    /\ Shut

-------------------------------------------------------------------------------
(***************************************************************************)
(* The worker's loop.                                                      *)
(***************************************************************************)

\* A new process starts its hook before its loop.
Boot ==
    /\ loop.at = "down"
    /\ loop' = At("ensure", "boot")
    /\ worker' = "CONNECTING"
    /\ UNCHANGED <<active, bridge, listener, set, hookHistory>>

\* start_route; validate_start reads the status of the login.
StartRoute(r) ==
    /\ loop.at = "idle"
    /\ r \notin active
    /\ account.status = "CONNECTED"
    /\ active' = active \cup {r}
    /\ loop' = [At("ensure", "start") EXCEPT !.route = r]
    /\ UNCHANGED <<bridge, listener, set, worker, hookHistory>>

\* Mutant: every stop shuts the hook down.
StopRouteAndHook(r) ==
    /\ loop.at = "idle"
    /\ r \in active
    /\ active' = active \ {r}
    /\ Signal /\ loop' = At("join", "stop")
    /\ UNCHANGED <<bridge, listener, worker, hookHistory>>

\* stop_route: the last one shuts the hook down.
StopRoute(r) ==
    /\ loop.at = "idle"
    /\ r \in active
    /\ active' = active \ {r}
    /\ IF active' = {} THEN Signal /\ loop' = At("join", "stop")
       ELSE UNCHANGED <<set, loop>>
    /\ UNCHANGED <<bridge, listener, worker, hookHistory>>

\* Mutant: a reconnect that failed is not tried again.
MonitorOnce ==
    /\ loop.at = "idle"
    /\ active # {}
    /\ bridge.client = 0 /\ worker # "RECONNECTING"
    /\ worker' = "RECONNECTING"
    /\ Signal /\ loop' = At("join", "monitor")
    /\ UNCHANGED <<active, bridge, listener, hookHistory>>

\* _monitor_telethon_connection
Monitor ==
    /\ loop.at = "idle"
    /\ active # {}
    /\ IF bridge.client # 0
       THEN /\ worker = "RECONNECTING" /\ worker' = "CONNECTED"
            /\ UNCHANGED <<set, loop>>
       ELSE /\ worker' = "RECONNECTING"
            /\ Signal /\ loop' = At("join", "monitor")
    /\ UNCHANGED <<active, bridge, listener, hookHistory>>

\* The process ends, and its threads with it.
Exit ==
    /\ loop.at # "down"
    /\ loop' = At("down", "none")
    /\ active' = {}
    /\ bridge' = NewBridge
    /\ listener' = [l \in Listeners |-> NoListener]
    /\ set' = {}
    /\ worker' = "STARTING"
    /\ UNCHANGED hookHistory

-------------------------------------------------------------------------------
(***************************************************************************)
(* A client thread: _thread_main and _async_main.                          *)
(***************************************************************************)

Goto(l, at) == listener' = [listener EXCEPT ![l].at = at]

Writes(l, b) == bridge' = IF listener[l].ours THEN b ELSE bridge

Open(l) ==
    /\ listener[l].at = "born"
    /\ Goto(l, "connecting")
    /\ Writes(l, [bridge EXCEPT !.loop = l])
    /\ UNCHANGED <<loop, active, set, worker, hookHistory>>

\* Connected and authorized: its handler hears messages from here on.
Connect(l) ==
    /\ listener[l].at = "connecting"
    /\ Authorized
    /\ listener' = [listener EXCEPT ![l].at = "ready", ![l].event = l]
    /\ Writes(l, [bridge EXCEPT !.client = l, !.event = l])
    /\ UNCHANGED <<loop, active, set, worker, hookHistory>>

\* It awaits the shutdown event the bridge has now, which a shutdown may have
\* taken away and another thread may have replaced.
Announce(l) ==
    LET e == IF listener[l].ours THEN bridge.event ELSE listener[l].event IN
    /\ listener[l].at = "ready"
    /\ listener' = [listener EXCEPT ![l].at = IF e = 0 THEN "ending" ELSE "up",
                                    ![l].event = e]
    /\ Writes(l, [bridge EXCEPT !.startup = TRUE, !.error = @ \/ e = 0])
    /\ UNCHANGED <<loop, active, set, worker, hookHistory>>

Fail(l) ==
    /\ Goto(l, "ending")
    /\ Writes(l, [bridge EXCEPT !.error = TRUE, !.startup = TRUE])
    /\ UNCHANGED <<loop, active, set, worker>>

Unauthorized(l) ==
    /\ listener[l].at = "connecting"
    /\ ~Authorized
    /\ Fail(l)
    /\ UNCHANGED hookHistory

Broken(l) ==
    /\ listener[l].at = "connecting"
    /\ faults < MaxFaults /\ faults' = faults + 1
    /\ Fail(l)
    /\ UNCHANGED slow

\* Told to leave, or failed: its last step clears the bridge's fields.
Leave(l) ==
    /\ \/ listener[l].at = "up" /\ listener[l].event \in set
       \/ listener[l].at = "ending"
    /\ listener' = [listener EXCEPT ![l] = NoListener]
    /\ Writes(l, [bridge EXCEPT !.client = 0, !.loop = 0])
    /\ UNCHANGED <<loop, active, set, worker, hookHistory>>

-------------------------------------------------------------------------------
LoopStep ==
    \/ EnsureFinds \/ EnsureRefuses \/ EnsureStarts \/ Started \/ Joined

ListenerStep(l) ==
    \/ Open(l) \/ Connect(l) \/ Announce(l) \/ Unauthorized(l) \/ Leave(l)

HookNext ==
    \/ LoopStep \/ StartLate \/ JoinLate
    \/ Boot \/ Monitor \/ Exit
    \/ \E r \in Routes : StartRoute(r) \/ StopRoute(r)
    \/ \E l \in Listeners : ListenerStep(l) \/ Broken(l)

Next ==
    \/ LoginNext /\ UNCHANGED hookVars
    \/ HookNext /\ UNCHANGED loginVars

Spec == Init /\ [][Next]_vars

\* The threads run, and the loop comes to its monitor between its commands.
FairSpec ==
    /\ Spec
    /\ WF_vars(LoopStep /\ UNCHANGED loginVars)
    /\ SF_vars(Monitor /\ UNCHANGED loginVars)
    /\ \A l \in Listeners : WF_vars(ListenerStep(l) /\ UNCHANGED loginVars)

-------------------------------------------------------------------------------
(***************************************************************************)
(* Properties.                                                             *)
(***************************************************************************)

\* Without a wait that timed out two clients never hear the same messages,
\* whatever routes are started and stopped and whatever connects fail
\* (ensure_started, shutdown).
OneListener == slow = 0 => Cardinality({l \in Listeners : Up(l)}) <= 1

\* Without a wait that timed out the loop never goes on with a route nobody
\* listens for: a start either ends with the client connected or takes the
\* route back (start_route, stop_route).
RoutesAreHeard ==
    slow = 0 /\ loop.at = "idle" /\ active # {}
        => \E l \in Listeners : Up(l) /\ listener[l].event \notin set

\* Whatever waits timed out, as long as a route stays active, the session is
\* good and the process runs, a client listens again and again: the monitor
\* finds out and reconnects (_monitor_telethon_connection).
ListensAgain ==
    <>[](active # {} /\ credentials /\ Authorized)
        => []<>(\E l \in Listeners : Up(l))

===============================================================================
