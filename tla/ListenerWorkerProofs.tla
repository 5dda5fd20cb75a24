-------------------------- MODULE ListenerWorkerProofs --------------------------
(***************************************************************************)
(* Theorems about ListenerWorker, for any number of threads, routes,       *)
(* processes and commands.                                                 *)
(***************************************************************************)
EXTENDS ListenerWorker, TLAPS

-------------------------------------------------------------------------------
(***************************************************************************)
(* The inductive invariant.                                                *)
(***************************************************************************)

\* What is used of the types is which fields there are: what a batch, a command
\* and a set of routes hold does not matter here.
Fields(q) == q = [at |-> q.at, active |-> q.active, batch |-> q.batch]
Processes(k) == k = [w \in Pids |-> k[w]] /\ \A w \in Pids : Fields(k[w])

Shaped ==
    /\ row = [state |-> row.state, pid |-> row.pid, active |-> row.active]
    /\ Processes(wk)
    /\ http \in [Threads -> Request \cup {NoRequest}]

\* A process listens to no route before its loop.
Fresh ==
    \A w \in Pids :
        wk[w].at \in {"unborn", "boot", "lock", "register", "connect"}
            => wk[w].active = {}

\* The row names the process that works,
Named == \A w \in Pids : Works(w) => row.pid = w

\* and its routes, once it has written them.
Told ==
    \A w \in Pids :
        wk[w].at \in {"connect", "loop"} => row.active = wk[w].active \/ w \in unsynced

\* One process at a time is on its way into the row,
Lone == \A v, w \in Unregistered : v = w

\* while no other one works.
Quiet == Unregistered # {} => \A w \in Pids : ~Works(w)

\* A request that goes to start a process or to reset the row has seen that
\* none works, unless it knows that this is true no longer.
Decided ==
    \A t \in Threads :
        http[t].at \in {"claim", "reset"} /\ ~http[t].overtaken
            => \A w \in Pids : ~Works(w)

InOrder == Named /\ Told /\ Lone /\ Quiet /\ Decided

\* What every step preserves.
Inv == Shaped /\ Fresh /\ (raced \/ InOrder)

-------------------------------------------------------------------------------
(***************************************************************************)
(* What a change of one process is.                                        *)
(***************************************************************************)

LEMMA MoveShape ==
    ASSUME Shaped, NEW w \in Pids, NEW at, Goto(w, at)
    PROVE  /\ Processes(wk')
           /\ wk'[w].at = at
           /\ wk'[w].active = wk[w].active
           /\ \A v \in Pids \ {w} : wk'[v] = wk[v]
<1>1. wk' = [wk EXCEPT ![w] = [wk[w] EXCEPT !.at = at]]
  BY DEF Goto
<1>2. Fields([wk[w] EXCEPT !.at = at])
  BY DEF Shaped, Processes, Fields
<1> QED
  BY <1>1, <1>2 DEF Shaped, Processes, Fields

LEMMA OneShape ==
    ASSUME Shaped, NEW w \in Pids, NEW q, Fields(q), wk' = [wk EXCEPT ![w] = q]
    PROVE  /\ Processes(wk') /\ wk'[w] = q
           /\ \A v \in Pids \ {w} : wk'[v] = wk[v]
BY DEF Shaped, Processes


-------------------------------------------------------------------------------
(***************************************************************************)
(* The dashboard's requests.                                               *)
(***************************************************************************)

\* None works that the row does not name.
LEMMA NobodyWorks ==
    ASSUME Inv, ~raced, ~Runs(row.pid), NEW w \in Pids
    PROVE  ~Works(w)
<1> SUFFICES ASSUME Works(w) PROVE FALSE
  OBVIOUS
<1>1. row.pid = w
  BY DEF Inv, InOrder, Named
<1>2. w # 0
  BY DEF Pids
<1> QED
  BY <1>1, <1>2 DEF Runs, Works

\* One request goes on, and nothing else changes.
LEMMA RequestStep ==
    ASSUME Inv, UNCHANGED <<row, wk, history>>, NEW t \in Threads,
           NEW q \in Request \cup {NoRequest},
           http' = [http EXCEPT ![t] = q],
           q.at \in {"claim", "reset"} => ~Runs(row.pid)
    PROVE  Inv'
<1>1. Shaped'
  BY DEF Inv, Shaped
<1>2. Fresh'
  BY DEF Inv, Fresh
<1>3. ASSUME ~raced' PROVE InOrder'
  <2>1. ~raced /\ InOrder
    BY <1>3 DEF Inv, history
  <2>2. Named' /\ Told' /\ Lone' /\ Quiet'
    BY <2>1 DEF InOrder, Named, Told, Lone, Quiet, Works, Unregistered, history
  <2>3. Decided'
    <3> SUFFICES ASSUME NEW u \in Threads, http'[u].at \in {"claim", "reset"},
                        ~http'[u].overtaken, NEW w \in Pids
                 PROVE  ~Works(w)
      BY DEF Decided, Works
    <3>1. CASE u = t
      <4>1. http'[u] = q
        BY <3>1 DEF Inv, Shaped
      <4> QED
        BY <4>1, <2>1, NobodyWorks
    <3>2. CASE u # t
      <4>1. http'[u] = http[u]
        BY <3>2 DEF Inv, Shaped
      <4> QED
        BY <4>1, <2>1 DEF InOrder, Decided
    <3> QED
      BY <3>1, <3>2
  <2> QED
    BY <2>2, <2>3 DEF InOrder
<1> QED
  BY <1>1, <1>2, <1>3 DEF Inv

LEMMA RequestType ==
    ASSUME NEW at \in {"claim", "enqueue", "await", "reset"},
           NEW kind \in Kind \cup {"WORKER_START"}, NEW r \in Routes \cup {NoRoute}
    PROVE  LET q == [at |-> at, kind |-> kind, route |-> r, overtaken |-> FALSE] IN
           q \in Request /\ q.at = at
BY DEF Request

LEMMA AskStep ==
    ASSUME Inv, UNCHANGED <<row, wk, history>>, NEW t \in Threads,
           NEW at \in {"claim", "enqueue", "await", "reset"},
           NEW kind \in Kind \cup {"WORKER_START"}, NEW r \in Routes \cup {NoRoute},
           Ask(t, at, kind, r),
           at \in {"claim", "reset"} => ~Runs(row.pid)
    PROVE  Inv'
<1> DEFINE q == [at |-> at, kind |-> kind, route |-> r, overtaken |-> FALSE]
<1>1. q \in Request /\ q.at = at
  BY RequestType
<1>2. http' = [http EXCEPT ![t] = q]
  BY DEF Ask
<1> HIDE DEF q
<1> QED
  BY <1>1, <1>2, RequestStep

LEMMA LookStep ==
    ASSUME Inv, UNCHANGED <<row, wk, history>>, NEW t \in Threads,
           NEW kind \in Kind \cup {"WORKER_START"}, NEW r \in Routes \cup {NoRoute},
           Look(t, kind, r)
    PROVE  Inv'
<1>1. CASE WorkerFound
  <2>1. Ask(t, "enqueue", kind, r)
    BY <1>1 DEF Look
  <2> QED
    BY <2>1, AskStep
<1>2. CASE ~WorkerFound
  <2>1. Ask(t, "claim", kind, r) /\ ~Runs(row.pid)
    BY <1>2 DEF Look, WorkerFound
  <2> QED
    BY <2>1, AskStep
<1> QED
  BY <1>1, <1>2

LEMMA StartWorkerStep == ASSUME Inv, NEW t \in Threads, StartWorker(t) PROVE Inv'
BY LookStep DEF StartWorker

LEMMA ForRouteStep ==
    ASSUME Inv, NEW t \in Threads, NEW kind \in {"START_ROUTE", "STOP_ROUTE"},
           NEW r \in Routes, ForRoute(t, kind, r)
    PROVE  Inv'
<1>0. kind \in Kind
  BY DEF Kind
<1>1. CASE Content(kind)
  <2>1. Ask(t, "enqueue", kind, r) /\ UNCHANGED <<row, wk, history>>
    BY <1>1 DEF ForRoute
  <2> QED
    BY <2>1, <1>0, AskStep
<1>2. CASE ~Content(kind)
  <2>1. Look(t, kind, r) /\ UNCHANGED <<row, wk, history>>
    BY <1>2 DEF ForRoute
  <2> QED
    BY <2>1, <1>0, LookStep
<1> QED
  BY <1>1, <1>2

LEMMA StopWorkerStep == ASSUME Inv, NEW t \in Threads, StopWorker(t) PROVE Inv'
<1>0. "WORKER_STOP" \in Kind /\ UNCHANGED <<row, wk, history>>
  BY DEF Kind, StopWorker
<1>1. CASE Runs(row.pid)
  <2>1. Ask(t, "await", "WORKER_STOP", NoRoute)
    BY <1>1 DEF StopWorker
  <2> QED
    BY <2>1, <1>0, AskStep
<1>2. CASE ~Runs(row.pid)
  <2>1. Ask(t, "reset", "WORKER_STOP", NoRoute)
    BY <1>2 DEF StopWorker
  <2> QED
    BY <2>1, <1>2, <1>0, AskStep
<1> QED
  BY <1>1, <1>2

LEMMA RequestEnds ==
    ASSUME Inv, NEW t \in Threads, Enqueue(t) \/ EnqueueNothing(t) \/ Unlock(t)
    PROVE  Inv'
<1>1. http' = [http EXCEPT ![t] = NoRequest] /\ UNCHANGED <<row, wk, history>>
  BY DEF Enqueue, EnqueueNothing, Unlock
<1>2. NoRequest.at = "none"
  BY DEF NoRequest
<1> QED
  BY <1>1, <1>2, RequestStep

-------------------------------------------------------------------------------
(***************************************************************************)
(* The steps that let other requests know.                                 *)
(***************************************************************************)

\* The requests after Overtaken: none has an outdated reading without knowing.
LEMMA OvertakenRequests ==
    ASSUME NEW h \in [Threads -> Request \cup {NoRequest}]
    PROVE  /\ Overtaken(h) \in [Threads -> Request \cup {NoRequest}]
           /\ \A t \in Threads :
                 Overtaken(h)[t].at \in {"claim", "reset"} => Overtaken(h)[t].overtaken
<1> SUFFICES ASSUME NEW t \in Threads
             PROVE  /\ Overtaken(h)[t] \in Request \cup {NoRequest}
                    /\ Overtaken(h)[t].at \in {"claim", "reset"}
                          => Overtaken(h)[t].overtaken
  BY DEF Overtaken
<1>1. CASE h[t] \in Request
  BY <1>1 DEF Overtaken, Request
<1>2. CASE h[t] = NoRequest
  BY <1>2 DEF Overtaken, NoRequest
<1> QED
  BY <1>1, <1>2

LEMMA NowDecided ==
    ASSUME NEW h \in [Threads -> Request \cup {NoRequest}], http' = Overtaken(h)
    PROVE  http' \in [Threads -> Request \cup {NoRequest}] /\ Decided'
BY OvertakenRequests DEF Decided

\* A process is started by a request that was not overtaken: none works.
LEMMA ClaimStep == ASSUME Inv, NEW t \in Threads, Claim(t) PROVE Inv'
<1> DEFINE q == [http EXCEPT ![t] = IF @.kind = "WORKER_START" THEN NoRequest
                                    ELSE [@ EXCEPT !.at = "enqueue"]]
<1>0. http[t].at = "claim" /\ http' = Overtaken(q) /\ Unstarted # {}
  BY DEF Claim
<1>1. q \in [Threads -> Request \cup {NoRequest}]
  <2>1. http[t] \in Request
    BY <1>0 DEF Inv, Shaped, NoRequest
  <2>2. [http[t] EXCEPT !.at = "enqueue"] \in Request
    BY <2>1 DEF Request
  <2> QED
    BY <2>2 DEF Inv, Shaped
<1>2. http' \in [Threads -> Request \cup {NoRequest}] /\ Decided'
  <2> HIDE DEF q
  <2> QED
    BY <1>0, <1>1, NowDecided
<1> DEFINE n == NextPid
<1>3. n \in Pids /\ wk[n].at = "unborn"
  BY <1>0 DEF NextPid, Unstarted
<1>4. wk' = [wk EXCEPT ![n].at = "boot"]
  BY DEF Claim
<1> HIDE DEF n
<1>5. /\ Processes(wk')
      /\ wk'[n].at = "boot" /\ wk'[n].active = wk[n].active
      /\ \A v \in Pids \ {n} : wk'[v] = wk[v]
  BY <1>3, <1>4, MoveShape DEF Goto, Inv
<1>6. Shaped'
  <2>1. row' = [row EXCEPT !.state = "STARTING", !.pid = 0]
    BY DEF Claim
  <2>2. row' = [state |-> row'.state, pid |-> row'.pid, active |-> row'.active]
    BY <2>1 DEF Inv, Shaped
  <2> QED
    BY <1>2, <1>5, <2>2 DEF Shaped
<1>7. Fresh'
  BY <1>3, <1>5 DEF Inv, Fresh
<1>8. ASSUME ~raced' PROVE InOrder'
  <2>1. ~raced /\ InOrder /\ ~http[t].overtaken /\ Unregistered = {}
    BY <1>8 DEF Inv, Claim
  <2>2. \A w \in Pids : ~Works(w)
    BY <2>1, <1>0 DEF InOrder, Decided
  <2>3. \A w \in Pids : ~Works(w)'
    BY <2>2, <1>5 DEF Works
  <2>4. Named' /\ Told' /\ Quiet'
    BY <2>3 DEF Named, Told, Quiet, Works
  <2>5. Lone'
    BY <2>1, <1>5 DEF Lone, Unregistered
  <2> QED
    BY <2>4, <2>5, <1>2 DEF InOrder
<1> QED
  BY <1>6, <1>7, <1>8 DEF Inv

\* Neither does one when the row is reset.
LEMMA ResetStep == ASSUME Inv, NEW t \in Threads, Reset(t) PROVE Inv'
<1> DEFINE q == [http EXCEPT ![t] = NoRequest]
<1>0. http[t].at = "reset" /\ http' = Overtaken(q) /\ UNCHANGED wk
  BY DEF Reset
<1>1. q \in [Threads -> Request \cup {NoRequest}]
  BY DEF Inv, Shaped
<1>2. http' \in [Threads -> Request \cup {NoRequest}] /\ Decided'
  <2> HIDE DEF q
  <2> QED
    BY <1>0, <1>1, NowDecided
<1>3. Shaped'
  BY <1>0, <1>2 DEF Inv, Shaped, Reset
<1>4. Fresh'
  BY <1>0 DEF Inv, Fresh
<1>5. ASSUME ~raced' PROVE InOrder'
  <2>1. ~raced /\ InOrder /\ ~http[t].overtaken
    BY <1>5 DEF Inv, Reset
  <2>2. \A w \in Pids : ~Works(w)'
    BY <2>1, <1>0 DEF InOrder, Decided, Works
  <2>3. Named' /\ Told' /\ Quiet'
    BY <2>2 DEF Named, Told, Quiet, Works
  <2>4. Lone'
    BY <2>1, <1>0 DEF InOrder, Lone, Unregistered
  <2> QED
    BY <2>3, <2>4, <1>2 DEF InOrder
<1> QED
  BY <1>3, <1>4, <1>5 DEF Inv

\* The row gets the name of the one that was on its way, and no other works.
LEMMA RegisterStep == ASSUME Inv, NEW w \in Pids, Register(w) PROVE Inv'
<1>0. /\ wk[w].at = "register" /\ http' = Overtaken(http)
      /\ Goto(w, "connect") /\ UNCHANGED history
      /\ row' = [state |-> "CONNECTING", pid |-> w, active |-> {}]
  BY DEF Register
<1>1. http' \in [Threads -> Request \cup {NoRequest}] /\ Decided'
  BY <1>0, NowDecided DEF Inv, Shaped
<1>2. /\ Processes(wk')
      /\ wk'[w].at = "connect" /\ wk'[w].active = wk[w].active
      /\ \A v \in Pids \ {w} : wk'[v] = wk[v]
  BY <1>0, MoveShape DEF Inv
<1>3. Shaped'
  BY <1>0, <1>1, <1>2 DEF Shaped
<1>4. Fresh'
  BY <1>0, <1>2 DEF Inv, Fresh
<1>5. ASSUME ~raced' PROVE InOrder'
  <2>1. ~raced /\ InOrder /\ w \in Unregistered
    BY <1>0, <1>5 DEF Inv, history, Unregistered
  <2>2. \A v \in Pids \ {w} : ~Works(v)'
    BY <2>1, <1>2 DEF InOrder, Quiet, Works
  <2>3. Named'
    BY <2>2, <1>0 DEF Named
  <2>4. Told'
    <3>1. wk'[w].active = {} /\ row'.active = {}
      BY <1>0, <1>2 DEF Inv, Fresh
    <3> QED
      BY <2>2, <3>1 DEF Told, Works
  <2>5. Unregistered' = {}
    BY <2>1, <1>2 DEF InOrder, Lone, Unregistered
  <2> QED
    BY <2>3, <2>4, <2>5, <1>1 DEF InOrder, Lone, Quiet
<1> QED
  BY <1>3, <1>4, <1>5 DEF Inv

-------------------------------------------------------------------------------
(***************************************************************************)
(* The other steps of a process.                                           *)
(***************************************************************************)

\* A process goes on, and what it writes to the row is its own.
LEMMA ProcessStep ==
    ASSUME Inv, NEW w \in Pids, UNCHANGED <<http, raced>>,
           Processes(wk'),
           \A v \in Pids \ {w} : wk'[v] = wk[v] /\ (v \in unsynced => v \in unsynced'),
           row' = [state |-> row'.state, pid |-> row'.pid, active |-> row'.active],
           row' = row \/ Works(w),
           Works(w)' => Works(w) /\ row'.pid = row.pid,
           w \in Unregistered' => w \in Unregistered,
           wk'[w].at \in {"unborn", "boot", "lock", "register", "connect"}
               => wk'[w].active = {},
           wk'[w].at \in {"connect", "loop"} /\ ~raced
               => row'.active = wk'[w].active \/ w \in unsynced'
    PROVE  Inv'
<1>1. Shaped'
  BY DEF Inv, Shaped
<1>2. Fresh'
  BY DEF Inv, Fresh
<1>3. ASSUME ~raced' PROVE InOrder'
  <2>1. ~raced /\ InOrder
    BY <1>3 DEF Inv
  <2>2. \A v \in Pids : Works(v)' => Works(v)
    BY DEF Works
  <2>3. \A v \in Pids \ {w} : Works(v) => row' = row
    BY <2>1 DEF InOrder, Named
  <2>4. Named'
    <3> SUFFICES ASSUME NEW v \in Pids, Works(v)' PROVE row'.pid = v
      BY DEF Named, Works
    <3>1. Works(v) /\ row.pid = v
      BY <2>1, <2>2 DEF InOrder, Named
    <3> QED
      BY <2>3, <3>1
  <2>5. Told'
    <3> SUFFICES ASSUME NEW v \in Pids, wk'[v].at \in {"connect", "loop"}
                 PROVE  row'.active = wk'[v].active \/ v \in unsynced'
      BY DEF Told
    <3>1. CASE v # w
      <4>1. Works(v) /\ wk'[v] = wk[v] /\ (v \in unsynced => v \in unsynced')
        BY <3>1 DEF Works
      <4> QED
        BY <4>1, <3>1, <2>1, <2>3 DEF InOrder, Told
    <3>2. CASE v = w
      BY <3>2, <2>1
    <3> QED
      BY <3>1, <3>2
  <2>6. Unregistered' \subseteq Unregistered
    BY DEF Unregistered
  <2>7. Lone' /\ Quiet'
    BY <2>1, <2>2, <2>6 DEF InOrder, Lone, Quiet, Works
  <2>8. Decided'
    BY <2>1, <2>2 DEF InOrder, Decided, Works
  <2> QED
    BY <2>4, <2>5, <2>7, <2>8 DEF InOrder
<1> QED
  BY <1>1, <1>2, <1>3 DEF Inv

\* It goes from one place to another, outside the row,
LEMMA GotoStep ==
    ASSUME Inv, NEW w \in Pids, NEW at, Goto(w, at), UNCHANGED <<row, http, history>>,
           \/ wk[w].at = "boot" /\ at = "lock"
           \/ wk[w].at = "lock" /\ at = "register"
           \/ at = "gone"
    PROVE  Inv'
<1>1. /\ Processes(wk')
      /\ wk'[w].at = at /\ wk'[w].active = wk[w].active
      /\ \A v \in Pids \ {w} : wk'[v] = wk[v]
  BY MoveShape DEF Inv
<1>2. row' = [state |-> row'.state, pid |-> row'.pid, active |-> row'.active]
  BY DEF Inv, Shaped
<1>3. ~Works(w)' /\ wk'[w].at \notin {"connect", "loop", "unborn"}
  BY <1>1 DEF Works
<1>4. w \in Unregistered' => w \in Unregistered
  BY <1>1 DEF Unregistered
<1>5. wk'[w].at \in {"unborn", "boot", "lock", "register", "connect"}
          => wk'[w].active = {}
  BY <1>1 DEF Inv, Fresh
<1> QED
  BY <1>1, <1>2, <1>3, <1>4, <1>5, ProcessStep DEF history

\* or with a new state in the row.
LEMMA StateStep ==
    ASSUME Inv, NEW w \in Pids, NEW at, Goto(w, at), UNCHANGED <<http, history>>,
           NEW s, row' = [row EXCEPT !.state = s],
           \/ wk[w].at = "connect" /\ at = "loop"
           \/ wk[w].at = "stopping" /\ at = "drain"
    PROVE  Inv'
<1>1. /\ Processes(wk')
      /\ wk'[w].at = at /\ wk'[w].active = wk[w].active
      /\ \A v \in Pids \ {w} : wk'[v] = wk[v]
  BY MoveShape DEF Inv
<1>2. /\ row' = [state |-> row'.state, pid |-> row'.pid, active |-> row'.active]
      /\ row'.pid = row.pid /\ row'.active = row.active
  BY DEF Inv, Shaped
<1>3. Works(w) /\ w \notin Unregistered'
  BY <1>1 DEF Works, Unregistered
<1>4. wk'[w].at \notin {"unborn", "boot", "lock", "register", "connect"}
  BY <1>1
<1>5. wk'[w].at \in {"connect", "loop"} /\ ~raced
          => row'.active = wk'[w].active \/ w \in unsynced'
  BY <1>1, <1>2 DEF Inv, InOrder, Told, history
<1> QED
  BY <1>1, <1>2, <1>3, <1>4, <1>5, ProcessStep DEF history

\* A process in its loop carries out its commands, and its row follows unless
\* a command fails.
LEMMA LoopStep ==
    ASSUME Inv, NEW w \in Pids, wk[w].at \in {"loop", "sync"},
           NEW at \in {"loop", "sync", "stopping"}, NEW active,
           Processes(wk'),
           wk'[w].at = at, wk'[w].active = active,
           \A v \in Pids \ {w} : wk'[v] = wk[v],
           UNCHANGED <<http, raced>>,
           row' = row \/ row' = [row EXCEPT !.active = active],
           \A v \in Pids \ {w} : v \in unsynced => v \in unsynced',
           at = "loop" /\ ~raced => row'.active = active \/ w \in unsynced'
    PROVE  Inv'
<1>1. /\ row' = [state |-> row'.state, pid |-> row'.pid, active |-> row'.active]
      /\ row'.pid = row.pid
  BY DEF Inv, Shaped
<1>2. Works(w) /\ w \notin Unregistered'
  BY DEF Works, Unregistered
<1>3. wk'[w].at \notin {"unborn", "boot", "lock", "register", "connect"}
  OBVIOUS
<1> QED
  BY <1>1, <1>2, <1>3, ProcessStep

LEMMA FetchStep == ASSUME Inv, NEW w \in Pids, Fetch(w) PROVE Inv'
<1>1. /\ wk[w].at = "loop" /\ UNCHANGED <<row, http, history>>
      /\ wk' = [wk EXCEPT ![w].batch = Claimed]
  BY DEF Fetch
<1>2. /\ Processes(wk')
      /\ wk'[w].at = "loop" /\ wk'[w].active = wk[w].active
      /\ \A v \in Pids \ {w} : wk'[v] = wk[v]
  <2>1. Fields(wk[w])
    BY DEF Inv, Shaped, Processes
  <2>2. PICK q : q = [wk[w] EXCEPT !.batch = Claimed]
    OBVIOUS
  <2>3. Fields(q) /\ q.at = "loop" /\ q.active = wk[w].active
    <3>1. Fields(q)
      BY <1>1, <2>1, <2>2 DEF Fields
    <3>2. q.at = "loop"
      BY <1>1, <2>1, <2>2 DEF Fields
    <3>3. q.active = wk[w].active
      BY <1>1, <2>1, <2>2 DEF Fields
    <3> QED
      BY <3>1, <3>2, <3>3
  <2>4. wk' = [wk EXCEPT ![w] = q]
    BY <1>1, <2>2 DEF Inv, Shaped, Processes
  <2> QED
    BY <2>3, <2>4, OneShape DEF Inv
<1>3. ~raced => row.active = wk[w].active \/ w \in unsynced
  BY <1>1 DEF Inv, InOrder, Told
<1> QED
  BY <1>1, <1>2, <1>3, LoopStep DEF history

LEMMA RunCommandStep == ASSUME Inv, NEW w \in Pids, RunCommand(w) PROVE Inv'
<1>1. PICK a \in Outcomes(w) : wk' = [wk EXCEPT ![w].active = a, ![w].at = "sync"]
  BY DEF RunCommand
<1>2. wk[w].at = "loop" /\ UNCHANGED <<row, http, history>>
  BY DEF RunCommand, HasTask
<1>3. /\ Processes(wk')
      /\ wk'[w].at = "sync" /\ wk'[w].active = a
      /\ \A v \in Pids \ {w} : wk'[v] = wk[v]
  <2>1. Fields(wk[w])
    BY DEF Inv, Shaped, Processes
  <2>2. PICK q : q = [wk[w] EXCEPT !.active = a, !.at = "sync"]
    OBVIOUS
  <2>3. Fields(q) /\ q.at = "sync" /\ q.active = a
    <3>1. Fields(q)
      BY <1>1, <2>1, <2>2 DEF Fields
    <3>2. q.at = "sync"
      BY <1>1, <2>1, <2>2 DEF Fields
    <3>3. q.active = a
      BY <1>1, <2>1, <2>2 DEF Fields
    <3> QED
      BY <3>1, <3>2, <3>3
  <2>4. wk' = [wk EXCEPT ![w] = q]
    BY <1>1, <2>2 DEF Inv, Shaped, Processes
  <2> QED
    BY <2>3, <2>4, OneShape DEF Inv
<1> QED
  BY <1>2, <1>3, LoopStep DEF history

LEMMA SyncStep == ASSUME Inv, NEW w \in Pids, Sync(w) PROVE Inv'
<1>1. /\ wk[w].at = "sync" /\ UNCHANGED <<http, raced>>
      /\ row' = [row EXCEPT !.active = wk[w].active]
      /\ wk' = [wk EXCEPT ![w].at = "loop", ![w].batch = Tail(@)]
      /\ unsynced' = unsynced \ {w}
  BY DEF Sync
<1>2. /\ Processes(wk')
      /\ wk'[w].at = "loop" /\ wk'[w].active = wk[w].active
      /\ \A v \in Pids \ {w} : wk'[v] = wk[v]
  <2>1. Fields(wk[w])
    BY DEF Inv, Shaped, Processes
  <2>2. PICK q : q = [wk[w] EXCEPT !.at = "loop", !.batch = Tail(@)]
    OBVIOUS
  <2>3. Fields(q) /\ q.at = "loop" /\ q.active = wk[w].active
    <3>1. Fields(q)
      BY <1>1, <2>1, <2>2 DEF Fields
    <3>2. q.at = "loop"
      BY <1>1, <2>1, <2>2 DEF Fields
    <3>3. q.active = wk[w].active
      BY <1>1, <2>1, <2>2 DEF Fields
    <3> QED
      BY <3>1, <3>2, <3>3
  <2>4. wk' = [wk EXCEPT ![w] = q]
    BY <1>1, <2>2 DEF Inv, Shaped, Processes
  <2> QED
    BY <2>3, <2>4, OneShape DEF Inv
<1>3. row'.active = wk[w].active
  BY <1>1 DEF Inv, Shaped
<1> QED
  BY <1>1, <1>2, <1>3, LoopStep

LEMMA CommandFailsStep == ASSUME Inv, NEW w \in Pids, CommandFails(w) PROVE Inv'
<1>1. PICK a : wk' = [wk EXCEPT ![w].active = a, ![w].batch = Tail(@)]
  BY DEF CommandFails
<1>2. /\ wk[w].at = "loop" /\ UNCHANGED <<row, http, raced>>
      /\ unsynced' = unsynced \cup {w}
  BY DEF CommandFails, HasTask
<1>3. /\ Processes(wk')
      /\ wk'[w].at = "loop" /\ wk'[w].active = a
      /\ \A v \in Pids \ {w} : wk'[v] = wk[v]
  <2>1. Fields(wk[w])
    BY DEF Inv, Shaped, Processes
  <2>2. PICK q : q = [wk[w] EXCEPT !.active = a, !.batch = Tail(@)]
    OBVIOUS
  <2>3. Fields(q) /\ q.at = "loop" /\ q.active = a
    <3>1. Fields(q)
      BY <1>1, <1>2, <2>1, <2>2 DEF Fields
    <3>2. q.at = "loop"
      BY <1>1, <1>2, <2>1, <2>2 DEF Fields
    <3>3. q.active = a
      BY <1>1, <1>2, <2>1, <2>2 DEF Fields
    <3> QED
      BY <3>1, <3>2, <3>3
  <2>4. wk' = [wk EXCEPT ![w] = q]
    BY <1>1, <1>2, <2>2 DEF Inv, Shaped, Processes
  <2> QED
    BY <2>3, <2>4, OneShape DEF Inv
<1> QED
  BY <1>2, <1>3, LoopStep

LEMMA RunStopStep == ASSUME Inv, NEW w \in Pids, RunStop(w) PROVE Inv'
<1>1. /\ wk[w].at = "loop" /\ UNCHANGED <<row, http, history>>
      /\ wk' = [wk EXCEPT ![w].at = "stopping", ![w].batch = <<>>]
  BY DEF RunStop, HasTask
<1>2. /\ Processes(wk')
      /\ wk'[w].at = "stopping" /\ wk'[w].active = wk[w].active
      /\ \A v \in Pids \ {w} : wk'[v] = wk[v]
  <2>1. Fields(wk[w])
    BY DEF Inv, Shaped, Processes
  <2>2. PICK q : q = [wk[w] EXCEPT !.at = "stopping", !.batch = <<>>]
    OBVIOUS
  <2>3. Fields(q) /\ q.at = "stopping" /\ q.active = wk[w].active
    <3>1. Fields(q)
      BY <1>1, <2>1, <2>2 DEF Fields
    <3>2. q.at = "stopping"
      BY <1>1, <2>1, <2>2 DEF Fields
    <3>3. q.active = wk[w].active
      BY <1>1, <2>1, <2>2 DEF Fields
    <3> QED
      BY <3>1, <3>2, <3>3
  <2>4. wk' = [wk EXCEPT ![w] = q]
    BY <1>1, <2>2 DEF Inv, Shaped, Processes
  <2> QED
    BY <2>3, <2>4, OneShape DEF Inv
<1> QED
  BY <1>1, <1>2, LoopStep DEF history

LEMMA HeartbeatStep == ASSUME Inv, NEW w \in Pids, Heartbeat(w) PROVE Inv'
<1>1. /\ wk[w].at = "loop" /\ UNCHANGED <<wk, http, raced>>
      /\ row' = [row EXCEPT !.active = wk[w].active]
      /\ unsynced' = unsynced \ {w}
  BY DEF Heartbeat
<1>2. /\ Processes(wk')
      /\ wk'[w].at = "loop" /\ wk'[w].active = wk[w].active
      /\ \A v \in Pids \ {w} : wk'[v] = wk[v]
  BY <1>1 DEF Inv, Shaped
<1>3. row'.active = wk[w].active
  BY <1>1 DEF Inv, Shaped
<1> QED
  BY <1>1, <1>2, <1>3, LoopStep

\* The last word in the row: nobody works any more.
LEMMA DrainStep == ASSUME Inv, NEW w \in Pids, Drain(w) PROVE Inv'
<1>1. /\ wk[w].at = "drain" /\ UNCHANGED <<http, history>>
      /\ row' = [state |-> "STOPPED", pid |-> 0, active |-> {}]
      /\ wk' = [wk EXCEPT ![w].at = "release", ![w].active = {}]
  BY DEF Drain
<1>2. /\ Processes(wk')
      /\ wk'[w].at = "release" /\ wk'[w].active = {}
      /\ \A v \in Pids \ {w} : wk'[v] = wk[v]
  <2>1. Fields(wk[w])
    BY DEF Inv, Shaped, Processes
  <2>2. PICK q : q = [wk[w] EXCEPT !.at = "release", !.active = {}]
    OBVIOUS
  <2>3. Fields(q) /\ q.at = "release" /\ q.active = {}
    <3>1. Fields(q)
      BY <1>1, <2>1, <2>2 DEF Fields
    <3>2. q.at = "release"
      BY <1>1, <2>1, <2>2 DEF Fields
    <3>3. q.active = {}
      BY <1>1, <2>1, <2>2 DEF Fields
    <3> QED
      BY <3>1, <3>2, <3>3
  <2>4. wk' = [wk EXCEPT ![w] = q]
    BY <1>1, <2>2 DEF Inv, Shaped, Processes
  <2> QED
    BY <2>3, <2>4, OneShape DEF Inv
<1>3. /\ Works(w) /\ ~Works(w)' /\ w \notin Unregistered'
      /\ wk'[w].at \notin {"connect", "loop"}
  BY <1>1, <1>2 DEF Works, Unregistered
<1>4. row' = [state |-> row'.state, pid |-> row'.pid, active |-> row'.active]
  BY <1>1
<1> QED
  BY <1>1, <1>2, <1>3, <1>4, ProcessStep DEF history

LEMMA PlaceStep ==
    ASSUME Inv, NEW w \in Pids,
           \/ Boot(w) \/ TakeLock(w) \/ Connect(w) \/ Stopping(w) \/ Release(w) \/ Die(w)
    PROVE  Inv'
<1>1. ASSUME Boot(w) PROVE Inv'
  <2>1. PICK at \in {"gone", "lock"} : Goto(w, at)
    BY <1>1 DEF Boot
  <2> QED
    BY <1>1, <2>1, GotoStep DEF Boot
<1>2. ASSUME TakeLock(w) PROVE Inv'
  BY <1>2, GotoStep DEF TakeLock
<1>3. ASSUME Connect(w) PROVE Inv'
  BY <1>3, StateStep DEF Connect
<1>4. ASSUME Stopping(w) PROVE Inv'
  BY <1>4, StateStep DEF Stopping
<1>5. ASSUME Release(w) PROVE Inv'
  BY <1>5, GotoStep DEF Release
<1>6. ASSUME Die(w) PROVE Inv'
  BY <1>6, GotoStep DEF Die
<1> QED
  BY <1>1, <1>2, <1>3, <1>4, <1>5, <1>6

-------------------------------------------------------------------------------
(***************************************************************************)
(* The theorems.                                                           *)
(***************************************************************************)

LEMMA InitInv == Init => Inv
<1> SUFFICES ASSUME Init PROVE Inv
  OBVIOUS
<1>1. \A w \in Pids : wk[w] = [at |-> "unborn", active |-> {}, batch |-> <<>>]
  BY DEF Init, Unborn
<1>2. \A t \in Threads : http[t].at = "none"
  BY DEF Init, NoRequest
<1>3. Shaped
  <2>1. Processes(wk)
    BY <1>1 DEF Init, Processes, Fields
  <2> QED
    BY <2>1 DEF Init, Shaped
<1>4. \A w \in Pids : ~Works(w) /\ w \notin Unregistered
  BY <1>1 DEF Works, Unregistered
<1>5. Unregistered = {}
  BY <1>4 DEF Unregistered
<1>6. Fresh /\ Told
  BY <1>1 DEF Fresh, Told
<1> QED
  BY <1>2, <1>3, <1>4, <1>5, <1>6 DEF Inv, InOrder, Named, Lone, Quiet, Decided

LEMMA ClientStep == ASSUME Inv, NEW t \in Threads, Client(t) PROVE Inv'
BY StartWorkerStep, StopWorkerStep, ForRouteStep, ClaimStep, RequestEnds, ResetStep
   DEF Client

LEMMA WorkerStep ==
    ASSUME Inv, NEW w \in Pids, Worker(w) \/ Heartbeat(w) \/ Die(w)
    PROVE  Inv'
BY PlaceStep, RegisterStep, FetchStep, RunCommandStep, SyncStep, CommandFailsStep,
   RunStopStep, DrainStep, HeartbeatStep
   DEF Worker

LEMMA NextInv == Inv /\ [Next]_vars => Inv'
<1> SUFFICES ASSUME Inv, [Next]_vars PROVE Inv'
  OBVIOUS
<1>1. CASE UNCHANGED vars
  BY <1>1 DEF vars, history, Inv, Shaped, Fresh, InOrder, Named, Told, Lone, Quiet,
              Decided, Works, Unregistered
<1>2. CASE Next
  BY <1>2, ClientStep, WorkerStep DEF Next
<1> QED
  BY <1>1, <1>2

THEOREM WorkerInv == Spec => []Inv
BY InitInv, NextInv, PTL DEF Spec

\* No two processes work at a time unless requests of the dashboard overtook
\* one another while one was started (start_worker, _acquire_lock).
THEOREM WorkerAlone == Spec => []OneWorker
<1>1. Inv => OneWorker
  BY DEF Inv, InOrder, Named, OneWorker
<1> QED
  BY <1>1, WorkerInv, PTL

\* Under the same condition the row names the process that is in its loop and
\* the routes it listens to, unless a command of its own failed
\* (_sync_active_routes, _maybe_heartbeat).
THEOREM WorkerRowIsTrue == Spec => []RowIsTrue
<1>1. Inv => RowIsTrue
  BY DEF Inv, InOrder, Named, Told, Works, RowIsTrue
<1> QED
  BY <1>1, WorkerInv, PTL
===============================================================================
