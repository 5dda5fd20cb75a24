------------------------------ MODULE SignalRoute ------------------------------
(***************************************************************************)
(* A Telegram message on its way to the files of an MT5 target: the route  *)
(* runtimes of the listener worker (RouteListenerManager._process_message, *)
(* TelegramMessageHandler, TelegramPairMatcher), the candidate-test arm in *)
(* the database that a real publish needs, and the dashboard's threads     *)
(* that arm, disarm and delete routes while a message is processed.        *)
(*                                                                         *)
(* One thread processes all messages.  The publisher is PairPublisher's:   *)
(* here a publish puts the pair in place, or raises.  A route has a        *)
(* channel of its own.                                                     *)
(***************************************************************************)
EXTENDS Integers

CONSTANTS
    Routes,
    Startable,          \* routes for which the rest of validate_start holds
    Threads,            \* HTTP threads that arm routes
    Messages,           \* seed and details messages of the channels
    None,               \* no message, no group
    Route(_),           \* the route a message is for
    IsSeed(_),          \* classify_telegram_text: seed, or else details
    Text(_),            \* texts with the same hash are the same
    Header(_),          \* symbol and direction, None for another symbol
    Group(_),           \* grouped_id, or None
    ReplyTo(_)          \* the message this one replies to, or None

ASSUME RouteOfMessage == \A m \in Messages : Route(m) \in Routes
ASSUME NoneIsNoMessage == None \notin Messages

VARIABLES
    mode,       \* routes.mode in the database; OVERDUE when it is ARMED and
                \* candidate_test_expires_at_utc has passed, GONE when the row
                \* was deleted
    http,       \* HTTP thread -> the arm request it is in
    dry,        \* the worker was started with DRY_RUN
    rt,         \* route -> its runtime in the worker, or NotRunning
    job         \* the message the listener thread is in the middle of

(* History variables.                                                      *)
VARIABLES
    sent,       \* real publishes since the route was last armed, disarmed
                \* or deleted, counted up to SentCap
    escaped,    \* one of them could not be recorded
    raced       \* a route was armed on the strength of an outdated reading

history == <<sent, escaped, raced>>
vars == <<mode, http, dry, rt, job, history>>

SentCap == 2
Mode == {"OBSERVER_ONLY", "ARMED", "OVERDUE", "CONSUMED", "EXPIRED", "GONE"}
Texts == {Text(m) : m \in Messages}
Groups == {Group(m) : m \in Messages} \ {None}
MaybeMessage == Messages \cup {None}

\* RouteRuntime: the texts it has seen, the pending seed and whether it is
\* older than the pair timeout, the seeds by group; newest is history.
Running == [on : {TRUE}, seen : SUBSET Texts, seed : MaybeMessage,
            aged : BOOLEAN, byGroup : [Groups -> MaybeMessage],
            newest : MaybeMessage]
Fresh == [on |-> TRUE, seen |-> {}, seed |-> None, aged |-> FALSE,
          byGroup |-> [g \in Groups |-> None], newest |-> None]
NotRunning == [Fresh EXCEPT !.on = FALSE]
Runtime == Running \cup {NotRunning}

\* job.detached: the route was stopped since; its runtime is kept by the job
\* alone.
Job == [at : {"permit", "match", "record", "consume"}, msg : Messages,
        rt : Running, detached : BOOLEAN]
Idle == [at |-> "idle"]

Request == [at : {"count", "arm"}, route : Routes, overtaken : BOOLEAN]
NoRequest == [at |-> "none"]

TypeOK ==
    /\ mode \in [Routes -> Mode]
    /\ http \in [Threads -> Request \cup {NoRequest}]
    /\ dry \in BOOLEAN
    /\ rt \in [Routes -> Runtime]
    /\ job \in Job \cup {Idle}
    /\ sent \in [Routes -> 0..SentCap]
    /\ escaped \in [Routes -> BOOLEAN]
    /\ raced \in BOOLEAN

Init ==
    /\ mode = [r \in Routes |-> "OBSERVER_ONLY"]
    /\ http = [t \in Threads |-> NoRequest]
    /\ dry \in BOOLEAN
    /\ rt = [r \in Routes |-> NotRunning]
    /\ job = Idle
    /\ sent = [r \in Routes |-> 0]
    /\ escaped = [r \in Routes |-> FALSE]
    /\ raced = FALSE

-------------------------------------------------------------------------------
(***************************************************************************)
(* The arm of a route, in the database.                                    *)
(***************************************************************************)

\* expire_candidate_test_arms, the first thing get_route_detail does.
Swept(md) == [r \in Routes |-> IF md[r] = "OVERDUE" THEN "EXPIRED" ELSE md[r]]

Armed(md) == {r \in Routes : md[r] \in {"ARMED", "OVERDUE"}}

\* The fifteen minutes are over.
ArmFallsDue(r) ==
    /\ mode[r] = "ARMED"
    /\ mode' = [mode EXCEPT ![r] = "OVERDUE"]
    /\ UNCHANGED <<http, dry, rt, job, history>>

\* list_routes, get_route_detail for the pages.
ListRoutes ==
    /\ mode' = Swept(mode)
    /\ mode' # mode
    /\ UNCHANGED <<http, dry, rt, job, history>>

\* A spent arm is taken for a free route.
ArmableUnlessArmed(m) == m \notin {"ARMED", "OVERDUE", "GONE"}

\* validate_arm_eligibility on the mode of the row.
Armable(m) == m = "OBSERVER_ONLY"

\* _arm_candidate_test_route reads the route,
ReadDetail(t, r) ==
    /\ http[t] = NoRequest
    /\ mode' = Swept(mode)
    /\ Armable(mode'[r])
    /\ http' = [http EXCEPT ![t] = [at |-> "count", route |-> r,
                                    overtaken |-> FALSE]]
    /\ UNCHANGED <<dry, rt, job, history>>

\* The count is over the wrong table.
CountNothing(t) ==
    /\ http[t].at = "count"
    /\ http' = [http EXCEPT ![t].at = "arm"]
    /\ UNCHANGED <<mode, dry, rt, job, history>>

\* counts the other arms,
CountArms(t) ==
    /\ http[t].at = "count"
    /\ http' = [http EXCEPT ![t] =
           IF Armed(mode) \subseteq {@.route} THEN [@ EXCEPT !.at = "arm"]
           ELSE NoRequest]
    /\ UNCHANGED <<mode, dry, rt, job, history>>

\* What the requests in rs have read is true no longer.
Overtaken(h, rs) == [t \in Threads |->
    IF h[t] # NoRequest /\ h[t].route \in rs
    THEN [h[t] EXCEPT !.overtaken = TRUE] ELSE h[t]]

\* and updates the row by its id alone.
Arm(t) ==
    LET r == http[t].route IN
    /\ http[t].at = "arm"
    /\ mode[r] # "GONE"
    /\ mode' = [Swept(mode) EXCEPT ![r] = "ARMED"]
    /\ sent' = [sent EXCEPT ![r] = 0]
    /\ escaped' = [escaped EXCEPT ![r] = FALSE]
    /\ raced' = (raced \/ http[t].overtaken)
    /\ http' = Overtaken([http EXCEPT ![t] = NoRequest], Routes)
    /\ UNCHANGED <<dry, rt, job>>

\* The row is gone: the update reports that no route was found.
ArmNothing(t) ==
    /\ http[t].at = "arm"
    /\ mode[http[t].route] = "GONE"
    /\ http' = [http EXCEPT ![t] = NoRequest]
    /\ UNCHANGED <<mode, dry, rt, job, history>>

\* disarm_candidate_test_route asks for no mode.
Disarm(r) ==
    /\ mode[r] # "GONE"
    /\ mode' = [Swept(mode) EXCEPT ![r] = "OBSERVER_ONLY"]
    /\ sent' = [sent EXCEPT ![r] = 0]
    /\ escaped' = [escaped EXCEPT ![r] = FALSE]
    /\ UNCHANGED <<http, dry, rt, job, raced>>

\* DELETE /api/routes: the listener of the route is not stopped.
DeleteRoute(r) ==
    /\ mode[r] # "GONE"
    /\ mode' = [mode EXCEPT ![r] = "GONE"]
    /\ sent' = [sent EXCEPT ![r] = 0]
    /\ escaped' = [escaped EXCEPT ![r] = FALSE]
    /\ UNCHANGED <<http, dry, rt, job, raced>>

Dashboard ==
    \/ \E r \in Routes : ArmFallsDue(r) \/ Disarm(r) \/ DeleteRoute(r)
    \/ \E t \in Threads, r \in Routes : ReadDetail(t, r)
    \/ \E t \in Threads : CountArms(t) \/ Arm(t) \/ ArmNothing(t)
    \/ ListRoutes

-------------------------------------------------------------------------------
(***************************************************************************)
(* The worker: start_route, stop_route, and its death.                     *)
(***************************************************************************)

\* validate_start wants a mode a listener can work with.
StartRoute(r) ==
    /\ r \in Startable
    /\ ~rt[r].on
    /\ mode[r] \in {"OBSERVER_ONLY", "ARMED", "OVERDUE"}
    /\ rt' = [rt EXCEPT ![r] = Fresh]
    /\ UNCHANGED <<mode, http, dry, job, history>>

StopRoute(r) ==
    /\ rt[r].on
    /\ rt' = [rt EXCEPT ![r] = NotRunning]
    /\ job' = IF job # Idle /\ Route(job.msg) = r
              THEN [job EXCEPT !.detached = TRUE] ELSE job
    /\ UNCHANGED <<mode, http, dry, history>>

\* The route a published pair is still to be recorded for.
Unrecorded == IF job # Idle /\ job.at \in {"record", "consume"} /\ ~dry
              THEN {Route(job.msg)} ELSE {}

\* The next worker may be started with another DRY_RUN.
Die ==
    /\ rt' = [r \in Routes |-> NotRunning]
    /\ job' = Idle
    /\ dry' \in BOOLEAN
    /\ escaped' = [r \in Routes |-> escaped[r] \/ r \in Unrecorded]
    /\ UNCHANGED <<mode, http, sent, raced>>

-------------------------------------------------------------------------------
(***************************************************************************)
(* TelegramPairMatcher.                                                    *)
(***************************************************************************)

\* The group of a replaced seed is left in the index.
UnregisterNothing(q, s) == q

Unregister(q, s) ==
    [q EXCEPT !.byGroup = [g \in Groups |-> IF @[g] = s THEN None ELSE @[g]]]

Cleared(q) == [q EXCEPT !.seed = None, !.aged = FALSE]

\* _expire_pending_seed_if_needed
Expired(q) ==
    IF q.seed # None /\ q.aged THEN Cleared(Unregister(q, q.seed)) ELSE q

\* ingest_telegram_seed; a seed of another symbol raises after the expiry.
WithSeed(q, m) ==
    IF Header(m) = None THEN Expired(q)
    ELSE [Unregister(Expired(q), q.seed) EXCEPT
             !.seed = m, !.aged = FALSE, !.newest = m,
             !.byGroup = [g \in Groups |-> IF g = Group(m) THEN m ELSE @[g]]]

\* find_seed_for_details: by group, by reply, by symbol and direction.
SeedFor(q, m) ==
    LET grouped == IF Group(m) = None THEN None ELSE q.byGroup[Group(m)] IN
    IF grouped # None /\ Header(m) \in {None, Header(grouped)} THEN grouped
    ELSE IF q.seed # None
            /\ (ReplyTo(m) = q.seed \/ Header(m) = Header(q.seed))
         THEN q.seed ELSE None

\* The pair was published: the seed is pending no more, nor in the index.
Matched(q, s) == Unregister(IF q.seed = s THEN Cleared(q) ELSE q, s)

-------------------------------------------------------------------------------
(***************************************************************************)
(* _process_message.                                                       *)
(***************************************************************************)

\* Time goes by for the pending seed of a route.
SeedAges(r) ==
    /\ rt[r].seed # None
    /\ ~rt[r].aged
    /\ rt' = [rt EXCEPT ![r].aged = TRUE]
    /\ UNCHANGED <<mode, http, dry, job, history>>

Deliverable(m) ==
    /\ job = Idle
    /\ rt[Route(m)].on
    /\ Text(m) \notin rt[Route(m)].seen

\* Without its row in the database a route goes no further: the event cannot
\* be inserted.
ReceiveSeed(m) ==
    LET r == Route(m)
        q == [rt[r] EXCEPT !.seen = @ \cup {Text(m)}] IN
    /\ IsSeed(m)
    /\ Deliverable(m)
    /\ rt' = [rt EXCEPT ![r] = IF mode[r] = "GONE" THEN q ELSE WithSeed(q, m)]
    /\ UNCHANGED <<mode, http, dry, job, history>>

ReceiveDetails(m) ==
    LET r == Route(m)
        q == [rt[r] EXCEPT !.seen = @ \cup {Text(m)}] IN
    /\ ~IsSeed(m)
    /\ Deliverable(m)
    /\ rt' = [rt EXCEPT ![r] = q]
    /\ job' = IF mode[r] = "GONE" THEN Idle
              ELSE [at |-> IF dry THEN "match" ELSE "permit", msg |-> m,
                    rt |-> q, detached |-> FALSE]
    /\ UNCHANGED <<mode, http, dry, history>>

\* evaluate_real_publish_permission; a route that is not found is not asked.
Permits(m) == m \in {"ARMED", "GONE"}

AskPermission ==
    /\ job.at = "permit"
    /\ mode' = Swept(mode)
    /\ job' = IF Permits(mode'[Route(job.msg)])
              THEN [job EXCEPT !.at = "match"] ELSE Idle
    /\ UNCHANGED <<http, dry, rt, history>>

\* The runtime of the job, back where the manager finds it.
Put(q) == rt' = IF job.detached THEN rt ELSE [rt EXCEPT ![Route(job.msg)] = q]

Found == SeedFor(Expired(job.rt), job.msg)

MatchNothing ==
    /\ job.at = "match"
    /\ Found = None
    /\ Put(Expired(job.rt))
    /\ job' = Idle
    /\ UNCHANGED <<mode, http, dry, history>>

CountSent(n) == [sent EXCEPT ![Route(job.msg)] = IF @ < SentCap THEN @ + n ELSE @]

\* The pair is in the files, or in the log of a dry run.
PublishPair ==
    LET q == Matched(Expired(job.rt), Found) IN
    /\ job.at = "match"
    /\ Found # None
    /\ Put(q)
    /\ job' = IF dry THEN Idle ELSE [job EXCEPT !.at = "record", !.rt = q]
    /\ sent' = IF dry THEN sent ELSE CountSent(1)
    /\ UNCHANGED <<mode, http, dry, escaped, raced>>

\* publish_pair raises, as a rule with the old files restored; the seed stays.
PublishRaises ==
    /\ job.at = "match"
    /\ Found # None
    /\ Put(Expired(job.rt))
    /\ job' = Idle
    /\ \/ UNCHANGED <<sent, escaped>>
       \/ /\ ~dry
          /\ sent' = CountSent(1)
          /\ escaped' = [escaped EXCEPT ![Route(job.msg)] = TRUE]
    /\ UNCHANGED <<mode, http, dry, raced>>

\* Recorded without a look at the arm.
RecordOnly ==
    /\ job.at = "record"
    /\ job' = Idle
    /\ UNCHANGED <<mode, http, dry, rt, history>>

\* _record_publish_success looks at the mode again,
Record ==
    /\ job.at = "record"
    /\ mode' = Swept(mode)
    /\ job' = IF mode'[Route(job.msg)] = "ARMED"
              THEN [job EXCEPT !.at = "consume"] ELSE Idle
    /\ UNCHANGED <<http, dry, rt, history>>

\* and spends the arm of whoever holds it by now.
Consume ==
    LET r == Route(job.msg) IN
    /\ job.at = "consume"
    /\ mode' = [mode EXCEPT ![r] = IF @ = "GONE" THEN @ ELSE "CONSUMED"]
    /\ http' = Overtaken(http, {r})
    /\ job' = Idle
    /\ UNCHANGED <<dry, rt, history>>

\* The database raises (it is locked), and nobody tries again.
RecordFails ==
    /\ job.at \in {"record", "consume"}
    /\ job' = Idle
    /\ escaped' = [escaped EXCEPT ![Route(job.msg)] = TRUE]
    /\ UNCHANGED <<mode, http, dry, rt, sent, raced>>

Worker ==
    \/ \E r \in Routes : StartRoute(r) \/ StopRoute(r) \/ SeedAges(r)
    \/ \E m \in Messages : ReceiveSeed(m) \/ ReceiveDetails(m)
    \/ AskPermission \/ MatchNothing \/ PublishPair \/ PublishRaises
    \/ Record \/ Consume \/ RecordFails \/ Die

Next == Dashboard \/ Worker

Spec == Init /\ [][Next]_vars

-------------------------------------------------------------------------------
(***************************************************************************)
(* Properties.                                                             *)
(***************************************************************************)

\* After an operator's last word on a route (arm, disarm, delete) at most one
\* pair reaches its files for real, the one in flight when it was spoken
\* included; a second can follow only a publish that could not be recorded.
OnePublishPerCommand ==
    \A r \in Routes : sent[r] <= 1 \/ escaped[r]

\* At most one route is armed, unless a request to arm ran side by side with
\* another one, or with the end of a publish for its route.
OneArmedRoute ==
    raced \/ \A r1, r2 \in Armed(mode) : r1 = r2

\* A spent arm is renewed only after a disarm, with the same exception.
SpentNeedsDisarm ==
    [][\A r \in Routes :
          mode[r] \in {"CONSUMED", "EXPIRED"} /\ mode'[r] = "ARMED" => raced'
      ]_vars

\* A details message can only be joined with the last seed its runtime has
\* accepted, by group as much as by reply or by header.
NewestSeedOnly ==
    \A r \in Routes, m \in Messages :
        SeedFor(rt[r], m) \in {None, rt[r].newest}
===============================================================================
