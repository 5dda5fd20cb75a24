--------------------------- MODULE SignalRouteProofs ---------------------------
(***************************************************************************)
(* Theorems about SignalRoute, for every set of routes, of threads that    *)
(* arm them and of messages, whatever their texts, headers and groups.     *)
(***************************************************************************)
EXTENDS SignalRoute, TLAPS

-------------------------------------------------------------------------------
(***************************************************************************)
(* The inductive invariant.                                                *)
(***************************************************************************)

\* The message of the job is for this route.
On(r) == job # Idle /\ Route(job.msg) = r

\* A dry run passes no permission, and records nothing.
DryMatches == job # Idle /\ dry => job.at = "match"

\* What one publish since the last command leaves behind, unless it escaped:
\* an arm that is not spent yet is about to be, nobody is about to publish, and
\* a job that was let in before its route was deleted has not published.
Spent(r) ==
    sent[r] = 0 \/ escaped[r] \/
        /\ sent[r] = 1
        /\ ~(On(r) /\ job.at = "match" /\ ~dry)
        /\ mode[r] = "GONE" => ~(On(r) /\ job.at = "permit")
        /\ mode[r] \in {"ARMED", "OVERDUE"} => On(r) /\ job.at \in {"record", "consume"}

\* What an arm request has read is true, until it is overtaken.
ReadIsTrue(t) ==
    http[t] # NoRequest /\ ~http[t].overtaken =>
        /\ mode[http[t].route] \in {"OBSERVER_ONLY", "GONE"}
        /\ http[t].at = "arm" => Armed(mode) \subseteq {http[t].route}

\* A runtime keeps its last seed at most.
KeepsNewest(q) ==
    /\ q.seed \in {None, q.newest}
    /\ \A g \in Groups : q.byGroup[g] \in {None, q.seed}

\* The publishes of every route are accounted for.
Commanded == DryMatches /\ \A r \in Routes : Spent(r)

\* No request is wrong unless it knows.
Requested == (\A t \in Threads : ReadIsTrue(t)) /\ OneArmedRoute

\* Neither is a runtime, that of the job included.
Paired ==
    /\ \A r \in Routes : KeepsNewest(rt[r])
    /\ job # Idle => KeepsNewest(job.rt)

\* What every step preserves.
Inv == TypeOK /\ Commanded /\ Requested /\ Paired
-------------------------------------------------------------------------------
(***************************************************************************)
(* Type correctness.                                                       *)
(***************************************************************************)

\* What the matcher does to a runtime is a runtime.
LEMMA UnregisterType ==
    ASSUME NEW q \in Running, NEW x
    PROVE  Unregister(q, x) \in Running /\ Unregister(q, x).seed = q.seed
<1> DEFINE kept == [g \in Groups |-> IF q.byGroup[g] = x THEN None ELSE q.byGroup[g]]
<1>1. kept \in [Groups -> MaybeMessage]
  BY DEF Running, MaybeMessage
<1>2. Unregister(q, x) = [q EXCEPT !.byGroup = kept]
  BY DEF Unregister
<1> HIDE DEF kept
<1> QED
  BY <1>1, <1>2 DEF Running

\* A runtime without its seed is one.
LEMMA ClearedType == ASSUME NEW q \in Running PROVE Cleared(q) \in Running
BY DEF Cleared, Running, MaybeMessage

\* One whose seed may have expired is one.
LEMMA ExpiredType == ASSUME NEW q \in Running PROVE Expired(q) \in Running
BY UnregisterType, ClearedType DEF Expired

\* And one with a new seed.
LEMMA WithSeedType ==
    ASSUME NEW q \in Running, NEW m \in Messages PROVE WithSeed(q, m) \in Running
<1> DEFINE p == Unregister(Expired(q), q.seed)
           indexed == [g \in Groups |-> IF g = Group(m) THEN m ELSE p.byGroup[g]]
<1>1. p \in Running /\ Expired(q) \in Running
  BY UnregisterType, ExpiredType
<1>2. indexed \in [Groups -> MaybeMessage]
  BY <1>1 DEF Running, MaybeMessage
<1>3. WithSeed(q, m) \in
        {Expired(q), [p EXCEPT !.seed = m, !.aged = FALSE, !.newest = m,
                               !.byGroup = indexed]}
  BY DEF WithSeed
<1> HIDE DEF p, indexed
<1>4. [p EXCEPT !.seed = m, !.aged = FALSE, !.newest = m, !.byGroup = indexed] \in Running
  BY <1>1, <1>2 DEF Running, MaybeMessage
<1> QED
  BY <1>1, <1>3, <1>4

\* And one whose pair was published.
LEMMA MatchedType ==
    ASSUME NEW q \in Running, NEW x PROVE Matched(q, x) \in Running
BY UnregisterType, ClearedType DEF Matched

\* A runtime that has just been started, and one that has not.
LEMMA FreshType == Fresh \in Running /\ NotRunning \in Runtime /\ Running \subseteq Runtime
BY DEF Fresh, NotRunning, Running, Runtime, MaybeMessage

\* Reading a route writes what has fallen due.
LEMMA SweptType == ASSUME mode \in [Routes -> Mode] PROVE Swept(mode) \in [Routes -> Mode]
BY DEF Swept, Mode

\* Marking requests leaves them requests.
LEMMA OvertakenType ==
    ASSUME NEW h \in [Threads -> Request \cup {NoRequest}], NEW rs
    PROVE  Overtaken(h, rs) \in [Threads -> Request \cup {NoRequest}]
<1>1. ASSUME NEW u \in Threads, h[u] # NoRequest
      PROVE  [h[u] EXCEPT !.overtaken = TRUE] \in Request
  BY <1>1 DEF Request
<1> QED
  BY <1>1 DEF Overtaken

\* A runtime is put where the manager finds it.
LEMMA PutType ==
    ASSUME TypeOK, job # Idle, NEW q \in Running, Put(q)
    PROVE  rt' \in [Routes -> Runtime]
BY RouteOfMessage, FreshType DEF Put, TypeOK, Job

\* The count of publishes stays within its cap.
LEMMA CountType ==
    ASSUME TypeOK, job # Idle PROVE CountSent(1) \in [Routes -> 0..SentCap]
BY RouteOfMessage DEF CountSent, TypeOK, SentCap, Job

\* The typing invariant is preserved by every step.
LEMMA TypeStep == TypeOK /\ [Next]_vars => TypeOK'
<1> SUFFICES ASSUME TypeOK, [Next]_vars PROVE TypeOK'
  OBVIOUS
<1> USE DEF TypeOK, history
<1>1. ASSUME NEW x \in Routes, ArmFallsDue(x) PROVE TypeOK'
  BY <1>1 DEF ArmFallsDue, Mode
<1>2. ASSUME NEW x \in Routes, Disarm(x) PROVE TypeOK'
  BY <1>2, SweptType DEF Disarm, Mode, SentCap
<1>3. ASSUME NEW x \in Routes, DeleteRoute(x) PROVE TypeOK'
  BY <1>3 DEF DeleteRoute, Mode, SentCap
<1>4. ASSUME NEW u \in Threads, NEW x \in Routes, ReadDetail(u, x) PROVE TypeOK'
  BY <1>4, SweptType DEF ReadDetail, Request, NoRequest
<1>5. ASSUME NEW u \in Threads, CountArms(u) PROVE TypeOK'
  BY <1>5 DEF CountArms, Request, NoRequest
<1>6. ASSUME NEW u \in Threads, Arm(u) PROVE TypeOK'
  <2>1. http[u] \in Request
    BY <1>6 DEF Arm, NoRequest
  <2>2. [http EXCEPT ![u] = NoRequest] \in [Threads -> Request \cup {NoRequest}]
    BY DEF NoRequest
  <2>3. http' \in [Threads -> Request \cup {NoRequest}]
    BY <1>6, <2>2, OvertakenType DEF Arm
  <2>4. http[u].route \in Routes
    BY <2>1 DEF Request
  <2>5. mode' \in [Routes -> Mode] /\ sent' \in [Routes -> 0..SentCap]
    BY <1>6, <2>4, SweptType DEF Arm, Mode, SentCap
  <2>6. escaped' \in [Routes -> BOOLEAN] /\ raced' \in BOOLEAN
    <3>1. http[u].overtaken \in BOOLEAN
      BY <2>1 DEF Request
    <3>2. escaped' \in [Routes -> BOOLEAN]
      BY <1>6, <2>4 DEF Arm
    <3>3. raced' \in BOOLEAN
      BY <1>6, <3>1, Zenon DEF Arm
    <3> QED
      BY <3>2, <3>3
  <2> QED
    BY <1>6, <2>3, <2>5, <2>6 DEF Arm
<1>7. ASSUME NEW u \in Threads, ArmNothing(u) PROVE TypeOK'
  BY <1>7 DEF ArmNothing, Request, NoRequest
<1>8. CASE ListRoutes
  BY <1>8, SweptType DEF ListRoutes
<1>9. ASSUME NEW x \in Routes, StartRoute(x) PROVE TypeOK'
  BY <1>9, FreshType DEF StartRoute
<1>10. ASSUME NEW x \in Routes, StopRoute(x) PROVE TypeOK'
  BY <1>10, FreshType DEF StopRoute, Job, Idle
<1>11. ASSUME NEW x \in Routes, SeedAges(x) PROVE TypeOK'
  <2>1. rt[x] \in Running
    BY <1>11 DEF SeedAges, Runtime, NotRunning, Fresh
  <2>2. [rt[x] EXCEPT !.aged = TRUE] \in Running
    BY <2>1 DEF Running
  <2>3. rt' = [rt EXCEPT ![x] = [rt[x] EXCEPT !.aged = TRUE]]
    BY <1>11 DEF SeedAges
  <2>4. rt' \in [Routes -> Runtime]
    BY <2>2, <2>3, FreshType
  <2> QED
    BY <1>11, <2>4 DEF SeedAges
<1>12. ASSUME NEW m \in Messages, ReceiveSeed(m) PROVE TypeOK'
  <2> DEFINE q == [rt[Route(m)] EXCEPT !.seen = @ \cup {Text(m)}]
  <2>1. Route(m) \in Routes /\ rt[Route(m)] \in Running
    BY <1>12, RouteOfMessage DEF ReceiveSeed, Deliverable, Runtime, NotRunning, Fresh
  <2>2. q \in Running
    BY <2>1 DEF Running, Texts
  <2>3. rt' = [rt EXCEPT ![Route(m)] = IF mode[Route(m)] = "GONE" THEN q ELSE WithSeed(q, m)]
    BY <1>12 DEF ReceiveSeed
  <2> HIDE DEF q
  <2>4. rt' \in [Routes -> Runtime]
    BY <2>1, <2>2, <2>3, WithSeedType, FreshType
  <2> QED
    BY <1>12, <2>4 DEF ReceiveSeed
<1>13. ASSUME NEW m \in Messages, ReceiveDetails(m) PROVE TypeOK'
  <2> DEFINE q == [rt[Route(m)] EXCEPT !.seen = @ \cup {Text(m)}]
  <2>1. Route(m) \in Routes /\ rt[Route(m)] \in Running
    BY <1>13, RouteOfMessage DEF ReceiveDetails, Deliverable, Runtime, NotRunning, Fresh
  <2>2. q \in Running
    BY <2>1 DEF Running, Texts
  <2>3. rt' = [rt EXCEPT ![Route(m)] = q]
    BY <1>13 DEF ReceiveDetails
  <2>4. job' \in {Idle, [at |-> "match", msg |-> m, rt |-> q, detached |-> FALSE],
                   [at |-> "permit", msg |-> m, rt |-> q, detached |-> FALSE]}
    BY <1>13 DEF ReceiveDetails
  <2> HIDE DEF q
  <2>5. rt' \in [Routes -> Runtime]
    BY <2>2, <2>3, FreshType
  <2>6. \A at \in {"match", "permit"} :
            [at |-> at, msg |-> m, rt |-> q, detached |-> FALSE] \in Job
    BY <2>2 DEF Job
  <2>7. job' \in Job \cup {Idle}
    BY <2>4, <2>6
  <2> QED
    BY <1>13, <2>5, <2>7 DEF ReceiveDetails
<1>14. CASE AskPermission
  BY <1>14, SweptType DEF AskPermission, Job, Idle
<1>15. CASE MatchNothing
  <2>1. job # Idle /\ job \in Job /\ job.rt \in Running
    BY <1>15 DEF MatchNothing, Idle, Job
  <2>2. rt' \in [Routes -> Runtime]
    BY <1>15, <2>1, PutType, ExpiredType DEF MatchNothing
  <2> QED
    BY <1>15, <2>2 DEF MatchNothing
<1>16. CASE PublishPair
  <2>1. job # Idle /\ job \in Job /\ job.rt \in Running
    BY <1>16 DEF PublishPair, Idle, Job
  <2> DEFINE q == Matched(Expired(job.rt), Found)
  <2>2. q \in Running
    BY <2>1, MatchedType, ExpiredType
  <2>3. Put(q) /\ job' \in {Idle, [job EXCEPT !.at = "record", !.rt = q]}
    BY <1>16 DEF PublishPair
  <2>4. sent' \in {sent, CountSent(1)}
    BY <1>16 DEF PublishPair
  <2> HIDE DEF q
  <2>5. rt' \in [Routes -> Runtime]
    BY <2>1, <2>2, <2>3, PutType
  <2>6. job' \in Job \cup {Idle}
    BY <2>1, <2>2, <2>3 DEF Job
  <2>7. sent' \in [Routes -> 0..SentCap]
    BY <2>1, <2>4, CountType
  <2> QED
    BY <1>16, <2>5, <2>6, <2>7 DEF PublishPair
<1>17. CASE PublishRaises
  <2>1. job # Idle /\ job \in Job /\ job.rt \in Running
    BY <1>17 DEF PublishRaises, Idle, Job
  <2>2. rt' \in [Routes -> Runtime]
    BY <1>17, <2>1, PutType, ExpiredType DEF PublishRaises
  <2>3. Route(job.msg) \in Routes
    BY <2>1, RouteOfMessage DEF Job
  <2>4. sent' \in [Routes -> 0..SentCap] /\ escaped' \in [Routes -> BOOLEAN]
    BY <1>17, <2>1, <2>3, CountType DEF PublishRaises
  <2> QED
    BY <1>17, <2>2, <2>4 DEF PublishRaises
<1>18. CASE Record
  BY <1>18, SweptType DEF Record, Job, Idle
<1>19. CASE Consume
  BY <1>19, OvertakenType, RouteOfMessage DEF Consume, Mode, Job
<1>20. CASE RecordFails
  BY <1>20 DEF RecordFails, Job
<1>21. CASE Die
  BY <1>21, FreshType DEF Die
<1>22. CASE UNCHANGED vars
  BY <1>22 DEF vars
<1> QED
  BY <1>1, <1>2, <1>3, <1>4, <1>5, <1>6, <1>7, <1>8, <1>9, <1>10, <1>11,
     <1>12, <1>13, <1>14, <1>15, <1>16, <1>17, <1>18, <1>19, <1>20, <1>21,
     <1>22
  DEF Next, Dashboard, Worker

-------------------------------------------------------------------------------
(***************************************************************************)
(* One publish for a command.                                              *)
(***************************************************************************)

\* A job has a message, and its message a route.
LEMMA JobRoute ==
    ASSUME TypeOK, job # Idle
    PROVE  job \in Job /\ job.msg \in Messages /\ Route(job.msg) \in Routes
BY RouteOfMessage DEF TypeOK, Job

\* The worker that records is no dry one.
LEMMA DryStep == TypeOK /\ DryMatches /\ [Next]_vars => DryMatches'
<1> SUFFICES ASSUME TypeOK, DryMatches, [Next]_vars PROVE DryMatches'
  OBVIOUS
<1> USE DEF DryMatches, history, Idle, Job, TypeOK
<1>1. ASSUME NEW x \in Routes, ArmFallsDue(x) PROVE DryMatches'
  BY <1>1 DEF ArmFallsDue
<1>2. ASSUME NEW x \in Routes, Disarm(x) PROVE DryMatches'
  BY <1>2 DEF Disarm
<1>3. ASSUME NEW x \in Routes, DeleteRoute(x) PROVE DryMatches'
  BY <1>3 DEF DeleteRoute
<1>4. ASSUME NEW u \in Threads, NEW x \in Routes, ReadDetail(u, x) PROVE DryMatches'
  BY <1>4 DEF ReadDetail
<1>5. ASSUME NEW u \in Threads, CountArms(u) PROVE DryMatches'
  BY <1>5 DEF CountArms
<1>6. ASSUME NEW u \in Threads, Arm(u) PROVE DryMatches'
  BY <1>6 DEF Arm
<1>7. ASSUME NEW u \in Threads, ArmNothing(u) PROVE DryMatches'
  BY <1>7 DEF ArmNothing
<1>8. CASE ListRoutes
  BY <1>8 DEF ListRoutes
<1>9. ASSUME NEW x \in Routes, StartRoute(x) PROVE DryMatches'
  BY <1>9 DEF StartRoute
<1>10. ASSUME NEW x \in Routes, StopRoute(x) PROVE DryMatches'
  BY <1>10 DEF StopRoute
<1>11. ASSUME NEW x \in Routes, SeedAges(x) PROVE DryMatches'
  BY <1>11 DEF SeedAges
<1>12. ASSUME NEW m \in Messages, ReceiveSeed(m) PROVE DryMatches'
  BY <1>12 DEF ReceiveSeed
<1>13. ASSUME NEW m \in Messages, ReceiveDetails(m) PROVE DryMatches'
  BY <1>13 DEF ReceiveDetails
<1>14. CASE AskPermission
  BY <1>14 DEF AskPermission
<1>15. CASE MatchNothing
  BY <1>15 DEF MatchNothing
<1>16. CASE PublishPair
  BY <1>16 DEF PublishPair
<1>17. CASE PublishRaises
  BY <1>17 DEF PublishRaises
<1>18. CASE Record
  BY <1>18 DEF Record
<1>19. CASE Consume
  BY <1>19 DEF Consume
<1>20. CASE RecordFails
  BY <1>20 DEF RecordFails
<1>21. CASE Die
  BY <1>21 DEF Die
<1>22. CASE UNCHANGED vars
  BY <1>22 DEF vars
<1> QED
  BY <1>1, <1>2, <1>3, <1>4, <1>5, <1>6, <1>7, <1>8, <1>9, <1>10, <1>11,
     <1>12, <1>13, <1>14, <1>15, <1>16, <1>17, <1>18, <1>19, <1>20, <1>21,
     <1>22
  DEF Next, Dashboard, Worker

\* What is published is accounted for.
LEMMA SpentStep ==
    ASSUME TypeOK, DryMatches, NEW r \in Routes, Spent(r), [Next]_vars
    PROVE  Spent(r)'
<1> USE DEF Spent, On, history, TypeOK, Mode, Idle, SentCap
<1>1. ASSUME NEW x \in Routes, ArmFallsDue(x) PROVE Spent(r)'
  BY <1>1 DEF ArmFallsDue
<1>2. ASSUME NEW x \in Routes, Disarm(x) PROVE Spent(r)'
  BY <1>2 DEF Disarm, Swept
<1>3. ASSUME NEW x \in Routes, DeleteRoute(x) PROVE Spent(r)'
  BY <1>3 DEF DeleteRoute
<1>4. ASSUME NEW u \in Threads, NEW x \in Routes, ReadDetail(u, x) PROVE Spent(r)'
  BY <1>4 DEF ReadDetail, Swept
<1>5. ASSUME NEW u \in Threads, CountArms(u) PROVE Spent(r)'
  BY <1>5 DEF CountArms
<1>6. ASSUME NEW u \in Threads, Arm(u) PROVE Spent(r)'
  BY <1>6 DEF Arm, Swept
<1>7. ASSUME NEW u \in Threads, ArmNothing(u) PROVE Spent(r)'
  BY <1>7 DEF ArmNothing
<1>8. CASE ListRoutes
  BY <1>8 DEF ListRoutes, Swept
<1>9. ASSUME NEW x \in Routes, StartRoute(x) PROVE Spent(r)'
  BY <1>9 DEF StartRoute
<1>10. ASSUME NEW x \in Routes, StopRoute(x) PROVE Spent(r)'
  BY <1>10, JobRoute DEF StopRoute
<1>11. ASSUME NEW x \in Routes, SeedAges(x) PROVE Spent(r)'
  BY <1>11 DEF SeedAges
<1>12. ASSUME NEW m \in Messages, ReceiveSeed(m) PROVE Spent(r)'
  BY <1>12 DEF ReceiveSeed
<1>13. ASSUME NEW m \in Messages, ReceiveDetails(m) PROVE Spent(r)'
  BY <1>13 DEF ReceiveDetails, Deliverable
<1>14. CASE AskPermission
  BY <1>14, JobRoute DEF AskPermission, Swept, Permits
<1>15. CASE MatchNothing
  BY <1>15, JobRoute DEF MatchNothing
<1>16. CASE PublishPair
  <2>1. job # Idle /\ job \in Job /\ job.at = "match" /\ Route(job.msg) \in Routes
    BY <1>16, JobRoute DEF PublishPair
  <2>2. CASE dry
    BY <1>16, <2>1, <2>2 DEF PublishPair
  <2>3. CASE ~dry
    <3>1. PICK q : job' = [job EXCEPT !.at = "record", !.rt = q]
      BY <1>16, <2>3 DEF PublishPair
    <3>2. job' # Idle /\ job'.at = "record" /\ job'.msg = job.msg
      BY <2>1, <3>1 DEF Job
    <3>3. sent' = [sent EXCEPT ![Route(job.msg)] = IF @ < SentCap THEN @ + 1 ELSE @]
      BY <1>16, <2>3 DEF PublishPair, CountSent
    <3>4. mode' = mode /\ escaped' = escaped /\ dry' = dry
      BY <1>16 DEF PublishPair
    <3>5. CASE Route(job.msg) = r
      <4>1. sent[r] = 0 \/ escaped[r]
        BY <2>1, <2>3, <3>5
      <4>2. sent[r] = 0 => sent'[r] = 1
        BY <3>3, <3>5
      <4> QED
        BY <3>2, <3>4, <3>5, <4>1, <4>2
    <3>6. CASE Route(job.msg) # r
      <4>1. sent'[r] = sent[r]
        BY <3>3, <3>6
      <4> QED
        BY <2>1, <3>2, <3>4, <3>6, <4>1
    <3> QED
      BY <3>5, <3>6
  <2> QED
    BY <2>2, <2>3
<1>17. CASE PublishRaises
  BY <1>17, JobRoute DEF PublishRaises, CountSent, DryMatches
<1>18. CASE Record
  BY <1>18, JobRoute DEF Record, Swept
<1>19. CASE Consume
  BY <1>19, JobRoute DEF Consume
<1>20. CASE RecordFails
  BY <1>20, JobRoute DEF RecordFails
<1>21. CASE Die
  BY <1>21, JobRoute DEF Die, Unrecorded, DryMatches
<1>22. CASE UNCHANGED vars
  BY <1>22 DEF vars
<1> QED
  BY <1>1, <1>2, <1>3, <1>4, <1>5, <1>6, <1>7, <1>8, <1>9, <1>10, <1>11,
     <1>12, <1>13, <1>14, <1>15, <1>16, <1>17, <1>18, <1>19, <1>20, <1>21,
     <1>22
  DEF Next, Dashboard, Worker

-------------------------------------------------------------------------------
(***************************************************************************)
(* One armed route.                                                        *)
(***************************************************************************)

\* A request has a route.
LEMMA RequestRoute ==
    ASSUME TypeOK, NEW t \in Threads, http[t] # NoRequest
    PROVE  http[t] \in Request /\ http[t].route \in Routes
BY DEF TypeOK, Request

\* Marking requests takes none back and starts none.
LEMMA Marked ==
    ASSUME NEW h, NEW rs, NEW t \in Threads,
           h[t] = NoRequest \/ h[t] \in Request
    PROVE  /\ h[t] = NoRequest => Overtaken(h, rs)[t] = NoRequest
           /\ h[t] # NoRequest /\ h[t].route \in rs => Overtaken(h, rs)[t].overtaken
           /\ h[t] # NoRequest /\ h[t].route \notin rs => Overtaken(h, rs)[t] = h[t]
BY DEF Overtaken, Request

\* What a request has read stays true or is marked.
LEMMA ReadStep ==
    ASSUME TypeOK, NEW t \in Threads, ReadIsTrue(t), [Next]_vars
    PROVE  ReadIsTrue(t)'
<1> USE DEF history
<1>1. ASSUME NEW x \in Routes, ArmFallsDue(x) PROVE ReadIsTrue(t)'
  BY <1>1, RequestRoute DEF ArmFallsDue, ReadIsTrue, Armed, TypeOK,
     NoRequest
<1>2. ASSUME NEW x \in Routes, Disarm(x) PROVE ReadIsTrue(t)'
  BY <1>2, RequestRoute DEF Disarm, Swept, ReadIsTrue, Armed, TypeOK,
     NoRequest
<1>3. ASSUME NEW x \in Routes, DeleteRoute(x) PROVE ReadIsTrue(t)'
  BY <1>3, RequestRoute DEF DeleteRoute, ReadIsTrue, Armed, TypeOK,
     NoRequest
<1>4. ASSUME NEW u \in Threads, NEW x \in Routes, ReadDetail(u, x) PROVE ReadIsTrue(t)'
  BY <1>4, RequestRoute DEF ReadDetail, Swept, Armable, ReadIsTrue, Armed,
     TypeOK, NoRequest
<1>5. ASSUME NEW u \in Threads, CountArms(u) PROVE ReadIsTrue(t)'
  BY <1>5, RequestRoute DEF CountArms, ReadIsTrue, Armed, TypeOK, NoRequest
<1>6. ASSUME NEW u \in Threads, Arm(u) PROVE ReadIsTrue(t)'
  <2> DEFINE h == [http EXCEPT ![u] = NoRequest]
  <2>1. h[t] \in {NoRequest, http[t]} /\ (h[t] # NoRequest => http[t] # NoRequest)
    BY DEF TypeOK
  <2>2. h[t] # NoRequest => h[t] \in Request /\ h[t].route \in Routes
    BY <2>1, RequestRoute
  <2>3. http' = Overtaken(h, Routes)
    BY <1>6 DEF Arm
  <2> HIDE DEF h
  <2>4. http'[t] # NoRequest => http'[t].overtaken
    BY <2>2, <2>3, Marked
  <2> QED
    BY <2>4 DEF ReadIsTrue
<1>7. ASSUME NEW u \in Threads, ArmNothing(u) PROVE ReadIsTrue(t)'
  BY <1>7, RequestRoute DEF ArmNothing, ReadIsTrue, Armed, TypeOK, NoRequest
<1>8. CASE ListRoutes
  BY <1>8, RequestRoute DEF ListRoutes, Swept, ReadIsTrue, Armed, TypeOK,
     NoRequest
<1>9. ASSUME NEW x \in Routes, StartRoute(x) PROVE ReadIsTrue(t)'
  BY <1>9, RequestRoute DEF StartRoute, ReadIsTrue, Armed, TypeOK, NoRequest
<1>10. ASSUME NEW x \in Routes, StopRoute(x) PROVE ReadIsTrue(t)'
  BY <1>10, RequestRoute DEF StopRoute, ReadIsTrue, Armed, TypeOK, NoRequest
<1>11. ASSUME NEW x \in Routes, SeedAges(x) PROVE ReadIsTrue(t)'
  BY <1>11, RequestRoute DEF SeedAges, ReadIsTrue, Armed, TypeOK, NoRequest
<1>12. ASSUME NEW m \in Messages, ReceiveSeed(m) PROVE ReadIsTrue(t)'
  BY <1>12, RequestRoute DEF ReceiveSeed, ReadIsTrue, Armed, TypeOK,
     NoRequest
<1>13. ASSUME NEW m \in Messages, ReceiveDetails(m) PROVE ReadIsTrue(t)'
  BY <1>13, RequestRoute DEF ReceiveDetails, ReadIsTrue, Armed, TypeOK,
     NoRequest
<1>14. CASE AskPermission
  BY <1>14, RequestRoute DEF AskPermission, Swept, ReadIsTrue, Armed,
     TypeOK, NoRequest
<1>15. CASE MatchNothing
  BY <1>15, RequestRoute DEF MatchNothing, ReadIsTrue, Armed, TypeOK,
     NoRequest
<1>16. CASE PublishPair
  BY <1>16, RequestRoute DEF PublishPair, ReadIsTrue, Armed, TypeOK,
     NoRequest
<1>17. CASE PublishRaises
  BY <1>17, RequestRoute DEF PublishRaises, ReadIsTrue, Armed, TypeOK,
     NoRequest
<1>18. CASE Record
  BY <1>18, RequestRoute DEF Record, Swept, ReadIsTrue, Armed, TypeOK,
     NoRequest
<1>19. CASE Consume
  <2> DEFINE c == Route(job.msg)
  <2>1. http' = Overtaken(http, {c})
    BY <1>19 DEF Consume
  <2>2. mode' = [mode EXCEPT ![c] = IF @ = "GONE" THEN @ ELSE "CONSUMED"]
    BY <1>19 DEF Consume
  <2> HIDE DEF c
  <2> SUFFICES ASSUME http'[t] # NoRequest, ~http'[t].overtaken PROVE ReadIsTrue(t)'
    BY DEF ReadIsTrue
  <2>3. http[t] # NoRequest /\ http[t].route # c /\ http'[t] = http[t]
    BY <2>1, Marked, RequestRoute
  <2>4. mode'[http[t].route] = mode[http[t].route]
    BY <2>2, <2>3, RequestRoute DEF TypeOK
  <2>5. Armed(mode') \subseteq Armed(mode)
    BY <2>2 DEF Armed, TypeOK
  <2> QED
    BY <2>3, <2>4, <2>5 DEF ReadIsTrue
<1>20. CASE RecordFails
  BY <1>20, RequestRoute DEF RecordFails, ReadIsTrue, Armed, TypeOK,
     NoRequest
<1>21. CASE Die
  BY <1>21, RequestRoute DEF Die, ReadIsTrue, Armed, TypeOK, NoRequest
<1>22. CASE UNCHANGED vars
  BY <1>22 DEF vars, ReadIsTrue, Armed
<1> QED
  BY <1>1, <1>2, <1>3, <1>4, <1>5, <1>6, <1>7, <1>8, <1>9, <1>10, <1>11,
     <1>12, <1>13, <1>14, <1>15, <1>16, <1>17, <1>18, <1>19, <1>20, <1>21,
     <1>22
  DEF Next, Dashboard, Worker

\* Two armed routes are the work of an outdated reading.
LEMMA ArmedStep ==
    ASSUME TypeOK, \A t \in Threads : ReadIsTrue(t), OneArmedRoute, [Next]_vars
    PROVE  OneArmedRoute'
<1> USE DEF OneArmedRoute, Armed, history, TypeOK
<1>1. ASSUME NEW x \in Routes, ArmFallsDue(x) PROVE OneArmedRoute'
  BY <1>1 DEF ArmFallsDue
<1>2. ASSUME NEW x \in Routes, Disarm(x) PROVE OneArmedRoute'
  BY <1>2 DEF Disarm, Swept
<1>3. ASSUME NEW x \in Routes, DeleteRoute(x) PROVE OneArmedRoute'
  BY <1>3 DEF DeleteRoute
<1>4. ASSUME NEW u \in Threads, NEW x \in Routes, ReadDetail(u, x) PROVE OneArmedRoute'
  BY <1>4 DEF ReadDetail, Swept
<1>5. ASSUME NEW u \in Threads, CountArms(u) PROVE OneArmedRoute'
  BY <1>5 DEF CountArms
<1>6. ASSUME NEW u \in Threads, Arm(u) PROVE OneArmedRoute'
  <2>1. http[u] # NoRequest /\ http[u].at = "arm"
    BY <1>6 DEF Arm, NoRequest
  <2>2. CASE http[u].overtaken
    <3>1. raced'
      BY <1>6, <2>2, Zenon DEF Arm
    <3> QED
      BY <3>1 DEF OneArmedRoute
  <2>3. CASE ~http[u].overtaken
    <3>1. Armed(mode) \subseteq {http[u].route}
      BY <2>1, <2>3 DEF ReadIsTrue
    <3>2. Armed(mode') \subseteq {http[u].route}
      BY <1>6, <3>1 DEF Arm, Swept, Armed, TypeOK
    <3> QED
      BY <3>2 DEF OneArmedRoute
  <2> QED
    BY <2>2, <2>3
<1>7. ASSUME NEW u \in Threads, ArmNothing(u) PROVE OneArmedRoute'
  BY <1>7 DEF ArmNothing
<1>8. CASE ListRoutes
  BY <1>8 DEF ListRoutes, Swept
<1>9. ASSUME NEW x \in Routes, StartRoute(x) PROVE OneArmedRoute'
  BY <1>9 DEF StartRoute
<1>10. ASSUME NEW x \in Routes, StopRoute(x) PROVE OneArmedRoute'
  BY <1>10 DEF StopRoute
<1>11. ASSUME NEW x \in Routes, SeedAges(x) PROVE OneArmedRoute'
  BY <1>11 DEF SeedAges
<1>12. ASSUME NEW m \in Messages, ReceiveSeed(m) PROVE OneArmedRoute'
  BY <1>12 DEF ReceiveSeed
<1>13. ASSUME NEW m \in Messages, ReceiveDetails(m) PROVE OneArmedRoute'
  BY <1>13 DEF ReceiveDetails
<1>14. CASE AskPermission
  BY <1>14 DEF AskPermission, Swept
<1>15. CASE MatchNothing
  BY <1>15 DEF MatchNothing
<1>16. CASE PublishPair
  BY <1>16 DEF PublishPair
<1>17. CASE PublishRaises
  BY <1>17 DEF PublishRaises
<1>18. CASE Record
  BY <1>18 DEF Record, Swept
<1>19. CASE Consume
  BY <1>19 DEF Consume
<1>20. CASE RecordFails
  BY <1>20 DEF RecordFails
<1>21. CASE Die
  BY <1>21 DEF Die
<1>22. CASE UNCHANGED vars
  BY <1>22 DEF vars
<1> QED
  BY <1>1, <1>2, <1>3, <1>4, <1>5, <1>6, <1>7, <1>8, <1>9, <1>10, <1>11,
     <1>12, <1>13, <1>14, <1>15, <1>16, <1>17, <1>18, <1>19, <1>20, <1>21,
     <1>22
  DEF Next, Dashboard, Worker

\* A spent arm is renewed on the strength of an outdated reading alone.
LEMMA RenewStep ==
    ASSUME TypeOK, \A t \in Threads : ReadIsTrue(t), [Next]_vars, NEW r \in Routes,
           mode[r] \in {"CONSUMED", "EXPIRED"}, mode'[r] = "ARMED"
    PROVE  raced'
<1> USE DEF history, TypeOK
<1>1. ASSUME NEW x \in Routes, ArmFallsDue(x) PROVE raced'
  BY <1>1 DEF ArmFallsDue
<1>2. ASSUME NEW x \in Routes, Disarm(x) PROVE raced'
  BY <1>2 DEF Disarm, Swept
<1>3. ASSUME NEW x \in Routes, DeleteRoute(x) PROVE raced'
  BY <1>3 DEF DeleteRoute
<1>4. ASSUME NEW u \in Threads, NEW x \in Routes, ReadDetail(u, x) PROVE raced'
  BY <1>4 DEF ReadDetail, Swept
<1>5. ASSUME NEW u \in Threads, CountArms(u) PROVE raced'
  BY <1>5 DEF CountArms
<1>6. ASSUME NEW u \in Threads, Arm(u) PROVE raced'
  <2>1. http[u] # NoRequest
    BY <1>6 DEF Arm, NoRequest
  <2>2. http[u].route = r
    BY <1>6 DEF Arm, Swept, TypeOK
  <2>3. http[u].overtaken
    BY <2>1, <2>2 DEF ReadIsTrue
  <2> QED
    BY <1>6, <2>3, Zenon DEF Arm
<1>7. ASSUME NEW u \in Threads, ArmNothing(u) PROVE raced'
  BY <1>7 DEF ArmNothing
<1>8. CASE ListRoutes
  BY <1>8 DEF ListRoutes, Swept
<1>9. ASSUME NEW x \in Routes, StartRoute(x) PROVE raced'
  BY <1>9 DEF StartRoute
<1>10. ASSUME NEW x \in Routes, StopRoute(x) PROVE raced'
  BY <1>10 DEF StopRoute
<1>11. ASSUME NEW x \in Routes, SeedAges(x) PROVE raced'
  BY <1>11 DEF SeedAges
<1>12. ASSUME NEW m \in Messages, ReceiveSeed(m) PROVE raced'
  BY <1>12 DEF ReceiveSeed
<1>13. ASSUME NEW m \in Messages, ReceiveDetails(m) PROVE raced'
  BY <1>13 DEF ReceiveDetails
<1>14. CASE AskPermission
  BY <1>14 DEF AskPermission, Swept
<1>15. CASE MatchNothing
  BY <1>15 DEF MatchNothing
<1>16. CASE PublishPair
  BY <1>16 DEF PublishPair
<1>17. CASE PublishRaises
  BY <1>17 DEF PublishRaises
<1>18. CASE Record
  BY <1>18 DEF Record, Swept
<1>19. CASE Consume
  BY <1>19 DEF Consume
<1>20. CASE RecordFails
  BY <1>20 DEF RecordFails
<1>21. CASE Die
  BY <1>21 DEF Die
<1>22. CASE UNCHANGED vars
  BY <1>22 DEF vars
<1> QED
  BY <1>1, <1>2, <1>3, <1>4, <1>5, <1>6, <1>7, <1>8, <1>9, <1>10, <1>11,
     <1>12, <1>13, <1>14, <1>15, <1>16, <1>17, <1>18, <1>19, <1>20, <1>21,
     <1>22
  DEF Next, Dashboard, Worker

-------------------------------------------------------------------------------
(***************************************************************************)
(* The seed details are joined with.                                       *)
(***************************************************************************)

\* A seed that is unregistered is in no group.
LEMMA UnregisterKeeps ==
    ASSUME NEW q \in Running, KeepsNewest(q), NEW x
    PROVE  /\ KeepsNewest(Unregister(q, x))
           /\ x = q.seed => \A g \in Groups : Unregister(q, x).byGroup[g] = None
<1> DEFINE kept == [g \in Groups |-> IF q.byGroup[g] = x THEN None ELSE q.byGroup[g]]
<1>1. Unregister(q, x) = [q EXCEPT !.byGroup = kept]
  BY DEF Unregister
<1>2. \A g \in Groups : \/ kept[g] \in {None, q.byGroup[g]} /\ kept[g] # x
                      \/ kept[g] = None
  OBVIOUS
<1> HIDE DEF kept
<1>3. /\ Unregister(q, x).seed = q.seed
      /\ Unregister(q, x).newest = q.newest
      /\ Unregister(q, x).byGroup = kept
  BY <1>1 DEF Running
<1> QED
  BY <1>2, <1>3 DEF KeepsNewest

\* A runtime without a seed, and with none in its index.
LEMMA ClearedKeeps ==
    ASSUME NEW q \in Running, \A g \in Groups : q.byGroup[g] = None
    PROVE  KeepsNewest(Cleared(q)) /\ Cleared(q).byGroup = q.byGroup
BY DEF Cleared, Running, KeepsNewest

\* An expired seed is in no group.
LEMMA ExpiredKeeps ==
    ASSUME NEW q \in Running, KeepsNewest(q)
    PROVE  KeepsNewest(Expired(q)) /\ Expired(q).seed \in {None, q.seed}
<1>1. CASE q.seed # None /\ q.aged
  <2> DEFINE p == Unregister(q, q.seed)
  <2>1. p \in Running /\ \A g \in Groups : p.byGroup[g] = None
    BY UnregisterType, UnregisterKeeps
  <2>2. Expired(q) = Cleared(p)
    BY <1>1 DEF Expired
  <2> HIDE DEF p
  <2>3. Cleared(p).seed = None
    BY <2>1 DEF Cleared, Running
  <2> QED
    BY <2>1, <2>2, <2>3, ClearedKeeps
<1>2. CASE ~(q.seed # None /\ q.aged)
  BY <1>2 DEF Expired
<1> QED
  BY <1>1, <1>2

\* A new seed takes the place of the old one in every group.
LEMMA WithSeedKeeps ==
    ASSUME NEW q \in Running, KeepsNewest(q), NEW m \in Messages
    PROVE  KeepsNewest(WithSeed(q, m))
<1>1. CASE Header(m) = None
  BY <1>1, ExpiredKeeps DEF WithSeed
<1>2. CASE Header(m) # None
  <2> DEFINE e == Expired(q)
             p == Unregister(e, q.seed)
             indexed == [g \in Groups |-> IF g = Group(m) THEN m ELSE p.byGroup[g]]
  <2>1. e \in Running /\ KeepsNewest(e) /\ e.seed \in {None, q.seed}
    BY ExpiredType, ExpiredKeeps
  <2>2. p \in Running
    BY <2>1, UnregisterType
  <2>3. WithSeed(q, m) = [p EXCEPT !.seed = m, !.aged = FALSE, !.newest = m,
                                   !.byGroup = indexed]
    BY <1>2 DEF WithSeed
  <2>4. \A g \in Groups : p.byGroup[g] = None
    <3>1. CASE e.seed = q.seed
      BY <2>1, <3>1, UnregisterKeeps
    <3>2. CASE e.seed = None
      <4>1. KeepsNewest(p) /\ p.seed = None
        BY <2>1, <3>2, UnregisterKeeps, UnregisterType
      <4> QED
        BY <4>1 DEF KeepsNewest
    <3> QED
      BY <2>1, <3>1, <3>2
  <2>5. \A g \in Groups : indexed[g] \in {None, m}
    BY <2>4
  <2> HIDE DEF e, p, indexed
  <2>6. /\ WithSeed(q, m).seed = m
        /\ WithSeed(q, m).newest = m
        /\ WithSeed(q, m).byGroup = indexed
    BY <2>2, <2>3 DEF Running
  <2> QED
    BY <2>5, <2>6 DEF KeepsNewest
<1> QED
  BY <1>1, <1>2

\* Details find the seed of their runtime, or none.
LEMMA SeedForKeeps ==
    ASSUME NEW q, KeepsNewest(q), NEW m \in Messages
    PROVE  SeedFor(q, m) \in {None, q.seed}
BY DEF SeedFor, KeepsNewest, Groups

\* A seed whose pair was published is in no group.
LEMMA MatchedKeeps ==
    ASSUME NEW q \in Running, KeepsNewest(q)
    PROVE  KeepsNewest(Matched(q, q.seed))
<1> DEFINE c == Cleared(q)
           p == Unregister(c, q.seed)
<1>1. /\ c \in Running /\ c.seed = None
      /\ c.byGroup = q.byGroup
  BY ClearedType DEF Cleared, Running
<1>2. Matched(q, q.seed) = p
  BY DEF Matched
<1>3. p \in Running /\ p.seed = None
  BY <1>1, UnregisterType
<1>4. \A g \in Groups : c.byGroup[g] \in {None, q.seed}
  BY <1>1 DEF KeepsNewest
<1>5. p.byGroup = [g \in Groups |-> IF c.byGroup[g] = q.seed THEN None ELSE c.byGroup[g]]
  <2> HIDE DEF c
  <2> QED
    BY <1>1 DEF Unregister, Running
<1>6. \A g \in Groups : p.byGroup[g] = None
  BY <1>4, <1>5
<1> HIDE DEF c, p
<1> QED
  BY <1>2, <1>3, <1>6 DEF KeepsNewest

\* A started runtime has no seed, and neither has one that is not running.
LEMMA FreshKeeps == KeepsNewest(Fresh) /\ KeepsNewest(NotRunning)
BY DEF Fresh, NotRunning, KeepsNewest

\* A text more seen, a seed grown older: the seeds are the same.
LEMMA SameSeeds ==
    ASSUME NEW q, KeepsNewest(q), NEW p, p.seed = q.seed, p.newest = q.newest,
           p.byGroup = q.byGroup
    PROVE  KeepsNewest(p)
BY DEF KeepsNewest

\* What is put back keeps what its runtime kept.
LEMMA PutKeeps ==
    ASSUME TypeOK, Paired, job # Idle, NEW q, KeepsNewest(q), Put(q)
    PROVE  \A r \in Routes : KeepsNewest(rt'[r])
BY JobRoute DEF Put, TypeOK, Paired

\* Every runtime keeps its last seed at most.
LEMMA PairedStep == TypeOK /\ Paired /\ [Next]_vars => Paired'
<1> SUFFICES ASSUME TypeOK, Paired, [Next]_vars PROVE Paired'
  OBVIOUS
<1>1. ASSUME NEW x \in Routes, ArmFallsDue(x) PROVE Paired'
  BY <1>1 DEF ArmFallsDue, Paired, history
<1>2. ASSUME NEW x \in Routes, Disarm(x) PROVE Paired'
  BY <1>2 DEF Disarm, Paired, history
<1>3. ASSUME NEW x \in Routes, DeleteRoute(x) PROVE Paired'
  BY <1>3 DEF DeleteRoute, Paired, history
<1>4. ASSUME NEW u \in Threads, NEW x \in Routes, ReadDetail(u, x) PROVE Paired'
  BY <1>4 DEF ReadDetail, Paired, history
<1>5. ASSUME NEW u \in Threads, CountArms(u) PROVE Paired'
  BY <1>5 DEF CountArms, Paired, history
<1>6. ASSUME NEW u \in Threads, Arm(u) PROVE Paired'
  BY <1>6 DEF Arm, Paired, history
<1>7. ASSUME NEW u \in Threads, ArmNothing(u) PROVE Paired'
  BY <1>7 DEF ArmNothing, Paired, history
<1>8. CASE ListRoutes
  BY <1>8 DEF ListRoutes, Paired, history
<1>9. ASSUME NEW x \in Routes, StartRoute(x) PROVE Paired'
  BY <1>9, FreshKeeps DEF StartRoute, Paired, TypeOK
<1>10. ASSUME NEW x \in Routes, StopRoute(x) PROVE Paired'
  <2>1. \A r \in Routes : KeepsNewest(rt'[r])
    BY <1>10, FreshKeeps DEF StopRoute, Paired, TypeOK
  <2>2. job' # Idle => job # Idle /\ job'.rt = job.rt
    BY <1>10, JobRoute DEF StopRoute, Job
  <2> QED
    BY <2>1, <2>2 DEF Paired
<1>11. ASSUME NEW x \in Routes, SeedAges(x) PROVE Paired'
  <2>1. rt[x] \in Running
    BY <1>11 DEF SeedAges, Runtime, NotRunning, Fresh, TypeOK
  <2> DEFINE q == [rt[x] EXCEPT !.aged = TRUE]
  <2>2. q.seed = rt[x].seed /\ q.newest = rt[x].newest /\ q.byGroup = rt[x].byGroup
    BY <2>1 DEF Running
  <2>3. rt' = [rt EXCEPT ![x] = q] /\ job' = job
    BY <1>11 DEF SeedAges
  <2> HIDE DEF q
  <2>4. KeepsNewest(q)
    BY <2>2, SameSeeds DEF Paired
  <2> QED
    BY <2>3, <2>4 DEF Paired, TypeOK
<1>12. ASSUME NEW m \in Messages, ReceiveSeed(m) PROVE Paired'
  <2> DEFINE q == [rt[Route(m)] EXCEPT !.seen = @ \cup {Text(m)}]
  <2>1. Route(m) \in Routes /\ rt[Route(m)] \in Running
    BY <1>12, RouteOfMessage DEF ReceiveSeed, Deliverable, Runtime, NotRunning, Fresh, TypeOK
  <2>2. q \in Running
    BY <2>1 DEF Running, Texts
  <2>3. q.seed = rt[Route(m)].seed /\ q.newest = rt[Route(m)].newest
        /\ q.byGroup = rt[Route(m)].byGroup
    BY <2>1 DEF Running
  <2>4. /\ rt' = [rt EXCEPT ![Route(m)] = IF mode[Route(m)] = "GONE" THEN q
                                       ELSE WithSeed(q, m)]
        /\ job' = job
    BY <1>12 DEF ReceiveSeed
  <2> HIDE DEF q
  <2>5. KeepsNewest(q) /\ KeepsNewest(WithSeed(q, m))
    BY <2>1, <2>2, <2>3, SameSeeds, WithSeedKeeps DEF Paired
  <2> QED
    BY <2>4, <2>5 DEF Paired, TypeOK
<1>13. ASSUME NEW m \in Messages, ReceiveDetails(m) PROVE Paired'
  <2> DEFINE q == [rt[Route(m)] EXCEPT !.seen = @ \cup {Text(m)}]
  <2>1. Route(m) \in Routes /\ rt[Route(m)] \in Running
    BY <1>13, RouteOfMessage DEF ReceiveDetails, Deliverable, Runtime, NotRunning, Fresh, TypeOK
  <2>2. q \in Running
    BY <2>1 DEF Running, Texts
  <2>3. q.seed = rt[Route(m)].seed /\ q.newest = rt[Route(m)].newest
        /\ q.byGroup = rt[Route(m)].byGroup
    BY <2>1 DEF Running
  <2>4. rt' = [rt EXCEPT ![Route(m)] = q] /\ (job' # Idle => job'.rt = q)
    BY <1>13 DEF ReceiveDetails
  <2> HIDE DEF q
  <2>5. KeepsNewest(q)
    BY <2>1, <2>3, SameSeeds DEF Paired
  <2> QED
    BY <2>4, <2>5 DEF Paired, TypeOK
<1>14. CASE AskPermission
  <2>1. rt' = rt /\ (job' # Idle => job # Idle /\ job'.rt = job.rt)
    BY <1>14, JobRoute DEF AskPermission, Idle, Job
  <2> QED
    BY <2>1 DEF Paired
<1>15. CASE MatchNothing
  <2>1. job # Idle /\ job.rt \in Running /\ KeepsNewest(job.rt)
    BY <1>15, JobRoute DEF MatchNothing, Idle, Job, Paired
  <2>2. Expired(job.rt) \in Running /\ KeepsNewest(Expired(job.rt))
    BY <2>1, ExpiredType, ExpiredKeeps
  <2>3. \A r \in Routes : KeepsNewest(rt'[r])
    BY <1>15, <2>1, <2>2, PutKeeps DEF MatchNothing
  <2> QED
    BY <1>15, <2>3 DEF MatchNothing, Paired
<1>16. CASE PublishPair
  <2>1. job # Idle /\ job.rt \in Running /\ KeepsNewest(job.rt)
    BY <1>16, JobRoute DEF PublishPair, Idle, Job, Paired
  <2>2. Expired(job.rt) \in Running /\ KeepsNewest(Expired(job.rt))
    BY <2>1, ExpiredType, ExpiredKeeps
  <2> DEFINE q == Matched(Expired(job.rt), Found)
  <2>3. Found = Expired(job.rt).seed
    BY <1>16, <2>1, <2>2, SeedForKeeps, JobRoute DEF PublishPair, Found
  <2>4. KeepsNewest(q)
    BY <2>2, <2>3, MatchedKeeps
  <2>5. Put(q) /\ job' \in {Idle, [job EXCEPT !.at = "record", !.rt = q]}
    BY <1>16 DEF PublishPair
  <2> HIDE DEF q
  <2>6. \A r \in Routes : KeepsNewest(rt'[r])
    BY <2>1, <2>4, <2>5, PutKeeps
  <2>7. job' # Idle => job'.rt = q
    BY <2>1, <2>5, JobRoute DEF Job
  <2> QED
    BY <2>4, <2>6, <2>7 DEF Paired
<1>17. CASE PublishRaises
  <2>1. job # Idle /\ job.rt \in Running /\ KeepsNewest(job.rt)
    BY <1>17, JobRoute DEF PublishRaises, Idle, Job, Paired
  <2>2. Expired(job.rt) \in Running /\ KeepsNewest(Expired(job.rt))
    BY <2>1, ExpiredType, ExpiredKeeps
  <2>3. \A r \in Routes : KeepsNewest(rt'[r])
    BY <1>17, <2>1, <2>2, PutKeeps DEF PublishRaises
  <2> QED
    BY <1>17, <2>3 DEF PublishRaises, Paired
<1>18. CASE Record
  <2>1. rt' = rt /\ (job' # Idle => job # Idle /\ job'.rt = job.rt)
    BY <1>18, JobRoute DEF Record, Idle, Job
  <2> QED
    BY <2>1 DEF Paired
<1>19. CASE Consume
  <2>1. rt' = rt /\ (job' # Idle => job # Idle /\ job'.rt = job.rt)
    BY <1>19, JobRoute DEF Consume, Idle, Job
  <2> QED
    BY <2>1 DEF Paired
<1>20. CASE RecordFails
  <2>1. rt' = rt /\ (job' # Idle => job # Idle /\ job'.rt = job.rt)
    BY <1>20, JobRoute DEF RecordFails, Idle, Job
  <2> QED
    BY <2>1 DEF Paired
<1>21. CASE Die
  BY <1>21, FreshKeeps DEF Die, Paired
<1>22. CASE UNCHANGED vars
  BY <1>22 DEF vars, Paired
<1> QED
  BY <1>1, <1>2, <1>3, <1>4, <1>5, <1>6, <1>7, <1>8, <1>9, <1>10, <1>11,
     <1>12, <1>13, <1>14, <1>15, <1>16, <1>17, <1>18, <1>19, <1>20, <1>21,
     <1>22
  DEF Next, Dashboard, Worker

-------------------------------------------------------------------------------
(***************************************************************************)
(* The theorems.                                                           *)
(***************************************************************************)

\* The whole invariant holds at the start and at every step.
LEMMA RouteInv == Spec => []Inv
<1>1. Init => Inv
  <2> SUFFICES ASSUME Init PROVE Inv
    OBVIOUS
  <2>1. TypeOK
    <3>1. mode \in [Routes -> Mode] /\ sent \in [Routes -> 0..SentCap]
      BY DEF Init, Mode, SentCap
    <3>2. http \in [Threads -> Request \cup {NoRequest}] /\ rt \in [Routes -> Runtime]
      BY FreshType DEF Init
    <3>3. escaped \in [Routes -> BOOLEAN] /\ raced \in BOOLEAN /\ dry \in BOOLEAN
      BY DEF Init
    <3> QED
      BY <3>1, <3>2, <3>3 DEF Init, TypeOK
  <2>2. Commanded
    BY DEF Init, Commanded, DryMatches, Spent
  <2>3. Requested
    BY DEF Init, Requested, ReadIsTrue, OneArmedRoute, Armed
  <2>4. Paired
    BY FreshKeeps DEF Init, Paired
  <2> QED
    BY <2>1, <2>2, <2>3, <2>4 DEF Inv
<1>2. Inv /\ [Next]_vars => Inv'
  <2> SUFFICES ASSUME Inv, [Next]_vars PROVE Inv'
    OBVIOUS
  <2>1. TypeOK' /\ DryMatches' /\ Paired'
    BY TypeStep, DryStep, PairedStep DEF Inv, Commanded
  <2>2. \A r \in Routes : Spent(r)'
    BY SpentStep DEF Inv, Commanded
  <2>3. (\A t \in Threads : ReadIsTrue(t)') /\ OneArmedRoute'
    BY ReadStep, ArmedStep DEF Inv, Requested
  <2> QED
    BY <2>1, <2>2, <2>3 DEF Inv, Commanded, Requested
<1> QED
  BY <1>1, <1>2, PTL DEF Spec

\* The database's rows, the runtimes and the job keep their types.
THEOREM RouteTypeOK == Spec => []TypeOK
BY RouteInv, PTL DEF Inv

\* After an operator's last word on a route one pair at most is published for
\* real, unless the first could not be recorded, for any routes and messages.
THEOREM RouteOnePublish == Spec => []OnePublishPerCommand
<1>1. Inv => OnePublishPerCommand
  <2> SUFFICES ASSUME Inv, NEW r \in Routes, ~escaped[r] PROVE sent[r] <= 1
    BY DEF OnePublishPerCommand
  <2>1. sent[r] = 0 \/ sent[r] = 1
    BY DEF Inv, Commanded, Spent
  <2> QED
    BY <2>1
<1> QED
  BY <1>1, RouteInv, PTL

\* Two routes are armed at once only by requests that ran side by side.
THEOREM RouteOneArmed == Spec => []OneArmedRoute
<1>1. Inv => OneArmedRoute
  BY DEF Inv, Requested
<1> QED
  BY <1>1, RouteInv, PTL

\* Details are joined with the last seed their runtime has accepted or with
\* none, whatever groups, replies and headers the messages have.
THEOREM RouteNewestSeed == Spec => []NewestSeedOnly
<1>1. Inv => NewestSeedOnly
  <2> SUFFICES ASSUME Inv, NEW r \in Routes, NEW m \in Messages
               PROVE  SeedFor(rt[r], m) \in {None, rt[r].newest}
    BY DEF NewestSeedOnly
  <2>1. KeepsNewest(rt[r])
    BY DEF Inv, Paired
  <2>2. SeedFor(rt[r], m) \in {None, rt[r].seed}
    BY <2>1, SeedForKeeps
  <2> QED
    BY <2>1, <2>2 DEF KeepsNewest
<1> QED
  BY <1>1, RouteInv, PTL

\* A spent arm comes back only after a disarm, or by an outdated request.
THEOREM RouteSpentNeedsDisarm == Spec => SpentNeedsDisarm
<1> DEFINE Renewed == \A r \in Routes :
               mode[r] \in {"CONSUMED", "EXPIRED"} /\ mode'[r] = "ARMED" => raced'
<1>1. Inv /\ [Next]_vars => [Renewed]_vars
  BY RenewStep DEF Inv, Requested
<1>2. SpentNeedsDisarm <=> [][Renewed]_vars
  BY PTL DEF SpentNeedsDisarm
<1> HIDE DEF Renewed
<1> QED
  BY <1>1, <1>2, RouteInv, PTL DEF Spec
===============================================================================
