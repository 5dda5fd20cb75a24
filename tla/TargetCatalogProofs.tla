-------------------------- MODULE TargetCatalogProofs --------------------------
(***************************************************************************)
(* Theorems about TargetCatalog, for every set of threads, terminals and   *)
(* accounts and every number of rows, requests, logins and gaps.           *)
(***************************************************************************)
EXTENDS TargetCatalog, TLAPS

-------------------------------------------------------------------------------
(***************************************************************************)
(* The inductive invariant.                                                *)
(***************************************************************************)

\* Where a verification has still to write its verdict.
Probe == {"init", "terminal", "account", "shutdown", "save"}

\* What was found is what the row says.
Own(q) == q.found.path = q.row.path /\ q.row.expected = q.found.account

\* What was found was true of a terminal once.
True(s, f) ==
    \E x \in Terminals :
        /\ f.account # None => <<x, f.account>> \in s
        /\ f.from = "terminal" => f.path = x

\* What a verified row shows is its own.
Shown(r) ==
    /\ r.path \in {None, r.found.path}
    /\ r.found.account # None => r.expected \in {None, r.found.account}

\* What a request is about.
Shape(q) ==
    /\ q.at \in {"confirm", "patch", "rekey", "save"} => q.id \in Ids
    /\ q.at = "insert" => q.row.status = "PENDING" /\ q.row.enabled
    /\ q.at = "confirm" \/ (q.at = "insert" /\ q.old # {}) => Own(q) /\ q.vetted
    /\ q.at \in {"init", "terminal"} => q.found = Nothing

\* What a request has read of the rows, until one of them is written.
Current(q) ==
    /\ q.at = "insert" /\ q.vetted => Free(0, q.row)
    /\ q.at = "confirm" => q.row.expected \notin Taken(q.id)
    /\ q.at = "patch" /\ q.vetted /\ Exists(q.id) =>
          Free(q.id, Patched(rows[q.id], q.change))
    /\ q.at \in Probe \cup {"rekey"} /\ q.id # 0 /\ Exists(q.id) =>
          rows[q.id].path = q.row.path
    /\ q.at \in Probe /\ q.id \in Active => Taken(q.id) \subseteq q.taken

\* Every request has read what it says, or is known to be outdated.
Read == \A t \in Threads : req[t] # NoRequest =>
            Shape(req[t]) /\ (req[t].stale \/ Current(req[t]))

\* The rows whose verification was held against the others as they were.
Kin == Ids \ (edited \cup unvetted \cup outdated)

\* Another enabled row that was held against the others has folder p.
SharesFolder(i, p) ==
    \E j \in (Active \ unvetted) \ {i} : rows[j].path = p /\ p # None

\* Another verified one expects account e.
SharesAccount(i, e) ==
    \E j \in (Active \cap Kin) \ {i} : Verified(j) /\ rows[j].expected = e /\ e # None

\* No two enabled rows that were held against each other share either.
Apart ==
    /\ \A i \in Active \ unvetted : ~SharesFolder(i, rows[i].path)
    /\ \A i \in Active \cap Kin : Verified(i) => ~SharesAccount(i, rows[i].expected)

\* What a request has found, while probes do not overlap.
Answer(s, c, q) ==
    /\ q.at = "account" =>
          q.found.account = None /\ (q.found.from = "terminal" => q.found.path = c)
    /\ q.at \in {"shutdown", "save", "record"} => q.found = Nothing \/ True(s, q.found)
    /\ q.at = "confirm" \/ (q.at = "insert" /\ q.old # {}) => True(s, q.found)

\* What terminals have answered, while probes do not overlap.
Answered ==
    /\ \A x \in Terminals : <<x, holds[x]>> \in seen
    /\ ~overlapped =>
        /\ \A t, u \in Probing : t = u
        /\ \A t \in Threads : req[t] # NoRequest => Answer(seen, conn, req[t])
        /\ \A d \in discovered : True(seen, d.found)

\* The invariant.
Inv ==
    /\ TypeOK /\ Read /\ Apart /\ Answered
    /\ VerifiedIsOwn /\ VerifiedWasTrue /\ KeyFollowsFolder

-------------------------------------------------------------------------------
(***************************************************************************)
(* Type correctness.                                                       *)
(***************************************************************************)

\* The requests, as TypeOK has them.
ReqType == [Threads -> Request \cup {NoRequest}]

\* A thread in a request has one.
LEMMA InRequest ==
    ASSUME TypeOK, NEW t \in Threads, req[t] # NoRequest
    PROVE  req[t] \in Request
BY DEF TypeOK

\* A request that is put down where another thread's are marked.
LEMMA GoesType ==
    ASSUME TypeOK, NEW t \in Threads, NEW q \in Request \cup {NoRequest}, Goes(t, q)
    PROVE  req' \in ReqType
<1>1. ASSUME NEW u \in Threads, req[u] # NoRequest
      PROVE  [req[u] EXCEPT !.stale = TRUE] \in Request
  BY <1>1, InRequest DEF Request
<1> QED
  BY <1>1 DEF Goes, ReqType

\* Folders are terminals' and accounts are accounts.
LEMMA LookType ==
    ASSUME TypeOK, NEW i
    PROVE  Paths(i) \subseteq Terminals /\ Taken(i) \subseteq Accounts
           /\ Keys \subseteq Terminals
<1>1. ASSUME NEW j \in Active PROVE rows[j] \in Row
  BY DEF TypeOK, Active, Exists
<1>2. ASSUME NEW j \in Active
      PROVE  rows[j].path \in MaybeTerminal /\ rows[j].key \in MaybeTerminal
             /\ AccountOf(rows[j]) \in MaybeAccount
  BY <1>1 DEF Row, Finding, AccountOf
<1> QED
  BY <1>2 DEF Paths, Taken, Keys, MaybeTerminal, MaybeAccount

\* Nothing is a finding.
LEMMA NothingType == Nothing \in Finding
BY DEF Nothing, Finding, MaybeTerminal, MaybeAccount

\* A new row is a row.
LEMMA NewRowType ==
    ASSUME NEW x \in Terminals, NEW p \in MaybeTerminal, NEW e \in MaybeAccount
    PROVE  NewRow(x, p, e) \in Row
BY NothingType DEF NewRow, Row, MaybeTerminal

\* So is a patched one; what was found, and what the change leaves, stays.
LEMMA PatchedType ==
    ASSUME NEW r \in Row, NEW c \in Change
    PROVE  /\ Patched(r, c) \in Row
           /\ Patched(r, c).found = r.found /\ Patched(r, c).status = r.status
           /\ c.path = Kept => Patched(r, c).path = r.path
           /\ c.expected = Kept => Patched(r, c).expected = r.expected
<1> DEFINE on == IF c.enabled = Kept THEN r.enabled ELSE c.enabled = "on"
           exe == IF c.exe = Kept THEN r.exe ELSE c.exe
           path == IF c.path = Kept THEN r.path ELSE c.path
           key == IF c.key = Kept THEN r.key ELSE c.key
           expected == IF c.expected = Kept THEN r.expected ELSE c.expected
<1>1. on \in BOOLEAN /\ exe \in Terminals /\ path \in MaybeTerminal
      /\ key \in MaybeTerminal /\ expected \in MaybeAccount
  BY DEF Change, Row
<1>2. Patched(r, c) = [r EXCEPT !.enabled = on, !.exe = exe, !.path = path,
                                !.key = key, !.expected = expected]
  BY DEF Patched, Row
<1>3. c.path = Kept => path = r.path
  OBVIOUS
<1>4. c.expected = Kept => expected = r.expected
  OBVIOUS
<1> HIDE DEF on, exe, path, key, expected
<1> QED
  BY <1>1, <1>2, <1>3, <1>4 DEF Row

\* A request that looks at the rows is a request.
LEMMA AboutType ==
    ASSUME NEW at \in {"insert", "patch", "init", "rekey"}, NEW i \in Ids \cup {0},
           NEW r \in Row
    PROVE  About(at, i, r) \in Request
<1>1. NoChange \in Change
  BY DEF NoChange, Change
<1> QED
  BY <1>1, NothingType DEF About, Request

\* A request that begins.
LEMMA BeginsType ==
    ASSUME TypeOK, NEW t \in Threads, NEW q \in Request, Idle(t), Begins(t, q)
    PROVE  TypeOK'
<1>1. requests' \in 0..MaxRequests
  BY CatalogRequestBound DEF Begins, Idle, TypeOK
<1> QED
  BY <1>1 DEF Begins, TypeOK, flaws

\* A request that is one transaction leaves requests and rows.
LEMMA AtOnceType ==
    ASSUME TypeOK, NEW t \in Threads, NEW i \in Ids, NEW r \in Row \cup {NoRow},
           Idle(t), AtOnce(t, i, r)
    PROVE  /\ req' \in ReqType /\ rows' \in [Ids -> Row \cup {NoRow}]
           /\ requests' \in 0..MaxRequests
<1>1. requests' \in 0..MaxRequests
  BY CatalogRequestBound DEF AtOnce, Idle, TypeOK
<1> QED
  BY <1>1, GoesType DEF AtOnce, TypeOK

\* A row that exists is a row.
LEMMA RowType ==
    ASSUME TypeOK, NEW i \in Ids, Exists(i) PROVE rows[i] \in Row
BY DEF TypeOK, Exists

\* Marking a row keeps the marked ones rows, and the other rows as they were.
LEMMA MarkedType ==
    ASSUME NEW s \in SUBSET Ids, NEW i \in Ids, NEW flaw
    PROVE  /\ Marked(s, i, flaw) \subseteq Ids
           /\ s \ {i} \subseteq Marked(s, i, flaw)
           /\ i \notin Marked(s, i, flaw) => ~flaw
BY DEF Marked

\* What is known of the request a thread is in.
LEMMA Holding ==
    ASSUME TypeOK, Read, NEW t \in Threads, req[t] # NoRequest
    PROVE  /\ req[t] \in Request /\ Shape(req[t])
           /\ req[t].stale \in BOOLEAN
           /\ req[t].stale \/ Current(req[t])
<1>1. req[t] \in Request
  BY InRequest
<1> QED
  BY <1>1 DEF Read, Request

-------------------------------------------------------------------------------
(***************************************************************************)
(* The steps.                                                              *)
(***************************************************************************)

\* Where a probe is connected to a terminal.
Connected == {"terminal", "account", "shutdown"}

\* A request begins that looks at the rows.
Asks(t) ==
    \/ \E x \in Terminals :
          (\E e \in MaybeAccount, enabled \in BOOLEAN : Register(t, x, e, enabled)) \/ Scan(t, x)
    \/ \E d \in discovered : AddTarget(t, d) \/ Refresh(t, d)
    \/ \E i \in Ids :
          (\E c \in Change, own \in BOOLEAN : Patch(t, i, c, own)) \/ Verify(t, i)

\* A probe goes on.
Probes(t) ==
    ProbeOffline(t) \/ Initialize(t) \/ TerminalInfo(t) \/ AccountInfo(t) \/ Shutdown(t)
    \/ Record(t)

\* A row is written.
Writes(t) ==
    \/ \E x \in Terminals, p \in MaybeTerminal, e \in MaybeAccount : CreateUnchecked(t, x, p, e)
    \/ \E i \in Ids :
          (\E c \in Change : PatchUnchecked(t, i, c))
          \/ Disable(t, i) \/ Delete(t, i) \/ VerifyAmbiguous(t, i)
    \/ Insert(t) \/ Confirm(t) \/ PatchWrite(t) \/ Rekey(t) \/ Save(t)

\* There is no other step.
LEMMA NextCases ==
    ASSUME [Next]_vars
    PROVE  \/ \E t \in Threads : Asks(t) \/ Probes(t) \/ Writes(t)
           \/ \E x \in Terminals, a \in Accounts : Login(x, a)
           \/ UNCHANGED vars
<1>1. ASSUME NEW t \in Threads, Starts(t) PROVE Asks(t) \/ Writes(t)
  BY <1>1 DEF Starts, Asks, Writes, Changes, MaybeTerminal
<1>2. ASSUME NEW t \in Threads, GoesOn(t) PROVE Probes(t) \/ Writes(t)
  BY <1>2 DEF GoesOn, Probes, Writes
<1> QED
  BY <1>1, <1>2 DEF Next

\* t begins request q with what it has read.
Opens(t, q) ==
    /\ Idle(t) /\ Begins(t, q) /\ Shape(q) /\ Current(q)
    /\ q.at \notin Connected /\ (~overlapped => Answer(seen, conn, q))

\* A request that looks at the rows begins with what it has read.
LEMMA AsksOf ==
    ASSUME TypeOK, Answered, NEW t \in Threads, Asks(t)
    PROVE  \E q \in Request : Opens(t, q)
<1>1. ASSUME NEW x \in Terminals, NEW e \in MaybeAccount, NEW enabled \in BOOLEAN,
             Register(t, x, e, enabled)
      PROVE  \E q \in Request : Opens(t, q)
  <2> DEFINE r == NewRow(x, x, e)
             q == [About("insert", 0, r) EXCEPT !.vetted = enabled]
  <2>1. r \in Row /\ r.status = "PENDING" /\ r.enabled
    BY NewRowType DEF MaybeTerminal, NewRow
  <2>2. Idle(t) /\ Begins(t, q) /\ Free(0, [r EXCEPT !.enabled = enabled])
    BY <1>1 DEF Register
  <2>3. enabled => [r EXCEPT !.enabled = enabled] = r
    BY <2>1 DEF Row
  <2> HIDE DEF r
  <2>4. q \in Request
    <3>1. About("insert", 0, r) \in Request
      BY <2>1, AboutType
    <3> QED
      BY <3>1 DEF Request
  <2>5. q.at = "insert" /\ q.row = r /\ q.vetted = enabled /\ q.old = {}
    BY DEF About
  <2> HIDE DEF q
  <2>6. Shape(q) /\ Current(q)
    BY <2>1, <2>2, <2>3, <2>5 DEF Shape, Current, Probe
  <2> QED
    BY <2>2, <2>4, <2>5, <2>6 DEF Opens, Connected, Answer
<1>2. ASSUME NEW d \in discovered, AddTarget(t, d)
      PROVE  \E q \in Request : Opens(t, q)
  <2> DEFINE r == NewRow(d.exe, d.found.path, d.found.account)
             q == [About("insert", 0, r) EXCEPT !.found = d.found, !.old = {d}]
  <2>0. d \in Discovery /\ d.found \in Finding
    BY DEF TypeOK, Discovery
  <2>1. r \in Row
    BY <2>0, NewRowType DEF Discovery, Finding
  <2>2. r.status = "PENDING" /\ r.enabled
        /\ r.path = d.found.path /\ r.expected = d.found.account
    BY DEF NewRow
  <2>3. Idle(t) /\ Begins(t, q) /\ Free(0, r)
    BY <1>2 DEF AddTarget
  <2> HIDE DEF r
  <2>4. q \in Request
    <3>1. About("insert", 0, r) \in Request
      BY <2>1, AboutType
    <3>2. {d} \in SUBSET Discovery
      BY <2>0
    <3>3. PICK f, o : f = d.found /\ o = {d}
      OBVIOUS
    <3> QED
      BY <2>0, <3>1, <3>2, <3>3 DEF Request
  <2>5. q.at = "insert" /\ q.row = r /\ q.vetted /\ q.found = d.found
    BY DEF About
  <2> HIDE DEF q
  <2>6. Shape(q) /\ Current(q)
    BY <2>2, <2>3, <2>5 DEF Shape, Current, Probe, Own
  <2>7. ~overlapped => True(seen, q.found)
    BY <2>5 DEF Answered
  <2> QED
    BY <2>3, <2>4, <2>5, <2>6, <2>7 DEF Opens, Connected, Answer
<1>3. ASSUME NEW i \in Ids, NEW c \in Change, NEW own \in BOOLEAN, Patch(t, i, c, own)
      PROVE  \E q \in Request : Opens(t, q)
  <2> DEFINE q == [About("patch", i, rows[i]) EXCEPT !.change = c, !.vetted = own]
  <2>1. rows[i] \in Row
    BY <1>3, RowType DEF Patch
  <2>2. Idle(t) /\ Begins(t, q) /\ (own => Free(i, Patched(rows[i], c)))
    BY <1>3 DEF Patch
  <2>4. q \in Request
    <3>1. About("patch", i, rows[i]) \in Request
      BY <2>1, AboutType
    <3> QED
      BY <3>1 DEF Request
  <2>5. q.at = "patch" /\ q.id = i /\ q.vetted = own /\ q.change = c
    BY DEF About
  <2> HIDE DEF q
  <2>6. Shape(q) /\ Current(q)
    BY <2>2, <2>5 DEF Shape, Current, Probe
  <2> QED
    BY <2>2, <2>4, <2>5, <2>6 DEF Opens, Connected, Answer
<1>4. ASSUME NEW i \in Ids, Verify(t, i)
      PROVE  \E q \in Request : Opens(t, q)
  <2> DEFINE taken == IF i \in Active THEN Taken(i) ELSE {}
             q == [About("init", i, rows[i]) EXCEPT !.taken = taken]
  <2>1. rows[i] \in Row
    BY <1>4, RowType DEF Verify
  <2>2. Idle(t) /\ Begins(t, q)
    BY <1>4 DEF Verify
  <2>3. taken \subseteq Accounts /\ (i \in Active => Taken(i) \subseteq taken)
    BY LookType
  <2> HIDE DEF taken
  <2>4. q \in Request
    <3>1. About("init", i, rows[i]) \in Request
      BY <2>1, AboutType
    <3> QED
      BY <2>3, <3>1 DEF Request
  <2>5. q.at = "init" /\ q.id = i /\ q.row = rows[i] /\ q.taken = taken /\ q.found = Nothing
    BY DEF About
  <2> HIDE DEF q
  <2>6. Shape(q) /\ Current(q)
    BY <2>3, <2>5 DEF Shape, Current, Probe
  <2> QED
    BY <2>2, <2>4, <2>5, <2>6 DEF Opens, Connected, Answer
<1>5. ASSUME NEW x \in Terminals, NEW p \in MaybeTerminal, NEW o \in SUBSET Discovery,
             Discover(t, x, p, o)
      PROVE  \E q \in Request : Opens(t, q)
  <2> DEFINE r == NewRow(x, p, None)
             q == [About("init", 0, r) EXCEPT !.paths = Paths(0) \cup Keys,
                                              !.taken = Taken(0), !.old = o]
  <2>1. r \in Row
    BY NewRowType DEF MaybeAccount
  <2>2. Idle(t) /\ Begins(t, q)
    BY <1>5 DEF Discover
  <2> HIDE DEF r
  <2>4. q \in Request
    <3>1. About("init", 0, r) \in Request
      BY <2>1, AboutType
    <3>2. Paths(0) \cup Keys \in SUBSET Terminals /\ Taken(0) \in SUBSET Accounts
      BY LookType
    <3> QED
      BY <3>1, <3>2 DEF Request
  <2>5. q.at = "init" /\ q.id = 0 /\ q.found = Nothing
    BY DEF About
  <2> HIDE DEF q
  <2>6. 0 \notin Active
    BY TargetBound DEF Active, Ids
  <2>7. Shape(q) /\ Current(q)
    BY <2>5, <2>6 DEF Shape, Current, Probe
  <2> QED
    BY <2>2, <2>4, <2>5, <2>7 DEF Opens, Connected, Answer
<1>6. ASSUME NEW x \in Terminals, Scan(t, x)
      PROVE  \E q \in Request : Opens(t, q)
  BY <1>5, <1>6 DEF Scan, MaybeTerminal
<1>7. ASSUME NEW d \in discovered, Refresh(t, d)
      PROVE  \E q \in Request : Opens(t, q)
  <2>1. d.exe \in Terminals /\ d.found.path \in MaybeTerminal /\ {d} \in SUBSET Discovery
    BY DEF TypeOK, Discovery, Finding
  <2> QED
    BY <1>5, <1>7, <2>1 DEF Refresh
<1> QED
  BY <1>1, <1>2, <1>3, <1>4, <1>6, <1>7 DEF Asks

\* t goes on with q, or is done with it, without a write of a row.
Continues(t, q) ==
    /\ req' = [req EXCEPT ![t] = q] /\ req[t].at # "rekey"
    /\ q = NoRequest \/ (Shape(q) /\ (q.stale \/ Current(q)))
    /\ UNCHANGED <<rows, holds, inserted, requests, logins, seen, edited, flaws>>

\* What a probe has read stays with it until it is over.
LEMMA Probed ==
    ASSUME TypeOK, Read, NEW t \in Threads, req[t].at \in Probe, NEW q \in Request,
           req' = [req EXCEPT ![t] = q],
           q.at \in Probe \/ q.at = "record", q.at = "save" => q.id # 0,
           q.id = req[t].id, q.row = req[t].row, q.taken = req[t].taken,
           q.stale = req[t].stale, q.at \in {"init", "terminal"} => q.found = Nothing,
           UNCHANGED <<rows, holds, inserted, requests, logins, seen, edited, flaws>>
    PROVE  Continues(t, q)
<1>1. req[t] # NoRequest
  BY DEF NoRequest, Probe
<1>2. q.id \in Ids \cup {0}
  BY DEF Request
<1>3. Shape(q)
  BY <1>2 DEF Shape, Probe
<1>4. Current(req[t]) => Current(q)
  BY DEF Current, Probe
<1> QED
  BY <1>1, <1>3, <1>4, Holding DEF Continues, Probe

\* A probe goes on with what its request has read.
LEMMA ProbesOf ==
    ASSUME TypeOK, Read, NEW t \in Threads, Probes(t)
    PROVE  \E q \in Request \cup {NoRequest} : Continues(t, q)
<1>0. req[t] # NoRequest
  BY DEF Probes, ProbeOffline, Initialize, TerminalInfo, AccountInfo, Shutdown, Record,
         NoRequest
<1>1. req[t] \in Request /\ Shape(req[t])
  BY <1>0, Holding
<1>2. After(t) \in {"save", "record"} /\ (After(t) = "save" => req[t].id # 0)
  BY DEF After
<1>3. CASE ProbeOffline(t) \/ Initialize(t) \/ Shutdown(t)
  <2>1. PICK a : At(t, a) /\ a \in {"terminal", After(t)}
                 /\ (req[t].at = "init" \/ a = After(t))
    BY <1>3 DEF ProbeOffline, Initialize, Shutdown
  <2> DEFINE q == [req[t] EXCEPT !.at = a]
  <2>2. req' = [req EXCEPT ![t] = q]
    BY <2>1 DEF At
  <2>3. q.at = a /\ q.id = req[t].id /\ q.row = req[t].row /\ q.taken = req[t].taken
        /\ q.stale = req[t].stale /\ q.found = req[t].found /\ q \in Request
    BY <1>1, <1>2, <2>1 DEF Request
  <2>4. a = "terminal" => q.found = Nothing
    BY <1>1, <1>2, <2>1, <2>3 DEF Shape
  <2>5. UNCHANGED <<rows, holds, inserted, requests, logins, seen, edited, flaws>>
        /\ req[t].at \in Probe
    BY <1>3 DEF ProbeOffline, Initialize, Shutdown, history, counts, Probe
  <2> HIDE DEF q
  <2> QED
    BY <1>2, <2>1, <2>2, <2>3, <2>4, <2>5, Probed DEF Probe
<1>4. CASE TerminalInfo(t)
  <2>1. PICK f \in Finding : req' = [req EXCEPT ![t] = [req[t] EXCEPT !.at = "account",
                                                                      !.found = f]]
    <3>1. req[t].found \in Finding /\ Stood(req[t]) \in Finding
      BY <1>1 DEF Request, Row, Stood, Finding, Nothing, MaybeAccount
    <3>2. conn # None => Named(conn) \in Finding
      BY DEF TypeOK, Named, Finding, Nothing, MaybeAccount
    <3>3. req' = [req EXCEPT ![t] = [req[t] EXCEPT !.at = "account",
                     !.found = IF conn = None THEN req[t].found ELSE Named(conn)]]
          \/ req' = [req EXCEPT ![t] = [req[t] EXCEPT !.at = "account",
                                                      !.found = Stood(req[t])]]
      BY <1>1, <1>4 DEF TerminalInfo, Request
    <3> QED
      BY <3>1, <3>2, <3>3
  <2> DEFINE q == [req[t] EXCEPT !.at = "account", !.found = f]
  <2>2. q.at = "account" /\ q.id = req[t].id /\ q.row = req[t].row /\ q.taken = req[t].taken
        /\ q.stale = req[t].stale /\ q \in Request
    BY <1>1, <2>1 DEF Request
  <2>3. UNCHANGED <<rows, holds, inserted, requests, logins, seen, edited, flaws>>
        /\ req[t].at \in Probe
    BY <1>4 DEF TerminalInfo, Probe
  <2> HIDE DEF q
  <2> QED
    BY <2>1, <2>2, <2>3, Probed DEF Probe, q
<1>5. CASE AccountInfo(t)
  <2>1. PICK f \in Finding : req' = [req EXCEPT ![t] = [req[t] EXCEPT !.at = "shutdown",
                                                                      !.found = f]]
    <3> DEFINE g == IF req[t].found = Nothing \/ conn = None THEN Nothing
                    ELSE [req[t].found EXCEPT !.account = holds[conn]]
    <3>1. req[t].found \in Finding /\ Nothing \in Finding /\ g \in Finding
      BY <1>1, NothingType DEF Request, Finding, TypeOK, MaybeTerminal, MaybeAccount
    <3>2. req' = [req EXCEPT ![t] = [req[t] EXCEPT !.at = "shutdown", !.found = g]]
          \/ \E h \in {req[t].found, Nothing} :
                req' = [req EXCEPT ![t] = [req[t] EXCEPT !.at = "shutdown", !.found = h]]
      BY <1>1, <1>5 DEF AccountInfo, Request
    <3> HIDE DEF g
    <3> QED
      BY <3>1, <3>2
  <2> DEFINE q == [req[t] EXCEPT !.at = "shutdown", !.found = f]
  <2>2. q.at = "shutdown" /\ q.id = req[t].id /\ q.row = req[t].row /\ q.taken = req[t].taken
        /\ q.stale = req[t].stale /\ q \in Request
    BY <1>1, <2>1 DEF Request
  <2>3. UNCHANGED <<rows, holds, inserted, requests, logins, seen, edited, flaws>>
        /\ req[t].at \in Probe
    BY <1>5 DEF AccountInfo, Probe
  <2> HIDE DEF q
  <2> QED
    BY <2>1, <2>2, <2>3, Probed DEF Probe, q
<1>6. CASE Record(t)
  <2>1. Continues(t, NoRequest)
    BY <1>6 DEF Record, Continues, history, counts
  <2> QED
    BY <2>1
<1> QED
  BY <1>3, <1>4, <1>5, <1>6 DEF Probes

\* What a probe finds for the discovery store is a record of it.
LEMMA RecordType ==
    ASSUME TypeOK, NEW t \in Threads, Probes(t)
    PROVE  /\ discovered' \subseteq Discovery /\ conn' \in MaybeTerminal
           /\ gaps' \in 0..MaxGaps /\ overlapped' \in BOOLEAN
<1>0. req[t] \in Request
  BY InRequest DEF Probes, ProbeOffline, Initialize, TerminalInfo, AccountInfo, Shutdown,
                   Record, NoRequest
<1>1. CASE Record(t)
  <2> DEFINE f == req[t].found
             free == f.path \notin req[t].paths /\ f.account \notin req[t].taken
             d == [exe |-> req[t].row.exe, found |-> f, add |-> free]
  <2>1. f \in Finding /\ req[t].row.exe \in Terminals /\ free \in BOOLEAN
    BY <1>0 DEF Request, Row
  <2>2. discovered' = (discovered \ req[t].old) \cup (IF f.path = None THEN {} ELSE {d})
    BY <1>1 DEF Record
  <2> HIDE DEF f, free
  <2>3. d \in Discovery
    BY <2>1 DEF Discovery
  <2> HIDE DEF d
  <2>4. discovered' \subseteq Discovery
    BY <2>2, <2>3 DEF TypeOK
  <2> QED
    BY <1>1, <2>4 DEF Record, history, counts, TypeOK
<1>2. CASE ~Record(t)
  <2>1. discovered' = discovered
    BY <1>2 DEF Probes, ProbeOffline, Initialize, TerminalInfo, AccountInfo, Shutdown
  <2>2. gaps' = gaps \/ (gaps < MaxGaps /\ gaps' = gaps + 1)
    BY <1>2 DEF Probes, ProbeOffline, Initialize, TerminalInfo, AccountInfo, Shutdown,
                history, counts
  <2>3. conn' \in MaybeTerminal
    BY <1>0, <1>2 DEF Probes, ProbeOffline, Initialize, TerminalInfo, AccountInfo, Shutdown,
                Request, Row, MaybeTerminal, TypeOK
  <2>4. overlapped' \in BOOLEAN
    BY <1>2 DEF Probes, ProbeOffline, Initialize, TerminalInfo, AccountInfo, Shutdown,
                TypeOK, history
  <2> QED
    BY <2>1, <2>2, <2>3, <2>4, GapBound DEF TypeOK
<1> QED
  BY <1>1, <1>2

\* A row that is written by a request that is one transaction.
LEMMA AtOnceTypeOK ==
    ASSUME TypeOK, NEW t \in Threads, NEW i \in Ids, NEW r \in Row \cup {NoRow},
           Idle(t), AtOnce(t, i, r), inserted' \in 0..MaxTargets,
           edited' \subseteq Ids, unvetted' \subseteq Ids, miskeyed' \subseteq Ids,
           UNCHANGED <<discovered, conn, holds, logins, gaps, seen, overlapped, outdated>>
    PROVE  TypeOK'
BY AtOnceType DEF TypeOK, ReqType

\* A row that is written by a request that goes on with q.
LEMMA GoesTypeOK ==
    ASSUME TypeOK, NEW t \in Threads, NEW i \in Ids, NEW r \in Row \cup {NoRow},
           rows' = [rows EXCEPT ![i] = r],
           NEW q \in Request \cup {NoRequest}, Goes(t, q), inserted' \in 0..MaxTargets,
           edited' \subseteq Ids, unvetted' \subseteq Ids, outdated' \subseteq Ids,
           miskeyed' \subseteq Ids,
           UNCHANGED <<discovered, conn, holds, requests, logins, gaps, seen, overlapped>>
    PROVE  TypeOK'
BY GoesType DEF TypeOK, ReqType

\* So is one that writes nothing.
LEMMA GoneTypeOK ==
    ASSUME TypeOK, NEW t \in Threads, Goes(t, NoRequest),
           UNCHANGED <<rows, discovered, conn, holds, counts, seen, overlapped, edited, flaws>>
    PROVE  TypeOK'
BY GoesType DEF TypeOK, ReqType, counts, flaws

\* The typing invariant is preserved by every write of a row.
LEMMA TypeWrites ==
    ASSUME TypeOK, Read, NEW t \in Threads, Writes(t) PROVE TypeOK'
<1>1. ASSUME NEW x \in Terminals, NEW p \in MaybeTerminal, NEW e \in MaybeAccount,
             CreateUnchecked(t, x, p, e)
      PROVE  TypeOK'
  <2>1. NewRow(x, p, e) \in Row
    BY NewRowType
  <2>2. inserted + 1 \in Ids /\ inserted' = inserted + 1
    BY <1>1 DEF CreateUnchecked
  <2>3. inserted' \in 0..MaxTargets
    BY <2>2, TargetBound DEF Ids
  <2>4. unvetted' \subseteq Ids /\ miskeyed' \subseteq Ids
    BY <1>1, <2>2 DEF CreateUnchecked, TypeOK
  <2> QED
    BY <1>1, <2>1, <2>2, <2>3, <2>4, AtOnceTypeOK DEF CreateUnchecked, TypeOK
<1>2. ASSUME NEW i \in Ids, NEW c \in Change, PatchUnchecked(t, i, c)
      PROVE  TypeOK'
  <2>1. Patched(rows[i], c) \in Row
    BY <1>2, RowType, PatchedType DEF PatchUnchecked
  <2> QED
    BY <1>2, <2>1, AtOnceTypeOK DEF PatchUnchecked, TypeOK, Edited
<1>3. ASSUME NEW i \in Ids, Disable(t, i) PROVE TypeOK'
  <2>1. [rows[i] EXCEPT !.enabled = FALSE] \in Row
    BY <1>3, RowType DEF Disable, Row
  <2> QED
    BY <1>3, <2>1, AtOnceTypeOK DEF Disable, TypeOK, flaws
<1>4. ASSUME NEW i \in Ids, Delete(t, i) PROVE TypeOK'
  BY <1>4, AtOnceTypeOK DEF Delete, TypeOK, flaws
<1>5. ASSUME NEW i \in Ids, VerifyAmbiguous(t, i) PROVE TypeOK'
  <2>1. [rows[i] EXCEPT !.status = "AMBIGUOUS"] \in Row
    BY <1>5, RowType DEF VerifyAmbiguous, Row
  <2> QED
    BY <1>5, <2>1, AtOnceTypeOK DEF VerifyAmbiguous, TypeOK, flaws
<1>6. ASSUME Insert(t) PROVE TypeOK'
  <2>0. req[t] \in Request
    BY <1>6, InRequest DEF Insert, NoRequest
  <2> DEFINE i == inserted + 1
             r == [req[t].row EXCEPT !.key = Key(req[t].row)]
             c == [req[t] EXCEPT !.at = "confirm", !.id = i, !.old = {}]
             q == IF req[t].old = {} THEN NoRequest ELSE c
  <2>1. r \in Row
    BY <2>0 DEF Request, Row, Key
  <2>2. i \in Ids /\ inserted' = i /\ rows' = [rows EXCEPT ![i] = r] /\ Goes(t, q)
        /\ UNCHANGED <<discovered, conn, holds, requests, logins, gaps, seen, overlapped,
                       edited, outdated, miskeyed>>
    BY <1>6 DEF Insert
  <2>3. c \in Request
    BY <2>0, <2>2 DEF Request
  <2>4. q \in Request \cup {NoRequest}
    <3> HIDE DEF c
    <3> QED BY <2>3
  <2>5. unvetted' \subseteq Ids
    BY <1>6, <2>2, MarkedType DEF Insert, TypeOK
  <2>6. i \in 0..MaxTargets
    BY <2>2, TargetBound DEF Ids
  <2> HIDE DEF r, q, i
  <2> QED
    BY <2>1, <2>2, <2>4, <2>5, <2>6, GoesTypeOK DEF TypeOK
<1>7. ASSUME Confirm(t) PROVE TypeOK'
  <2>0. req[t] # NoRequest
    BY <1>7 DEF Confirm, NoRequest
  <2> DEFINE i == req[t].id
             r == [rows[i] EXCEPT !.found = req[t].found, !.status = "VERIFIED_OK"]
  <2>1. i \in Ids /\ req[t] \in Request
    BY <1>7, <2>0, Holding DEF Confirm, Shape
  <2>2. CASE ~Exists(i)
    BY <1>7, <2>2, GoneTypeOK DEF Confirm, flaws
  <2>3. CASE Exists(i)
    <3>1. r \in Row
      BY <2>1, <2>3, RowType DEF Request, Row
    <3>2. edited' \subseteq Ids /\ outdated' \subseteq Ids
      BY <1>7, <2>1, <2>3, MarkedType DEF Confirm, Settled, TypeOK
    <3>3. rows' = [rows EXCEPT ![i] = r] /\ Goes(t, NoRequest)
          /\ UNCHANGED <<discovered, conn, holds, counts, seen, overlapped, unvetted, miskeyed>>
      BY <1>7, <2>3 DEF Confirm
    <3> HIDE DEF r, i
    <3> QED
      BY <2>1, <3>1, <3>2, <3>3, GoesTypeOK DEF TypeOK, counts
  <2> QED
    BY <2>2, <2>3
<1>8. ASSUME PatchWrite(t) PROVE TypeOK'
  <2>0. req[t] # NoRequest
    BY <1>8 DEF PatchWrite, NoRequest
  <2> DEFINE i == req[t].id
             r == Patched(rows[i], req[t].change)
             q == IF Key(r) = r.key THEN NoRequest ELSE About("rekey", i, r)
  <2>1. i \in Ids /\ req[t] \in Request
    BY <1>8, <2>0, Holding DEF PatchWrite, Shape
  <2>2. CASE ~Exists(i)
    BY <1>8, <2>2, GoneTypeOK DEF PatchWrite, flaws
  <2>3. CASE Exists(i)
    <3>1. r \in Row
      BY <2>1, <2>3, RowType, PatchedType DEF Request
    <3>2. rows' = [rows EXCEPT ![i] = r] /\ Goes(t, q)
          /\ UNCHANGED <<discovered, conn, holds, counts, seen, overlapped, outdated>>
      BY <1>8, <2>3 DEF PatchWrite
    <3>3. edited' \subseteq Ids /\ unvetted' \subseteq Ids /\ miskeyed' \subseteq Ids
      BY <1>8, <2>1, <2>3, MarkedType DEF PatchWrite, Edited, TypeOK
    <3> HIDE DEF r
    <3>4. About("rekey", i, r) \in Request
      BY <2>1, <3>1, AboutType
    <3>5. q \in Request \cup {NoRequest}
      BY <3>4
    <3> HIDE DEF q, i
    <3> QED
      BY <2>1, <3>1, <3>2, <3>3, <3>5, GoesTypeOK DEF TypeOK, counts
  <2> QED
    BY <2>2, <2>3
<1>9. ASSUME Rekey(t) PROVE TypeOK'
  <2>0. req[t] # NoRequest
    BY <1>9 DEF Rekey, NoRequest
  <2> DEFINE i == req[t].id
             r == [rows[i] EXCEPT !.key = Key(req[t].row)]
  <2>1. i \in Ids /\ req[t] \in Request
    BY <1>9, <2>0, Holding DEF Rekey, Shape
  <2>2. CASE ~Exists(i)
    BY <1>9, <2>2, GoneTypeOK DEF Rekey, flaws
  <2>3. CASE Exists(i)
    <3>1. r \in Row
      BY <2>1, <2>3, RowType DEF Request, Row, Key
    <3>2. miskeyed' \subseteq Ids
      BY <1>9, <2>1, <2>3, MarkedType DEF Rekey, TypeOK
    <3> HIDE DEF r
    <3> QED
      BY <1>9, <2>1, <2>3, <3>1, <3>2, GoesTypeOK DEF Rekey, TypeOK, counts, r
  <2> QED
    BY <2>2, <2>3
<1>10. ASSUME Save(t) PROVE TypeOK'
  <2>0. req[t] # NoRequest
    BY <1>10 DEF Save, NoRequest
  <2> DEFINE i == req[t].id
             r == [rows[i] EXCEPT !.found = req[t].found, !.status = Verdict(req[t])]
             a == About("rekey", i, req[t].row)
             q == [a EXCEPT !.stale = req[t].stale]
  <2>1. i \in Ids /\ req[t] \in Request
    BY <1>10, <2>0, Holding DEF Save, Shape
  <2>2. CASE ~Exists(i)
    BY <1>10, <2>2, GoneTypeOK DEF Save, flaws
  <2>3. CASE Exists(i)
    <3>1. Verdict(req[t]) \in {"FAILED", "MISMATCH", "VERIFIED_OK"}
      BY DEF Verdict
    <3>2. r \in Row
      BY <2>1, <2>3, <3>1, RowType DEF Request, Row
    <3>3. rows' = [rows EXCEPT ![i] = r] /\ Goes(t, q)
          /\ UNCHANGED <<discovered, conn, holds, counts, seen, overlapped, unvetted, miskeyed>>
      BY <1>10, <2>3 DEF Save
    <3>4. a \in Request
      BY <2>1, AboutType DEF Request
    <3> HIDE DEF a
    <3>5. q \in Request
      BY <2>1, <3>4 DEF Request
    <3>6. edited' \subseteq Ids /\ outdated' \subseteq Ids
      BY <1>10, <2>1, <2>3, MarkedType DEF Save, Settled, TypeOK
    <3> HIDE DEF r, q, i
    <3> QED
      BY <2>1, <3>2, <3>3, <3>5, <3>6, GoesTypeOK DEF TypeOK, counts
  <2> QED
    BY <2>2, <2>3
<1> QED
  BY <1>1, <1>2, <1>3, <1>4, <1>5, <1>6, <1>7, <1>8, <1>9, <1>10 DEF Writes

\* And by every other step.
LEMMA TypeStep == TypeOK /\ Read /\ Answered /\ [Next]_vars => TypeOK'
<1> SUFFICES ASSUME TypeOK, Read, Answered, [Next]_vars PROVE TypeOK'
  OBVIOUS
<1>1. ASSUME NEW t \in Threads, Asks(t) PROVE TypeOK'
  BY <1>1, AsksOf, BeginsType DEF Opens
<1>2. ASSUME NEW t \in Threads, Probes(t) PROVE TypeOK'
  <2>1. PICK q \in Request \cup {NoRequest} : Continues(t, q)
    BY <1>2, ProbesOf
  <2> QED
    BY <1>2, <2>1, RecordType DEF Continues, TypeOK, flaws
<1>3. ASSUME NEW t \in Threads, Writes(t) PROVE TypeOK'
  BY <1>3, TypeWrites
<1>4. ASSUME NEW x \in Terminals, NEW a \in Accounts, Login(x, a) PROVE TypeOK'
  BY <1>4, LoginBound DEF Login, TypeOK, flaws
<1>5. CASE UNCHANGED vars
  BY <1>5 DEF vars, history, counts, flaws, TypeOK
<1> QED
  BY <1>1, <1>2, <1>3, <1>4, <1>5, NextCases

-------------------------------------------------------------------------------
(***************************************************************************)
(* What requests have read.                                                *)
(***************************************************************************)

\* The requests of other threads are outdated by a step that goes on with q.
LEMMA ReadGoes ==
    ASSUME TypeOK, Read, NEW t \in Threads, NEW q, Goes(t, q),
           q = NoRequest \/ (Shape(q) /\ (q.stale \/ Current(q)'))
    PROVE  Read'
<1>1. ASSUME NEW u \in Threads, u # t, req'[u] # NoRequest
      PROVE  Shape(req'[u]) /\ req'[u].stale
  <2>1. req[u] # NoRequest /\ req'[u] = [req[u] EXCEPT !.stale = TRUE]
    BY <1>1 DEF Goes
  <2>2. req[u] \in Request /\ Shape(req[u])
    BY <2>1, InRequest DEF Read
  <2> QED
    BY <2>1, <2>2 DEF Shape, Own, Request
<1>2. req'[t] = q
  BY DEF Goes
<1>3. ASSUME req'[t] # NoRequest
      PROVE  Shape(req'[t]) /\ (req'[t].stale \/ Current(req[t])')
  BY <1>2, <1>3
     DEF Current, Free, Paths, Taken, Active, Exists, AccountOf
<1> QED
  BY <1>1, <1>3 DEF Read

\* Where the rows are the same, so is what a request finds in them.
LEMMA LookSame ==
    ASSUME rows' = rows, NEW i
    PROVE  Active' = Active /\ Paths(i)' = Paths(i) /\ Taken(i)' = Taken(i)
BY DEF Active, Paths, Taken, Exists, AccountOf

\* A step that leaves the rows alone outdates nothing.
LEMMA ReadPut ==
    ASSUME TypeOK, Read, NEW t \in Threads, NEW q, rows' = rows,
           req' = [req EXCEPT ![t] = q],
           q = NoRequest \/ (Shape(q) /\ (q.stale \/ Current(q)))
    PROVE  Read'
<1>1. ASSUME NEW p, Current(p) PROVE Current(p)'
  BY <1>1, LookSame DEF Current, Free, Exists
<1>2. ASSUME NEW u \in Threads, req'[u] # NoRequest
      PROVE  Shape(req'[u]) /\ (req'[u].stale \/ Current(req[u])')
  <2>1. PICK p : req'[u] = p /\ Shape(p) /\ (p.stale \/ Current(p))
    BY <1>2 DEF Read, TypeOK
  <2>2. p.stale \/ Current(p)'
    BY <1>1, <2>1
  <2> QED
    BY <2>1, <2>2 DEF Current, Free, Paths, Taken, Active, Exists, AccountOf
<1> QED
  BY <1>2 DEF Read

\* Nor does one that leaves the requests alone.
LEMMA ReadSame == TypeOK /\ Read /\ rows' = rows /\ req' = req => Read'
<1> SUFFICES ASSUME TypeOK, Read, rows' = rows, req' = req,
                    NEW t \in Threads, req[t] # NoRequest
             PROVE  req[t].stale \/ Current(req[t])'
  BY DEF Read, Shape, Own
<1>1. Current(req[t]) => Current(req[t])'
  BY LookSame DEF Current, Free, Exists
<1> QED
  BY <1>1 DEF Read

\* A request that ends outdates the others.
LEMMA ReadGone ==
    ASSUME TypeOK, Read, NEW t \in Threads, Goes(t, NoRequest)
    PROVE  Read'
BY ReadGoes

\* What requests have read is kept by every write of a row.
LEMMA ReadWrites ==
    ASSUME TypeOK, Read, NEW t \in Threads, Writes(t) PROVE Read'
<1>1. ASSUME NEW x \in Terminals, NEW p \in MaybeTerminal, NEW e \in MaybeAccount,
             CreateUnchecked(t, x, p, e)
      PROVE  Read'
  BY <1>1, ReadGone DEF CreateUnchecked, AtOnce
<1>2. ASSUME NEW i \in Ids, NEW c \in Change, PatchUnchecked(t, i, c)
      PROVE  Read'
  BY <1>2, ReadGone DEF PatchUnchecked, AtOnce
<1>3. ASSUME NEW i \in Ids, Disable(t, i) \/ Delete(t, i) \/ VerifyAmbiguous(t, i)
      PROVE  Read'
  BY <1>3, ReadGone DEF Disable, Delete, VerifyAmbiguous, AtOnce
<1>4. CASE Insert(t)
  <2>0. req[t] # NoRequest
    BY <1>4 DEF Insert, NoRequest
  <2>1. PICK i, q : i = inserted + 1
                    /\ q = [req[t] EXCEPT !.at = "confirm", !.id = i, !.old = {}]
    OBVIOUS
  <2>2. CASE req[t].old = {}
    BY <1>4, <2>2, ReadGone DEF Insert
  <2>3. CASE req[t].old # {}
    <3>1. req[t] \in Request /\ Shape(req[t]) /\ req[t].at = "insert" /\ i \in Ids
      BY <1>4, <2>0, <2>1, Holding DEF Insert
    <3>2. q.at = "confirm" /\ q.id = i /\ q.row = req[t].row /\ q.found = req[t].found
          /\ q.stale = req[t].stale /\ q.vetted = req[t].vetted
      BY <2>1, <3>1 DEF Request
    <3>3. Shape(q)
      BY <2>3, <3>1, <3>2 DEF Shape, Own
    <3>4. ASSUME ~req[t].stale PROVE Current(q)'
      <4>1. Free(0, req[t].row) /\ req[t].row.enabled
        BY <2>0, <2>3, <3>1, <3>4, Holding DEF Current, Shape
      <4>2. req[t].row.expected \notin Taken(0)
        BY <4>1 DEF Free
      <4>3. rows' = [rows EXCEPT ![i] = [req[t].row EXCEPT !.key = Key(req[t].row)]]
        BY <1>4, <2>1 DEF Insert
      <4>4. 0 \notin Ids
        BY TargetBound DEF Ids
      <4>5. \A j \in Ids \ {i} : rows'[j] = rows[j]
        BY <4>3 DEF TypeOK
      <4>6. Taken(i)' \subseteq Taken(0)
        BY <4>4, <4>5 DEF Taken, Active, Exists
      <4> QED
        BY <3>2, <4>2, <4>6 DEF Current, Probe
    <3>5. Goes(t, q)
      BY <1>4, <2>1, <2>3 DEF Insert
    <3> QED
      BY <3>2, <3>3, <3>4, <3>5, ReadGoes
  <2> QED
    BY <2>2, <2>3
<1>5. CASE Confirm(t)
  BY <1>5, ReadGone DEF Confirm
<1>6. CASE PatchWrite(t)
  <2>0. req[t] # NoRequest
    BY <1>6 DEF PatchWrite, NoRequest
  <2>1. PICK i, r, q : i = req[t].id /\ r = Patched(rows[i], req[t].change)
                       /\ q = About("rekey", i, r)
    OBVIOUS
  <2>2. CASE Goes(t, NoRequest)
    BY <2>2, ReadGone
  <2>3. CASE Exists(i) /\ Goes(t, q)
    <3>1. i \in Ids
      BY <1>6, <2>0, <2>1, Holding DEF PatchWrite, Shape
    <3>2. q.at = "rekey" /\ q.id = i /\ q.row = r
      BY <2>1 DEF About
    <3>3. Shape(q)
      BY <3>1, <3>2 DEF Shape
    <3>4. rows' = [rows EXCEPT ![i] = r]
      BY <1>6, <2>1, <2>3 DEF PatchWrite
    <3>5. rows'[i] = r
      BY <3>1, <3>4 DEF TypeOK
    <3>6. Current(q)'
      BY <3>2, <3>5 DEF Current, Probe
    <3> QED
      BY <2>3, <3>3, <3>6, ReadGoes
  <2> QED
    BY <1>6, <2>1, <2>2, <2>3 DEF PatchWrite
<1>7. CASE Rekey(t)
  BY <1>7, ReadGone DEF Rekey
<1>8. CASE Save(t)
  <2>0. req[t] # NoRequest
    BY <1>8 DEF Save, NoRequest
  <2>1. PICK i, q : i = req[t].id
                    /\ q = [About("rekey", i, req[t].row) EXCEPT !.stale = req[t].stale]
    OBVIOUS
  <2>2. CASE Goes(t, NoRequest)
    BY <2>2, ReadGone
  <2>3. CASE Exists(i) /\ Goes(t, q)
    <3>1. req[t].at = "save" /\ i \in Ids
      BY <1>8, <2>0, <2>1, Holding DEF Save, Shape
    <3>2. q.at = "rekey" /\ q.id = i /\ q.row = req[t].row /\ q.stale = req[t].stale
      BY <2>1 DEF About
    <3>3. Shape(q)
      BY <3>1, <3>2 DEF Shape
    <3>4. ASSUME ~req[t].stale PROVE rows'[i].path = req[t].row.path
      <4>1. rows[i].path = req[t].row.path
        <5>1. i # 0
          BY <3>1, TargetBound DEF Ids
        <5> QED
          BY <2>0, <2>1, <2>3, <3>1, <3>4, <5>1, Holding DEF Current, Probe
      <4>2. rows[i] \in Row
        BY <2>3, <3>1, RowType
      <4>3. rows'[i] = [rows[i] EXCEPT !.found = req[t].found,
                                       !.status = Verdict(req[t])]
        BY <1>8, <2>1, <2>3, <3>1 DEF Save, TypeOK
      <4> QED
        BY <4>1, <4>2, <4>3 DEF Row
    <3>5. ASSUME ~req[t].stale PROVE Current(q)'
      BY <3>2, <3>4, <3>5 DEF Current, Probe
    <3> QED
      BY <2>3, <3>2, <3>3, <3>5, ReadGoes
  <2> QED
    BY <1>8, <2>1, <2>2, <2>3 DEF Save
<1> QED
  BY <1>1, <1>2, <1>3, <1>4, <1>5, <1>6, <1>7, <1>8 DEF Writes

\* And by every other step.
LEMMA ReadStep == TypeOK /\ Read /\ Answered /\ [Next]_vars => Read'
<1> SUFFICES ASSUME TypeOK, Read, Answered, [Next]_vars PROVE Read'
  OBVIOUS
<1>1. ASSUME NEW t \in Threads, Asks(t) PROVE Read'
  <2>1. PICK q \in Request : Opens(t, q)
    BY <1>1, AsksOf
  <2> QED
    BY <2>1, ReadPut DEF Opens, Begins
<1>2. ASSUME NEW t \in Threads, Probes(t) PROVE Read'
  <2>1. PICK q \in Request \cup {NoRequest} : Continues(t, q)
    BY <1>2, ProbesOf
  <2> QED
    BY <2>1, ReadPut DEF Continues
<1>3. ASSUME NEW t \in Threads, Writes(t) PROVE Read'
  BY <1>3, ReadWrites
<1>4. ASSUME NEW x \in Terminals, NEW a \in Accounts, Login(x, a) PROVE Read'
  <2>1. rows' = rows /\ req' = req
    BY <1>4 DEF Login
  <2> QED
    BY <2>1, ReadSame
<1>5. CASE UNCHANGED vars
  BY <1>5, ReadSame DEF vars
<1> QED
  BY <1>1, <1>2, <1>3, <1>4, <1>5, NextCases

-------------------------------------------------------------------------------
(***************************************************************************)
(* What is written into a row.                                             *)
(***************************************************************************)

\* Row i may become r beside the others.
Fits(i, r) ==
    /\ r.enabled /\ i \notin unvetted' => ~SharesFolder(i, r.path)
    /\ r.enabled /\ r.status = "VERIFIED_OK" /\ i \in Kin' => ~SharesAccount(i, r.expected)
    /\ r.status = "VERIFIED_OK" /\ i \notin edited' => Shown(r)
    /\ r.status = "VERIFIED_OK" /\ ~overlapped => True(seen, r.found)

\* Row i becomes r, and the flaws of the others stay.
Put(i, r) ==
    /\ rows' = [rows EXCEPT ![i] = r]
    /\ edited \ {i} \subseteq edited' /\ unvetted \ {i} \subseteq unvetted'
    /\ outdated \ {i} \subseteq outdated'
    /\ UNCHANGED <<seen, overlapped>>
    /\ r # NoRow => Fits(i, r)

\* A row and the flaws stay as they are.
Stays == UNCHANGED <<rows, edited, unvetted, outdated>> /\ seen \subseteq seen'
         /\ (overlapped => overlapped')

\* What a row verified among its kin expects is taken for the others.
LEMMA NotShared ==
    ASSUME VerifiedIsOwn, NEW i \in Ids, NEW e, e \notin Taken(i)
    PROVE  ~SharesAccount(i, e)
<1> SUFFICES ASSUME NEW j \in (Active \cap Kin) \ {i}, Verified(j),
                    rows[j].expected = e, e # None
             PROVE  FALSE
  BY DEF SharesAccount
<1>1. j \in Ids \ edited
  BY DEF Kin
<1>2. AccountOf(rows[j]) = e
  BY <1>1 DEF VerifiedIsOwn, AccountOf
<1> QED
  BY <1>2 DEF Taken

\* A row that is free shares nothing.
LEMMA FreeShares ==
    ASSUME VerifiedIsOwn, NEW i \in Ids, NEW r, Free(i, r), r.enabled
    PROVE  ~SharesFolder(i, r.path) /\ ~SharesAccount(i, r.expected)
BY NotShared DEF Free, SharesFolder, Paths

\* A row that is as it was fits as it did.
LEMMA FitsHere ==
    ASSUME Apart, VerifiedIsOwn, VerifiedWasTrue, NEW i \in Ids, Exists(i),
           NEW r, r.enabled => rows[i].enabled,
           r.status = "VERIFIED_OK" => rows[i].status = "VERIFIED_OK",
           r.path = rows[i].path, r.expected = rows[i].expected, r.found = rows[i].found,
           edited \subseteq edited', unvetted \subseteq unvetted', outdated \subseteq outdated'
    PROVE  Fits(i, r)
<1>1. i \in Kin' => i \in Kin
  BY DEF Kin
<1>2. r.enabled => i \in Active
  BY DEF Active
<1>3. r.status = "VERIFIED_OK" => Verified(i)
  BY DEF Verified
<1>4. r.status = "VERIFIED_OK" /\ i \notin edited' => Shown(r)
  BY <1>3 DEF VerifiedIsOwn, Shown
<1>5. r.status = "VERIFIED_OK" /\ ~overlapped => True(seen, r.found)
  BY <1>3 DEF VerifiedWasTrue, True
<1> QED
  BY <1>1, <1>2, <1>3, <1>4, <1>5 DEF Fits, Apart

\* A row that is verified fits if its account was free, and is as it was besides.
LEMMA FitsVerified ==
    ASSUME Apart, VerifiedIsOwn, NEW i \in Ids, Exists(i), NEW r,
           r.enabled = rows[i].enabled, r.path = rows[i].path, unvetted' = unvetted,
           r.status = "VERIFIED_OK" =>
              /\ r.enabled /\ i \in Kin' => r.expected \notin Taken(i)
              /\ i \notin edited' => Shown(r)
              /\ ~overlapped => True(seen, r.found)
    PROVE  Fits(i, r)
<1>1. r.enabled => i \in Active
  BY DEF Active
<1> QED
  BY <1>1, NotShared DEF Fits, Apart

\* Every write of a row fits, or leaves the rows alone.
LEMMA WritesPut ==
    ASSUME TypeOK, Read, Answered, Apart, VerifiedIsOwn, VerifiedWasTrue,
           NEW t \in Threads, Writes(t)
    PROVE  Stays \/ \E i \in Ids, r \in Row \cup {NoRow} : Put(i, r)
<1>1. ASSUME NEW x \in Terminals, NEW p \in MaybeTerminal, NEW e \in MaybeAccount,
             CreateUnchecked(t, x, p, e)
      PROVE  \E i \in Ids, r \in Row \cup {NoRow} : Put(i, r)
  <2> DEFINE i == inserted + 1
             r == NewRow(x, p, e)
  <2>1. i \in Ids /\ r \in Row /\ r.status = "PENDING"
    BY <1>1, NewRowType DEF CreateUnchecked, NewRow
  <2>2. rows' = [rows EXCEPT ![i] = r] /\ unvetted' = unvetted \cup {i}
        /\ UNCHANGED <<seen, overlapped, edited, outdated>>
    BY <1>1 DEF CreateUnchecked, AtOnce
  <2> HIDE DEF i, r
  <2> QED
    BY <2>1, <2>2 DEF Put, Fits
<1>2. ASSUME NEW i \in Ids, NEW c \in Change, PatchUnchecked(t, i, c)
      PROVE  \E j \in Ids, r \in Row \cup {NoRow} : Put(j, r)
  <2> DEFINE r == Patched(rows[i], c)
  <2>1. rows[i] \in Row /\ Exists(i)
    BY <1>2, RowType DEF PatchUnchecked
  <2>2. r \in Row /\ r.found = rows[i].found /\ r.status = rows[i].status
        /\ (c.path = Kept => r.path = rows[i].path)
        /\ (c.expected = Kept => r.expected = rows[i].expected)
    BY <2>1, PatchedType
  <2>3. rows' = [rows EXCEPT ![i] = r] /\ unvetted' = unvetted \cup {i}
        /\ edited' = Edited(i, c) /\ UNCHANGED <<seen, overlapped, outdated>>
    BY <1>2 DEF PatchUnchecked, AtOnce
  <2> HIDE DEF r
  <2>4. r.status = "VERIFIED_OK" /\ i \notin edited' => Shown(r)
    BY <2>1, <2>2, <2>3 DEF Edited, VerifiedIsOwn, Verified, Shown
  <2>5. r.status = "VERIFIED_OK" /\ ~overlapped => True(seen, r.found)
    BY <2>1, <2>2 DEF VerifiedWasTrue, Verified, True
  <2>6. i \in unvetted' /\ i \notin Kin' /\ edited \ {i} \subseteq edited'
    BY <2>3 DEF Kin, Edited
  <2> QED
    BY <2>2, <2>3, <2>4, <2>5, <2>6 DEF Put, Fits
<1>3. ASSUME NEW i \in Ids, Disable(t, i)
      PROVE  \E j \in Ids, r \in Row \cup {NoRow} : Put(j, r)
  <2> DEFINE r == [rows[i] EXCEPT !.enabled = FALSE]
  <2>1. rows[i] \in Row /\ Exists(i)
    BY <1>3, RowType DEF Disable
  <2>2. r \in Row /\ ~r.enabled /\ r.path = rows[i].path /\ r.expected = rows[i].expected
        /\ r.found = rows[i].found /\ r.status = rows[i].status
    BY <2>1 DEF Row
  <2>3. rows' = [rows EXCEPT ![i] = r]
        /\ UNCHANGED <<seen, overlapped, edited, unvetted, outdated>>
    BY <1>3 DEF Disable, AtOnce, flaws
  <2> HIDE DEF r
  <2>4. Fits(i, r)
    BY <2>1, <2>2, <2>3, FitsHere
  <2> QED
    BY <2>2, <2>3, <2>4 DEF Put
<1>4. ASSUME NEW i \in Ids, Delete(t, i)
      PROVE  \E j \in Ids, r \in Row \cup {NoRow} : Put(j, r)
  BY <1>4 DEF Delete, AtOnce, flaws, Put
<1>5. ASSUME NEW i \in Ids, VerifyAmbiguous(t, i)
      PROVE  \E j \in Ids, r \in Row \cup {NoRow} : Put(j, r)
  <2> DEFINE r == [rows[i] EXCEPT !.status = "AMBIGUOUS"]
  <2>1. rows[i] \in Row /\ Exists(i)
    BY <1>5, RowType DEF VerifyAmbiguous
  <2>2. r \in Row /\ r.enabled = rows[i].enabled /\ r.path = rows[i].path
        /\ r.expected = rows[i].expected /\ r.found = rows[i].found
        /\ r.status # "VERIFIED_OK"
    BY <2>1 DEF Row
  <2>3. rows' = [rows EXCEPT ![i] = r]
        /\ UNCHANGED <<seen, overlapped, edited, unvetted, outdated>>
    BY <1>5 DEF VerifyAmbiguous, AtOnce, flaws
  <2> HIDE DEF r
  <2>4. Fits(i, r)
    BY <2>1, <2>2, <2>3, FitsHere
  <2> QED
    BY <2>2, <2>3, <2>4 DEF Put
<1>6. ASSUME Insert(t) PROVE \E i \in Ids, r \in Row \cup {NoRow} : Put(i, r)
  <2>0. req[t] # NoRequest
    BY <1>6 DEF Insert, NoRequest
  <2> DEFINE i == inserted + 1
             r == [req[t].row EXCEPT !.key = Key(req[t].row)]
  <2>1. req[t] \in Request /\ Shape(req[t]) /\ req[t].at = "insert"
    BY <1>6, <2>0, Holding DEF Insert
  <2>2. i \in Ids /\ rows' = [rows EXCEPT ![i] = r]
        /\ unvetted' = Marked(unvetted, i, req[t].stale \/ ~req[t].vetted)
        /\ UNCHANGED <<seen, overlapped, edited, outdated>>
    BY <1>6 DEF Insert
  <2>3. r \in Row /\ r.path = req[t].row.path /\ r.status = "PENDING" /\ req[t].row.enabled
    BY <2>1 DEF Request, Row, Key, Shape
  <2> HIDE DEF i, r
  <2>4. unvetted \ {i} \subseteq unvetted'
        /\ (i \notin unvetted' => ~req[t].stale /\ req[t].vetted)
    BY <2>2, MarkedType DEF TypeOK
  <2>5. i \notin unvetted' => ~SharesFolder(i, r.path)
    <3> SUFFICES ASSUME i \notin unvetted' PROVE ~SharesFolder(i, r.path)
      OBVIOUS
    <3>1. Free(0, req[t].row)
      BY <2>0, <2>1, <2>4, Holding DEF Current
    <3>2. r.path \notin Paths(0) /\ 0 \notin Active
      BY <2>3, <3>1, TargetBound DEF Free, Active, Ids
    <3> QED
      BY <3>2 DEF Paths, SharesFolder
  <2> QED
    BY <2>2, <2>3, <2>4, <2>5 DEF Put, Fits
<1>7. ASSUME Confirm(t) PROVE Stays \/ \E i \in Ids, r \in Row \cup {NoRow} : Put(i, r)
  <2>0. req[t] # NoRequest
    BY <1>7 DEF Confirm, NoRequest
  <2> DEFINE i == req[t].id
             r == [rows[i] EXCEPT !.found = req[t].found, !.status = "VERIFIED_OK"]
  <2>1. req[t] \in Request /\ i \in Ids /\ Own(req[t]) /\ req[t].at = "confirm"
    BY <1>7, <2>0, Holding DEF Confirm, Shape
  <2>2. CASE ~Exists(i)
    BY <1>7, <2>2 DEF Confirm, Stays
  <2>3. CASE Exists(i)
    <3>1. rows' = [rows EXCEPT ![i] = r] /\ edited' = Settled(i, req[t])
          /\ outdated' = Marked(outdated, i, req[t].stale)
          /\ UNCHANGED <<seen, overlapped, unvetted>>
      BY <1>7, <2>3 DEF Confirm
    <3>2. r \in Row /\ r.enabled = rows[i].enabled /\ r.path = rows[i].path
          /\ r.expected = rows[i].expected /\ r.found = req[t].found
      BY <2>1, <2>3, RowType DEF Request, Row
    <3>3. edited \ {i} \subseteq edited' /\ outdated \ {i} \subseteq outdated'
          /\ (i \in Kin' => ~req[t].stale)
      BY <2>1, <3>1, MarkedType DEF Settled, TypeOK, Kin
    <3>4. i \notin edited' =>
            rows[i].path = req[t].row.path /\ rows[i].expected = req[t].row.expected
      BY <3>1 DEF Settled
    <3> HIDE DEF r
    <3>5. i \in Kin' => r.expected \notin Taken(i)
      BY <2>0, <2>1, <3>2, <3>3, <3>4, Holding DEF Current, Kin
    <3>6. i \notin edited' => Shown(r)
      BY <2>1, <3>2, <3>4 DEF Shown, Own
    <3>7. ~overlapped => True(seen, r.found)
      BY <2>0, <2>1, <3>2 DEF Answered, Answer
    <3>8. Fits(i, r)
      BY <2>1, <2>3, <3>1, <3>2, <3>5, <3>6, <3>7, FitsVerified
    <3> QED
      BY <2>1, <3>1, <3>2, <3>3, <3>8 DEF Put
  <2> QED
    BY <2>2, <2>3
<1>8. ASSUME PatchWrite(t) PROVE Stays \/ \E i \in Ids, r \in Row \cup {NoRow} : Put(i, r)
  <2>0. req[t] # NoRequest
    BY <1>8 DEF PatchWrite, NoRequest
  <2> DEFINE i == req[t].id
             c == req[t].change
             r == Patched(rows[i], c)
  <2>1. i \in Ids /\ c \in Change /\ req[t].at = "patch"
    BY <1>8, <2>0, Holding DEF PatchWrite, Shape, Request
  <2>2. CASE ~Exists(i)
    BY <1>8, <2>2 DEF PatchWrite, Stays
  <2>3. CASE Exists(i)
    <3>1. rows' = [rows EXCEPT ![i] = r] /\ edited' = Edited(i, c)
          /\ unvetted' = Marked(unvetted, i, req[t].stale \/ ~req[t].vetted)
          /\ UNCHANGED <<seen, overlapped, outdated>>
      BY <1>8, <2>3 DEF PatchWrite
    <3>2. r \in Row /\ r.found = rows[i].found /\ r.status = rows[i].status
          /\ (c.path = Kept => r.path = rows[i].path)
          /\ (c.expected = Kept => r.expected = rows[i].expected)
      BY <2>1, <2>3, RowType, PatchedType
    <3>3. edited \ {i} \subseteq edited' /\ unvetted \ {i} \subseteq unvetted'
          /\ (i \notin unvetted' => ~req[t].stale /\ req[t].vetted)
      BY <2>1, <3>1, MarkedType DEF Edited, TypeOK
    <3>4. i \notin unvetted' => Free(i, r)
      BY <2>0, <2>1, <2>3, <3>3, Holding DEF Current
    <3> HIDE DEF r
    <3>5. r.enabled /\ i \notin unvetted' =>
            ~SharesFolder(i, r.path) /\ ~SharesAccount(i, r.expected)
      BY <2>1, <3>4, FreeShares
    <3>6. r.status = "VERIFIED_OK" /\ i \notin edited' => Shown(r)
      BY <2>1, <2>3, <3>1, <3>2 DEF Edited, VerifiedIsOwn, Verified, Shown
    <3>7. r.status = "VERIFIED_OK" /\ ~overlapped => True(seen, r.found)
      BY <2>1, <2>3, <3>2 DEF VerifiedWasTrue, Verified, True
    <3>8. Fits(i, r)
      BY <3>5, <3>6, <3>7 DEF Fits, Kin
    <3> QED
      BY <2>1, <3>1, <3>2, <3>3, <3>8 DEF Put
  <2> QED
    BY <2>2, <2>3
<1>9. ASSUME Rekey(t) PROVE Stays \/ \E i \in Ids, r \in Row \cup {NoRow} : Put(i, r)
  <2>0. req[t] # NoRequest
    BY <1>9 DEF Rekey, NoRequest
  <2> DEFINE i == req[t].id
             r == [rows[i] EXCEPT !.key = Key(req[t].row)]
  <2>1. i \in Ids /\ req[t] \in Request
    BY <1>9, <2>0, Holding DEF Rekey, Shape
  <2>2. CASE ~Exists(i)
    BY <1>9, <2>2 DEF Rekey, Stays
  <2>3. CASE Exists(i)
    <3>1. rows' = [rows EXCEPT ![i] = r]
          /\ UNCHANGED <<seen, overlapped, edited, unvetted, outdated>>
      BY <1>9, <2>3 DEF Rekey
    <3>2. r \in Row /\ r.enabled = rows[i].enabled /\ r.path = rows[i].path
          /\ r.expected = rows[i].expected /\ r.found = rows[i].found
          /\ r.status = rows[i].status
      BY <2>1, <2>3, RowType DEF Request, Row, Key
    <3> HIDE DEF r
    <3>3. Fits(i, r)
      BY <2>1, <2>3, <3>1, <3>2, FitsHere
    <3> QED
      BY <2>1, <3>1, <3>2, <3>3 DEF Put
  <2> QED
    BY <2>2, <2>3
<1>10. ASSUME Save(t) PROVE Stays \/ \E i \in Ids, r \in Row \cup {NoRow} : Put(i, r)
  <2>0. req[t] # NoRequest
    BY <1>10 DEF Save, NoRequest
  <2> DEFINE i == req[t].id
             v == Verdict(req[t])
             r == [rows[i] EXCEPT !.found = req[t].found, !.status = v]
  <2>1. req[t] \in Request /\ i \in Ids /\ req[t].at = "save"
    BY <1>10, <2>0, Holding DEF Save, Shape
  <2>2. CASE ~Exists(i)
    BY <1>10, <2>2 DEF Save, Stays
  <2>3. CASE Exists(i)
    <3>1. rows' = [rows EXCEPT ![i] = r] /\ edited' = Settled(i, req[t])
          /\ outdated' = Marked(outdated, i, req[t].stale)
          /\ UNCHANGED <<seen, overlapped, unvetted>>
      BY <1>10, <2>3 DEF Save
    <3>2. v \in {"FAILED", "MISMATCH", "VERIFIED_OK"}
      BY DEF Verdict
    <3>3. v = "VERIFIED_OK" =>
            /\ req[t].found # Nothing
            /\ req[t].row.path \in {None, req[t].found.path}
            /\ req[t].found.account # None =>
                  req[t].row.expected \in {None, req[t].found.account}
            /\ req[t].row.expected \notin req[t].taken
      BY DEF Verdict
    <3> HIDE DEF v
    <3>4. r \in Row /\ r.enabled = rows[i].enabled /\ r.path = rows[i].path
          /\ r.expected = rows[i].expected /\ r.found = req[t].found /\ r.status = v
      BY <2>1, <2>3, <3>2, RowType DEF Request, Row
    <3>5. edited \ {i} \subseteq edited' /\ outdated \ {i} \subseteq outdated'
          /\ (i \in Kin' => ~req[t].stale)
      BY <2>1, <3>1, MarkedType DEF Settled, TypeOK, Kin
    <3>6. i \notin edited' =>
            rows[i].path = req[t].row.path /\ rows[i].expected = req[t].row.expected
      BY <3>1 DEF Settled
    <3> HIDE DEF r
    <3>7. v = "VERIFIED_OK" /\ r.enabled /\ i \in Kin' => r.expected \notin Taken(i)
      <4> SUFFICES ASSUME v = "VERIFIED_OK", r.enabled, i \in Kin'
                   PROVE  r.expected \notin Taken(i)
        OBVIOUS
      <4>1. Taken(i) \subseteq req[t].taken
        BY <2>0, <2>1, <2>3, <3>4, <3>5, Holding DEF Current, Active, Probe
      <4> QED
        BY <3>3, <3>4, <3>6, <4>1 DEF Kin
    <3>8. v = "VERIFIED_OK" /\ i \notin edited' => Shown(r)
      BY <3>3, <3>4, <3>6 DEF Shown
    <3>9. v = "VERIFIED_OK" /\ ~overlapped => True(seen, r.found)
      BY <2>0, <2>1, <3>3, <3>4 DEF Answered, Answer
    <3>10. Fits(i, r)
      BY <2>1, <2>3, <3>1, <3>4, <3>7, <3>8, <3>9, FitsVerified
    <3> QED
      BY <2>1, <3>1, <3>4, <3>5, <3>10 DEF Put
  <2> QED
    BY <2>2, <2>3
<1> QED
  BY <1>1, <1>2, <1>3, <1>4, <1>5, <1>6, <1>7, <1>8, <1>9, <1>10 DEF Writes

\* A step writes a row that fits, or leaves the rows alone.
LEMMA StepPut ==
    ASSUME TypeOK, Read, Answered, Apart, VerifiedIsOwn, VerifiedWasTrue, [Next]_vars
    PROVE  Stays \/ \E i \in Ids, r \in Row \cup {NoRow} : Put(i, r)
<1>1. ASSUME NEW t \in Threads, Asks(t) PROVE Stays
  <2>1. PICK q \in Request : Opens(t, q)
    BY <1>1, AsksOf
  <2> QED
    BY <2>1 DEF Opens, Begins, Stays, flaws
<1>2. ASSUME NEW t \in Threads, Probes(t) PROVE Stays
  <2>1. PICK q \in Request \cup {NoRequest} : Continues(t, q)
    BY <1>2, ProbesOf
  <2>2. overlapped => overlapped'
    BY <1>2 DEF Probes, ProbeOffline, Initialize, TerminalInfo, AccountInfo, Shutdown,
                Record, history
  <2> QED
    BY <2>1, <2>2 DEF Continues, Stays, flaws
<1>3. ASSUME NEW t \in Threads, Writes(t)
      PROVE  Stays \/ \E i \in Ids, r \in Row \cup {NoRow} : Put(i, r)
  BY <1>3, WritesPut
<1>4. ASSUME NEW x \in Terminals, NEW a \in Accounts, Login(x, a) PROVE Stays
  BY <1>4 DEF Login, Stays, flaws
<1>5. CASE UNCHANGED vars
  BY <1>5 DEF vars, history, flaws, Stays
<1> QED
  BY <1>1, <1>2, <1>3, <1>4, <1>5, NextCases

\* A row that fits keeps the rows apart.
LEMMA ApartPut ==
    ASSUME TypeOK, Apart, NEW i \in Ids, NEW r, Put(i, r)
    PROVE  Apart'
<1>1. rows'[i] = r /\ \A j \in Ids \ {i} : rows'[j] = rows[j]
  BY DEF TypeOK, Put
<1>2. Active' \ {i} = Active \ {i} /\ (i \in Active' <=> r # NoRow /\ r.enabled)
  BY <1>1 DEF Active, Exists
<1>3. ASSUME NEW j \in Active' \ {i}, j \notin unvetted'
      PROVE  j \in Active \ unvetted /\ rows'[j] = rows[j]
  BY <1>1, <1>2, <1>3 DEF Active, Put
<1>4. ASSUME NEW j \in (Active' \cap Kin') \ {i}
      PROVE  /\ j \in Active \cap Kin /\ rows'[j] = rows[j] /\ (Verified(j)' => Verified(j))
  BY <1>1, <1>2, <1>4 DEF Active, Kin, Put, Verified, Exists
<1>5. i \in Active' \ unvetted' => ~SharesFolder(i, r.path)
  BY <1>2 DEF Put, Fits
<1>6. i \in Active' \cap Kin' /\ Verified(i)' => ~SharesAccount(i, r.expected)
  BY <1>1, <1>2 DEF Put, Fits, Verified
<1>7. ASSUME NEW j \in Active' \ unvetted', SharesFolder(j, rows[j].path)' PROVE FALSE
  <2>1. PICK k \in (Active' \ unvetted') \ {j} :
               rows'[k].path = rows'[j].path /\ rows'[j].path # None
    BY <1>7 DEF SharesFolder
  <2>2. CASE j # i /\ k # i
    BY <1>3, <2>1, <2>2 DEF Apart, SharesFolder
  <2>3. CASE j = i
    BY <1>1, <1>3, <1>5, <2>1, <2>3 DEF SharesFolder
  <2>4. CASE k = i
    BY <1>1, <1>3, <1>5, <2>1, <2>4 DEF SharesFolder
  <2> QED
    BY <2>2, <2>3, <2>4
<1>8. ASSUME NEW j \in Active' \cap Kin', Verified(j)', SharesAccount(j, rows[j].expected)'
      PROVE  FALSE
  <2>1. PICK k \in (Active' \cap Kin') \ {j} :
               Verified(k)' /\ rows'[k].expected = rows'[j].expected
               /\ rows'[j].expected # None
    BY <1>8 DEF SharesAccount
  <2>2. CASE j # i /\ k # i
    BY <1>4, <1>8, <2>1, <2>2 DEF Apart, SharesAccount
  <2>3. CASE j = i
    BY <1>1, <1>4, <1>6, <1>8, <2>1, <2>3 DEF SharesAccount
  <2>4. CASE k = i
    BY <1>1, <1>4, <1>6, <1>8, <2>1, <2>4 DEF SharesAccount
  <2> QED
    BY <2>2, <2>3, <2>4
<1> QED
  BY <1>7, <1>8 DEF Apart

\* It shows what is its own.
LEMMA OwnPut ==
    ASSUME TypeOK, VerifiedIsOwn, NEW i \in Ids, NEW r, Put(i, r)
    PROVE  VerifiedIsOwn'
<1>1. rows'[i] = r /\ \A j \in Ids \ {i} : rows'[j] = rows[j]
  BY DEF TypeOK, Put
<1>2. ASSUME NEW j \in Ids \ edited', Verified(j)' PROVE Shown(rows'[j])
  <2>1. CASE j = i
    BY <1>1, <1>2, <2>1 DEF Verified, Exists, Put, Fits
  <2>2. CASE j # i
    BY <1>1, <1>2, <2>2 DEF Verified, Exists, VerifiedIsOwn, Put, Shown
  <2> QED
    BY <2>1, <2>2
<1> QED
  BY <1>2 DEF VerifiedIsOwn, Shown

\* And what was true.
LEMMA TruePut ==
    ASSUME TypeOK, VerifiedWasTrue, NEW i \in Ids, NEW r, Put(i, r)
    PROVE  VerifiedWasTrue'
<1>1. rows'[i] = r /\ \A j \in Ids \ {i} : rows'[j] = rows[j]
  BY DEF TypeOK, Put
<1>2. ASSUME NEW j \in Ids, Verified(j)', ~overlapped' PROVE True(seen, rows'[j].found)
  <2>1. CASE j = i
    BY <1>1, <1>2, <2>1 DEF Verified, Exists, Put, Fits
  <2>2. CASE j # i
    BY <1>1, <1>2, <2>2 DEF Verified, Exists, VerifiedWasTrue, Put, True
  <2> QED
    BY <2>1, <2>2
<1>3. seen' = seen
  BY DEF Put
<1> QED
  BY <1>2, <1>3 DEF VerifiedWasTrue, True

\* The rows are kept apart, and verified ones show their own and what was true,
\* by every step.
LEMMA RowsStep ==
    TypeOK /\ Read /\ Answered /\ Apart /\ VerifiedIsOwn /\ VerifiedWasTrue /\ [Next]_vars
      => Apart' /\ VerifiedIsOwn' /\ VerifiedWasTrue'
<1> SUFFICES ASSUME TypeOK, Read, Answered, Apart, VerifiedIsOwn, VerifiedWasTrue, [Next]_vars
             PROVE  Apart' /\ VerifiedIsOwn' /\ VerifiedWasTrue'
  OBVIOUS
<1>1. CASE Stays
  <2>1. Apart'
    BY <1>1 DEF Stays, Apart, SharesFolder, SharesAccount, Active, Kin, Exists, Verified
  <2>2. VerifiedIsOwn'
    BY <1>1 DEF Stays, VerifiedIsOwn, Exists, Verified
  <2>3. VerifiedWasTrue'
    BY <1>1 DEF Stays, VerifiedWasTrue, Exists, Verified
  <2> QED
    BY <2>1, <2>2, <2>3
<1>2. CASE \E i \in Ids, r \in Row \cup {NoRow} : Put(i, r)
  BY <1>2, ApartPut, OwnPut, TruePut
<1> QED
  BY <1>1, <1>2, StepPut

-------------------------------------------------------------------------------
(***************************************************************************)
(* What probes find.                                                       *)
(***************************************************************************)

\* A thread that goes on with q, while the others' answers stay.
LEMMA AnsweredPut ==
    ASSUME TypeOK, Answered, NEW t \in Threads, NEW q,
           req' = [req EXCEPT ![t] = q], holds' = holds, seen' = seen,
           overlapped => overlapped',
           ~overlapped' => /\ q = NoRequest \/ Answer(seen, conn, q)'
                           /\ q.at \in Connected => Probing \subseteq {t}
                           /\ conn' = conn \/ Probing \subseteq {t}
                           /\ \A d \in discovered' : True(seen, d.found)
    PROVE  Answered'
<1>1. req'[t] = q /\ \A u \in Threads \ {t} : req'[u] = req[u]
  BY DEF TypeOK
<1>2. \A x \in Terminals : <<x, holds'[x]>> \in seen'
  BY DEF Answered
<1>3. ASSUME ~overlapped', NEW u \in Probing', NEW v \in Probing' PROVE u = v
  <2>1. \A w \in Probing' : w = t \/ w \in Probing
    BY <1>1 DEF Probing
  <2>2. t \in Probing' => Probing \subseteq {t}
    BY <1>1, <1>3 DEF Probing, Connected
  <2> QED
    BY <1>3, <2>1, <2>2 DEF Answered
<1>4. ASSUME ~overlapped', NEW u \in Threads, req'[u] # NoRequest
      PROVE  Answer(seen, conn, req[u])'
  <2>1. CASE u = t
    BY <1>1, <1>4, <2>1 DEF Answer, True
  <2>2. CASE u # t
    <3>1. Answer(seen, conn, req[u]) /\ req'[u] = req[u]
      BY <1>1, <1>4, <2>2 DEF Answered
    <3>2. req[u].at = "account" => conn' = conn
      BY <1>4, <2>2 DEF Probing
    <3> QED
      BY <3>1, <3>2 DEF Answer
  <2> QED
    BY <2>1, <2>2
<1> QED
  BY <1>2, <1>3, <1>4 DEF Answered, True

\* A thread whose request goes on to q, or ends, outside the library.
LEMMA AnsweredGoes ==
    ASSUME TypeOK, Answered, NEW t \in Threads, NEW q, Goes(t, q),
           UNCHANGED <<conn, holds, seen, overlapped, discovered>>,
           q = NoRequest \/ q.at \notin Connected,
           ~overlapped => q = NoRequest \/ Answer(seen, conn, q)
    PROVE  Answered'
<1>1. ASSUME NEW u \in Threads, u # t, req'[u] # NoRequest
      PROVE  /\ req[u] # NoRequest /\ req'[u].at = req[u].at
             /\ req'[u].found = req[u].found /\ req'[u].old = req[u].old
  <2>1. req[u] # NoRequest /\ req'[u] = [req[u] EXCEPT !.stale = TRUE]
    BY <1>1 DEF Goes
  <2>2. req[u] \in Request
    BY <2>1, InRequest
  <2> QED
    BY <2>1, <2>2 DEF Request
<1>2. req'[t] = q
  BY DEF Goes
<1>3. Probing' \subseteq Probing
  <2> SUFFICES ASSUME NEW u \in Probing' PROVE u \in Probing
    OBVIOUS
  <2>1. req'[u] # NoRequest /\ u # t
    BY <1>2 DEF Probing, NoRequest, Connected
  <2> QED
    BY <1>1, <2>1 DEF Probing
<1>4. ASSUME ~overlapped', NEW u \in Threads, req'[u] # NoRequest
      PROVE  Answer(seen, conn, req[u])'
  <2>1. CASE u = t
    BY <1>2, <1>4, <2>1 DEF Answer, True
  <2>2. CASE u # t
    <3>1. Answer(seen, conn, req[u]) /\ seen' = seen /\ conn' = conn
      BY <1>1, <1>4, <2>2 DEF Answered
    <3> QED
      BY <1>1, <1>4, <2>2, <3>1 DEF Answer
  <2> QED
    BY <2>1, <2>2
<1> QED
  BY <1>3, <1>4 DEF Answered, True

\* A request that ends.
LEMMA AnsweredGone ==
    ASSUME TypeOK, Answered, NEW t \in Threads, Goes(t, NoRequest),
           UNCHANGED <<conn, holds, seen, overlapped, discovered>>
    PROVE  Answered'
BY AnsweredGoes DEF NoRequest, Connected

\* What probes have found is kept by every write of a row.
LEMMA AnsweredWrites ==
    ASSUME TypeOK, Answered, NEW t \in Threads, Writes(t) PROVE Answered'
<1>1. UNCHANGED <<conn, holds, seen, overlapped, discovered>>
  BY DEF Writes, CreateUnchecked, PatchUnchecked, Disable, Delete, VerifyAmbiguous, Insert,
         Confirm, PatchWrite, Rekey, Save
<1>2. CASE Insert(t)
  <2>0. req[t] # NoRequest /\ req[t] \in Request
    BY <1>2, InRequest DEF Insert, NoRequest
  <2> DEFINE q == [req[t] EXCEPT !.at = "confirm", !.id = inserted + 1, !.old = {}]
  <2>1. CASE Goes(t, NoRequest)
    BY <1>1, <2>1, AnsweredGone
  <2>2. CASE req[t].old # {} /\ Goes(t, q)
    <3>1. q.at = "confirm" /\ q.found = req[t].found
      BY <2>0 DEF Request
    <3>2. ~overlapped => Answer(seen, conn, q)
      BY <1>2, <2>0, <2>2, <3>1 DEF Insert, Answered, Answer
    <3> HIDE DEF q
    <3> QED
      BY <1>1, <2>2, <3>1, <3>2, AnsweredGoes DEF Connected
  <2> QED
    BY <1>2, <2>1, <2>2 DEF Insert
<1>3. ASSUME NEW i, NEW r, Goes(t, About("rekey", i, r)) PROVE Answered'
  <2> DEFINE q == About("rekey", i, r)
  <2>1. q.at = "rekey"
    BY DEF About
  <2> HIDE DEF q
  <2> QED
    BY <1>1, <1>3, <2>1, AnsweredGoes DEF Connected, Answer, q
<1>4. CASE PatchWrite(t)
  BY <1>1, <1>3, <1>4, AnsweredGone DEF PatchWrite
<1>5. CASE Save(t)
  <2> DEFINE q == [About("rekey", req[t].id, req[t].row) EXCEPT !.stale = req[t].stale]
  <2>1. q.at = "rekey"
    BY DEF About
  <2>2. Goes(t, NoRequest) \/ Goes(t, q)
    BY <1>5 DEF Save
  <2> HIDE DEF q
  <2> QED
    BY <1>1, <2>1, <2>2, AnsweredGoes, AnsweredGone DEF Connected, Answer
<1>6. Goes(t, NoRequest) \/ Insert(t) \/ PatchWrite(t) \/ Save(t)
  BY DEF Writes, CreateUnchecked, PatchUnchecked, Disable, Delete, VerifyAmbiguous,
         Confirm, Rekey, AtOnce
<1> QED
  BY <1>1, <1>2, <1>4, <1>5, <1>6, AnsweredGone

\* By every step of a probe.
LEMMA AnsweredProbes ==
    ASSUME TypeOK, Read, Answered, NEW t \in Threads, Probes(t) PROVE Answered'
<1>0. req[t] # NoRequest
  BY DEF Probes, ProbeOffline, Initialize, TerminalInfo, AccountInfo, Shutdown, Record,
         NoRequest
<1>1. req[t] \in Request /\ Shape(req[t])
  BY <1>0, Holding
<1>2. After(t) \in {"save", "record"}
  BY DEF After
<1>3. UNCHANGED <<holds, seen>> /\ (overlapped => overlapped')
  <2>1. UNCHANGED <<holds, seen>>
    BY ProbesOf DEF Continues
  <2>2. overlapped => overlapped'
    BY DEF Probes, ProbeOffline, Initialize, TerminalInfo, AccountInfo, Shutdown, Record,
           history
  <2> QED
    BY <2>1, <2>2
<1>4. CASE ProbeOffline(t)
  <2>0. PICK q : q = [req[t] EXCEPT !.at = After(t)]
    OBVIOUS
  <2>1. req' = [req EXCEPT ![t] = q] /\ UNCHANGED <<conn, discovered, overlapped>>
    BY <1>4, <2>0 DEF ProbeOffline, At, history
  <2>2. q.at = After(t) /\ q.found = Nothing
    BY <1>1, <1>4, <2>0 DEF Request, ProbeOffline, Shape
  <2>3. Answer(seen, conn, q)' /\ q.at \notin Connected
    BY <1>2, <2>2 DEF Answer, Connected
  <2> QED
    BY <1>3, <2>1, <2>3, AnsweredPut DEF Answered
<1>5. CASE Initialize(t)
  <2>0. PICK q : q = [req[t] EXCEPT !.at = "terminal"]
    OBVIOUS
  <2>1. req' = [req EXCEPT ![t] = q] /\ discovered' = discovered
        /\ overlapped' = (overlapped \/ Probing # {})
    BY <1>5, <2>0 DEF Initialize, At, history
  <2>2. q.at = "terminal"
    BY <1>1, <2>0 DEF Request
  <2>3. Answer(seen, conn, q)' /\ (~overlapped' => Probing \subseteq {t})
    BY <2>1, <2>2 DEF Answer
  <2> QED
    BY <1>3, <2>1, <2>3, AnsweredPut DEF Answered
<1>6. ASSUME req[t].at \in Connected, ~overlapped PROVE Probing \subseteq {t}
  BY <1>6 DEF Answered, Probing, Connected
<1>7. CASE TerminalInfo(t)
  <2>1. PICK f : /\ req' = [req EXCEPT ![t] = [req[t] EXCEPT !.at = "account", !.found = f]]
                 /\ f.account = None /\ (f.from = "terminal" => f.path = conn)
    <3>1. req[t].found = Nothing
      BY <1>1, <1>7 DEF Shape, TerminalInfo
    <3>2. Stood(req[t]).account = None /\ Stood(req[t]).from = "request"
      BY DEF Stood, Nothing
    <3>3. Named(conn).account = None /\ Named(conn).path = conn
          /\ Nothing.account = None /\ Nothing.from = "nobody"
      BY DEF Named, Nothing
    <3>4. req' = [req EXCEPT ![t] = [req[t] EXCEPT !.at = "account",
                     !.found = IF conn = None THEN req[t].found ELSE Named(conn)]]
          \/ req' = [req EXCEPT ![t] = [req[t] EXCEPT !.at = "account",
                                                      !.found = Stood(req[t])]]
      BY <1>1, <1>7 DEF TerminalInfo, Request
    <3>5. PICK f : /\ req' = [req EXCEPT ![t] = [req[t] EXCEPT !.at = "account", !.found = f]]
                   /\ f \in {Nothing, Named(conn), Stood(req[t])}
      BY <3>1, <3>4
    <3> QED
      BY <3>2, <3>3, <3>5
  <2>0. PICK q : q = [req[t] EXCEPT !.at = "account", !.found = f]
    OBVIOUS
  <2>2. q.at = "account" /\ q.found = f
    BY <1>1, <2>0 DEF Request
  <2>3. UNCHANGED <<conn, discovered, overlapped>> /\ req[t].at \in Connected
    BY <1>7 DEF TerminalInfo, Connected
  <2>4. Answer(seen, conn, q)'
    BY <2>1, <2>2, <2>3 DEF Answer
  <2> QED
    BY <1>3, <1>6, <2>0, <2>1, <2>3, <2>4, AnsweredPut DEF Answered
<1>8. CASE AccountInfo(t)
  <2>1. PICK f : /\ req' = [req EXCEPT ![t] = [req[t] EXCEPT !.at = "shutdown", !.found = f]]
                 /\ ~overlapped => f = Nothing \/ True(seen, f)
    <3> DEFINE g == IF req[t].found = Nothing \/ conn = None THEN Nothing
                    ELSE [req[t].found EXCEPT !.account = holds[conn]]
    <3>1. ~overlapped => req[t].found.account = None
                         /\ (req[t].found.from = "terminal" => req[t].found.path = conn)
      BY <1>0, <1>8 DEF Answered, Answer, AccountInfo
    <3>2. conn # None => conn \in Terminals
      BY DEF TypeOK, MaybeTerminal
    <3>3. ~overlapped /\ conn # None => True(seen, req[t].found)
      BY <3>1, <3>2 DEF True
    <3>4. ~overlapped => g = Nothing \/ True(seen, g)
      <4> SUFFICES ASSUME ~overlapped, g # Nothing PROVE True(seen, g)
        OBVIOUS
      <4>1. g = [req[t].found EXCEPT !.account = holds[conn]] /\ conn \in Terminals
        BY <3>2
      <4> HIDE DEF g
      <4>2. g.account = holds[conn] /\ g.from = req[t].found.from
            /\ g.path = req[t].found.path
        BY <1>1, <4>1 DEF Request, Finding
      <4> QED
        BY <3>1, <4>1, <4>2 DEF True, Answered
    <3>5. req' = [req EXCEPT ![t] = [req[t] EXCEPT !.at = "shutdown", !.found = g]]
          \/ (conn # None /\ \E h \in {req[t].found, Nothing} :
                req' = [req EXCEPT ![t] = [req[t] EXCEPT !.at = "shutdown", !.found = h]])
      BY <1>1, <1>8 DEF AccountInfo, Request
    <3> HIDE DEF g
    <3> QED
      BY <3>3, <3>4, <3>5
  <2>0. PICK q : q = [req[t] EXCEPT !.at = "shutdown", !.found = f]
    OBVIOUS
  <2>2. q.at = "shutdown" /\ q.found = f
    BY <1>1, <2>0 DEF Request
  <2>3. UNCHANGED <<conn, discovered, overlapped>> /\ req[t].at \in Connected
    BY <1>8 DEF AccountInfo, Connected
  <2>4. ~overlapped => Answer(seen, conn, q)'
    BY <1>3, <2>1, <2>2 DEF Answer
  <2> QED
    BY <1>3, <1>6, <2>0, <2>1, <2>3, <2>4, AnsweredPut DEF Answered
<1>9. CASE Shutdown(t)
  <2>0. PICK q : q = [req[t] EXCEPT !.at = After(t)]
    OBVIOUS
  <2>1. req' = [req EXCEPT ![t] = q] /\ UNCHANGED <<discovered, overlapped>>
        /\ req[t].at = "shutdown"
    BY <1>9, <2>0 DEF Shutdown, At, history
  <2>2. q.at = After(t) /\ q.found = req[t].found
    BY <1>1, <2>0 DEF Request
  <2>3. ~overlapped => Answer(seen, conn, q)'
    BY <1>0, <1>2, <1>3, <2>1, <2>2 DEF Answer, Answered
  <2> QED
    BY <1>3, <1>6, <2>1, <2>3, AnsweredPut DEF Answered, Connected
<1>10. CASE Record(t)
  <2> DEFINE f == req[t].found
             d == [exe |-> req[t].row.exe, found |-> f,
                   add |-> f.path \notin req[t].paths /\ f.account \notin req[t].taken]
  <2>1. req' = [req EXCEPT ![t] = NoRequest] /\ UNCHANGED <<conn, overlapped>>
    BY <1>10 DEF Record, history
  <2>2. ~overlapped => f = Nothing \/ True(seen, f)
    BY <1>0, <1>10 DEF Record, Answered, Answer
  <2>3. discovered' = (discovered \ req[t].old) \cup (IF f.path = None THEN {} ELSE {d})
    BY <1>10 DEF Record
  <2>4. d.found = f /\ Nothing.path = None
    BY DEF Nothing
  <2> HIDE DEF d, f
  <2>5. ~overlapped => \A e \in discovered' : True(seen, e.found)
    BY <2>2, <2>3, <2>4 DEF Answered
  <2>6. ~overlapped => \A e \in discovered' : True(seen, e.found)'
    BY <1>3, <2>5 DEF True
  <2>7. NoRequest.at \notin Connected
    BY DEF NoRequest, Connected
  <2> QED
    BY <1>3, <2>1, <2>5, <2>7, AnsweredPut
<1> QED
  BY <1>4, <1>5, <1>7, <1>8, <1>9, <1>10 DEF Probes

\* And by every other step.
LEMMA AnsweredStep == TypeOK /\ Read /\ Answered /\ [Next]_vars => Answered'
<1> SUFFICES ASSUME TypeOK, Read, Answered, [Next]_vars PROVE Answered'
  OBVIOUS
<1>1. ASSUME NEW t \in Threads, Asks(t) PROVE Answered'
  <2>1. PICK q \in Request : Opens(t, q)
    BY <1>1, AsksOf
  <2>2. req' = [req EXCEPT ![t] = q] /\ UNCHANGED <<conn, holds, seen, overlapped, discovered>>
        /\ q.at \notin Connected /\ (~overlapped => Answer(seen, conn, q))
    BY <2>1 DEF Opens, Begins
  <2>3. Answer(seen, conn, q) => Answer(seen, conn, q)'
    BY <2>2 DEF Answer, True
  <2> QED
    BY <2>2, <2>3, AnsweredPut DEF Answered
<1>2. ASSUME NEW t \in Threads, Probes(t) PROVE Answered'
  BY <1>2, AnsweredProbes
<1>3. ASSUME NEW t \in Threads, Writes(t) PROVE Answered'
  BY <1>3, AnsweredWrites
<1>4. ASSUME NEW x \in Terminals, NEW a \in Accounts, Login(x, a) PROVE Answered'
  <2>1. holds' = [holds EXCEPT ![x] = a] /\ seen' = seen \cup {<<x, a>>}
        /\ UNCHANGED <<req, conn, overlapped, discovered>>
    BY <1>4 DEF Login
  <2>2. \A y \in Terminals : <<y, holds'[y]>> \in seen'
    BY <2>1 DEF Answered, TypeOK
  <2>3. \A u \in Threads : Answer(seen, conn, req[u]) => Answer(seen, conn, req[u])'
    BY <2>1 DEF Answer, True
  <2> QED
    BY <2>1, <2>2, <2>3 DEF Answered, Probing, True
<1>5. CASE UNCHANGED vars
  BY <1>5 DEF vars, history, Answered, Answer, True, Probing
<1> QED
  BY <1>1, <1>2, <1>3, <1>4, <1>5, NextCases

-------------------------------------------------------------------------------
(***************************************************************************)
(* The key follows the folder.                                             *)
(***************************************************************************)

\* A step of t leaves the other requests where they are.
Others(t) == \A u \in Threads \ {t} : req'[u].at = req[u].at /\ req'[u].id = req[u].id

\* Every way to go on does.
LEMMA GoesOthers ==
    ASSUME TypeOK, NEW t \in Threads, NEW q, Goes(t, q)
    PROVE  Others(t) /\ req'[t] = q
<1>1. ASSUME NEW u \in Threads \ {t}
      PROVE  req'[u].at = req[u].at /\ req'[u].id = req[u].id
  <2>1. CASE req[u] = NoRequest
    BY <1>1, <2>1 DEF Goes
  <2>2. CASE req[u] # NoRequest
    <3>1. req[u] \in Request /\ req'[u] = [req[u] EXCEPT !.stale = TRUE]
      BY <1>1, <2>2, InRequest DEF Goes
    <3> QED
      BY <3>1 DEF Request
  <2> QED
    BY <2>1, <2>2
<1> QED
  BY <1>1 DEF Others, Goes

\* Somebody is about to write the key of row i.
Rekeying(i) == \E t \in Threads : req[t].at = "rekey" /\ req[t].id = i

\* A row that is written with its key, or with its key to follow.
LEMMA KeyWrite ==
    ASSUME TypeOK, KeyFollowsFolder, NEW t \in Threads, Others(t),
           NEW i \in Ids, NEW r, rows' = [rows EXCEPT ![i] = r],
           miskeyed \ {i} \subseteq miskeyed', req[t].at = "rekey" => req[t].id = i,
           i \notin miskeyed' => r = NoRow \/ r.key = r.path \/ Rekeying(i)'
    PROVE  KeyFollowsFolder'
<1> SUFFICES ASSUME NEW j \in Ids \ miskeyed', rows'[j] # NoRow
             PROVE  rows'[j].key = rows'[j].path \/ Rekeying(j)'
  BY DEF KeyFollowsFolder, Exists, Key, Rekeying
<1>1. rows'[i] = r /\ \A k \in Ids \ {i} : rows'[k] = rows[k]
  BY DEF TypeOK
<1>2. CASE j = i
  BY <1>1, <1>2
<1>3. CASE j # i
  <2>1. rows[j].key = rows[j].path \/ Rekeying(j)
    BY <1>1, <1>3 DEF KeyFollowsFolder, Exists, Key, Rekeying
  <2>2. Rekeying(j) => Rekeying(j)'
    BY <1>3 DEF Rekeying, Others
  <2> QED
    BY <1>1, <1>3, <2>1, <2>2
<1> QED
  BY <1>2, <1>3

\* A row has its key, or has it to follow, after a step of another request.
LEMMA KeyHere ==
    ASSUME KeyFollowsFolder, NEW t \in Threads, Others(t), req[t].at # "rekey",
           NEW i \in Ids, i \notin miskeyed, Exists(i)
    PROVE  rows[i].key = rows[i].path \/ Rekeying(i)'
BY DEF KeyFollowsFolder, Key, Rekeying, Others

\* A step that leaves the rows alone, and t is not about to write a key.
LEMMA KeySame ==
    ASSUME KeyFollowsFolder, NEW t \in Threads, Others(t), req[t].at # "rekey",
           rows' = rows, miskeyed' = miskeyed
    PROVE  KeyFollowsFolder'
<1> SUFFICES ASSUME NEW i \in Ids \ miskeyed, rows'[i] # NoRow
             PROVE  rows'[i].key = rows'[i].path \/ Rekeying(i)'
  BY DEF KeyFollowsFolder, Exists, Key, Rekeying
<1> QED
  BY KeyHere DEF Exists

\* A row whose folder and key stay, and t is not about to write its key.
LEMMA KeyStays ==
    ASSUME TypeOK, KeyFollowsFolder, NEW t \in Threads, Others(t), req[t].at # "rekey",
           NEW i \in Ids, Exists(i), NEW r, rows' = [rows EXCEPT ![i] = r],
           r.path = rows[i].path, r.key = rows[i].key, miskeyed' = miskeyed
    PROVE  KeyFollowsFolder'
BY KeyHere, KeyWrite

\* The key follows the folder in every write of a row.
LEMMA KeyWrites ==
    ASSUME TypeOK, Read, KeyFollowsFolder, NEW t \in Threads, Writes(t)
    PROVE  KeyFollowsFolder'
<1>1. ASSUME NEW x \in Terminals, NEW p \in MaybeTerminal, NEW e \in MaybeAccount,
             CreateUnchecked(t, x, p, e)
      PROVE  KeyFollowsFolder'
  <2>1. Others(t) /\ req[t].at # "rekey"
    BY <1>1, GoesOthers DEF CreateUnchecked, AtOnce, Idle, NoRequest
  <2>2. PICK i, r : i = inserted + 1 /\ r = NewRow(x, p, e)
    OBVIOUS
  <2>3. i \in Ids /\ rows' = [rows EXCEPT ![i] = r] /\ miskeyed' = miskeyed \cup {i}
    BY <1>1, <2>2 DEF CreateUnchecked, AtOnce
  <2> QED
    BY <2>1, <2>3, KeyWrite
<1>2. ASSUME NEW i \in Ids, NEW c \in Change, PatchUnchecked(t, i, c)
      PROVE  KeyFollowsFolder'
  <2>1. Others(t) /\ req[t].at # "rekey"
    BY <1>2, GoesOthers DEF PatchUnchecked, AtOnce, Idle, NoRequest
  <2>2. PICK r : r = Patched(rows[i], c)
    OBVIOUS
  <2>3. rows' = [rows EXCEPT ![i] = r] /\ miskeyed' = miskeyed \cup {i}
    BY <1>2, <2>2 DEF PatchUnchecked, AtOnce
  <2> QED
    BY <2>1, <2>3, KeyWrite
<1>3. ASSUME NEW i \in Ids, Disable(t, i) PROVE KeyFollowsFolder'
  <2>1. Others(t) /\ req[t].at # "rekey"
    BY <1>3, GoesOthers DEF Disable, AtOnce, Idle, NoRequest
  <2>2. PICK r : r = [rows[i] EXCEPT !.enabled = FALSE]
    OBVIOUS
  <2>3. r.key = rows[i].key /\ r.path = rows[i].path /\ Exists(i)
    BY <1>3, <2>2, RowType DEF Disable, Row
  <2>4. rows' = [rows EXCEPT ![i] = r] /\ miskeyed' = miskeyed
    BY <1>3, <2>2 DEF Disable, AtOnce, flaws
  <2> QED
    BY <2>1, <2>3, <2>4, KeyStays
<1>4. ASSUME NEW i \in Ids, Delete(t, i) PROVE KeyFollowsFolder'
  <2>1. Others(t) /\ req[t].at # "rekey"
    BY <1>4, GoesOthers DEF Delete, AtOnce, Idle, NoRequest
  <2>2. rows' = [rows EXCEPT ![i] = NoRow] /\ miskeyed' = miskeyed
    BY <1>4 DEF Delete, AtOnce, flaws
  <2> QED
    BY <2>1, <2>2, KeyWrite
<1>5. ASSUME NEW i \in Ids, VerifyAmbiguous(t, i) PROVE KeyFollowsFolder'
  <2>1. Others(t) /\ req[t].at # "rekey"
    BY <1>5, GoesOthers DEF VerifyAmbiguous, AtOnce, Idle, NoRequest
  <2>2. PICK r : r = [rows[i] EXCEPT !.status = "AMBIGUOUS"]
    OBVIOUS
  <2>3. r.key = rows[i].key /\ r.path = rows[i].path /\ Exists(i)
    BY <1>5, <2>2, RowType DEF VerifyAmbiguous, Row
  <2>4. rows' = [rows EXCEPT ![i] = r] /\ miskeyed' = miskeyed
    BY <1>5, <2>2 DEF VerifyAmbiguous, AtOnce, flaws
  <2> QED
    BY <2>1, <2>3, <2>4, KeyStays
<1>6. CASE Insert(t)
  <2>0. req[t] \in Request /\ req[t].at = "insert"
    BY <1>6, InRequest DEF Insert, NoRequest
  <2>1. Others(t)
    BY <1>6, GoesOthers DEF Insert
  <2>2. PICK i, r : i = inserted + 1 /\ r = [req[t].row EXCEPT !.key = Key(req[t].row)]
    OBVIOUS
  <2>3. i \in Ids /\ rows' = [rows EXCEPT ![i] = r] /\ miskeyed' = miskeyed
    BY <1>6, <2>2 DEF Insert
  <2>4. r.key = r.path
    BY <2>0, <2>2 DEF Request, Row, Key
  <2> QED
    BY <2>0, <2>1, <2>3, <2>4, KeyWrite
<1>7. CASE Confirm(t)
  <2>0. req[t] # NoRequest /\ req[t].at = "confirm"
    BY <1>7 DEF Confirm, NoRequest
  <2>1. PICK i, r : /\ i = req[t].id
                    /\ r = [rows[i] EXCEPT !.found = req[t].found, !.status = "VERIFIED_OK"]
    OBVIOUS
  <2>2. i \in Ids /\ Others(t) /\ miskeyed' = miskeyed
    BY <1>7, <2>0, <2>1, Holding, GoesOthers DEF Confirm, Shape
  <2>3. CASE ~Exists(i)
    BY <1>7, <2>0, <2>1, <2>2, <2>3, KeySame DEF Confirm
  <2>4. CASE Exists(i)
    <3>1. rows' = [rows EXCEPT ![i] = r]
      BY <1>7, <2>1, <2>4 DEF Confirm
    <3>2. r.key = rows[i].key /\ r.path = rows[i].path
      BY <2>1, <2>2, <2>4, RowType DEF Row
    <3> QED
      BY <2>0, <2>2, <2>4, <3>1, <3>2, KeyStays
  <2> QED
    BY <2>3, <2>4
<1>8. CASE PatchWrite(t)
  <2>0. req[t] # NoRequest /\ req[t].at = "patch"
    BY <1>8 DEF PatchWrite, NoRequest
  <2>1. PICK i, r, q : /\ i = req[t].id /\ r = Patched(rows[i], req[t].change)
                       /\ q = About("rekey", i, r)
    OBVIOUS
  <2>2. i \in Ids
    BY <1>8, <2>0, <2>1, Holding DEF PatchWrite, Shape
  <2>3. CASE ~Exists(i)
    BY <1>8, <2>0, <2>1, <2>3, GoesOthers, KeySame DEF PatchWrite
  <2>4. CASE Exists(i)
    <3>1. rows' = [rows EXCEPT ![i] = r] /\ miskeyed' = miskeyed \ {i}
      BY <1>8, <2>1, <2>4 DEF PatchWrite
    <3>2. CASE r.path = r.key /\ Goes(t, NoRequest)
      BY <2>0, <2>2, <3>1, <3>2, GoesOthers, KeyWrite
    <3>3. CASE Goes(t, q)
      <4>1. q.at = "rekey" /\ q.id = i
        BY <2>1 DEF About
      <4>2. Others(t) /\ req'[t] = q
        BY <3>3, GoesOthers
      <4>3. Rekeying(i)'
        BY <4>1, <4>2 DEF Rekeying
      <4> QED
        BY <2>0, <2>2, <3>1, <4>2, <4>3, KeyWrite
    <3> QED
      BY <1>8, <2>1, <2>4, <3>2, <3>3 DEF PatchWrite, Key
  <2> QED
    BY <2>3, <2>4
<1>9. CASE Rekey(t)
  <2>0. req[t] # NoRequest /\ req[t].at = "rekey"
    BY <1>9 DEF Rekey, NoRequest
  <2>1. PICK i, r : i = req[t].id /\ r = [rows[i] EXCEPT !.key = Key(req[t].row)]
    OBVIOUS
  <2>2. i \in Ids /\ i # 0 /\ Others(t)
    BY <1>9, <2>0, <2>1, Holding, GoesOthers, TargetBound DEF Rekey, Shape, Ids
  <2>3. CASE ~Exists(i)
    <3>1. rows' = rows /\ miskeyed' = miskeyed
      BY <1>9, <2>1, <2>3 DEF Rekey
    <3>2. rows' = [rows EXCEPT ![i] = NoRow]
      BY <2>2, <2>3, <3>1 DEF TypeOK, Exists
    <3>3. miskeyed \ {i} \subseteq miskeyed' /\ req[t].id = i
      BY <2>1, <3>1
    <3>4. PICK gone : gone = NoRow
      OBVIOUS
    <3>5. rows' = [rows EXCEPT ![i] = gone]
      BY <3>2, <3>4
    <3> QED
      BY <2>2, <3>3, <3>4, <3>5, KeyWrite
  <2>4. CASE Exists(i)
    <3>1. rows' = [rows EXCEPT ![i] = r] /\ miskeyed' = Marked(miskeyed, i, req[t].stale)
      BY <1>9, <2>1, <2>4 DEF Rekey
    <3>2. r.key = req[t].row.path /\ r.path = rows[i].path
      BY <2>1, <2>2, <2>4, RowType DEF Row, Key
    <3>3. ~req[t].stale => rows[i].path = req[t].row.path
      BY <2>0, <2>1, <2>2, <2>4, Holding DEF Current
    <3>4. miskeyed \ {i} \subseteq miskeyed' /\ (i \notin miskeyed' => ~req[t].stale)
      BY <2>2, <3>1, MarkedType DEF TypeOK
    <3> QED
      BY <2>0, <2>1, <2>2, <3>1, <3>2, <3>3, <3>4, KeyWrite
  <2> QED
    BY <2>3, <2>4
<1>10. CASE Save(t)
  <2>0. req[t] # NoRequest /\ req[t].at = "save"
    BY <1>10 DEF Save, NoRequest
  <2>1. PICK i, r, q : /\ i = req[t].id
                       /\ r = [rows[i] EXCEPT !.found = req[t].found,
                                              !.status = Verdict(req[t])]
                       /\ q = [About("rekey", i, req[t].row) EXCEPT !.stale = req[t].stale]
    OBVIOUS
  <2>2. i \in Ids /\ miskeyed' = miskeyed
    BY <1>10, <2>0, <2>1, Holding DEF Save, Shape
  <2>3. CASE ~Exists(i)
    BY <1>10, <2>0, <2>1, <2>2, <2>3, GoesOthers, KeySame DEF Save
  <2>4. CASE Exists(i)
    <3>1. rows' = [rows EXCEPT ![i] = r] /\ Goes(t, q)
      BY <1>10, <2>1, <2>4 DEF Save
    <3>2. q.at = "rekey" /\ q.id = i
      BY <2>1 DEF About
    <3>3. Others(t) /\ req'[t] = q
      BY <3>1, GoesOthers
    <3>4. Rekeying(i)'
      BY <3>2, <3>3 DEF Rekeying
    <3> QED
      BY <2>0, <2>2, <3>1, <3>3, <3>4, KeyWrite
  <2> QED
    BY <2>3, <2>4
<1> QED
  BY <1>1, <1>2, <1>3, <1>4, <1>5, <1>6, <1>7, <1>8, <1>9, <1>10 DEF Writes

\* And in every other step.
LEMMA KeyStep ==
    TypeOK /\ Read /\ Answered /\ KeyFollowsFolder /\ [Next]_vars => KeyFollowsFolder'
<1> SUFFICES ASSUME TypeOK, Read, Answered, KeyFollowsFolder, [Next]_vars
             PROVE  KeyFollowsFolder'
  OBVIOUS
<1>1. ASSUME NEW t \in Threads, NEW q, req' = [req EXCEPT ![t] = q] PROVE Others(t)
  BY <1>1 DEF Others, TypeOK
<1>2. ASSUME NEW t \in Threads, Asks(t) PROVE KeyFollowsFolder'
  <2>1. PICK q \in Request : Opens(t, q)
    BY <1>2, AsksOf
  <2>2. req' = [req EXCEPT ![t] = q] /\ req[t].at # "rekey" /\ UNCHANGED <<rows, miskeyed>>
    BY <2>1 DEF Opens, Begins, Idle, NoRequest, flaws
  <2> QED
    BY <1>1, <2>2, KeySame
<1>3. ASSUME NEW t \in Threads, Probes(t) PROVE KeyFollowsFolder'
  <2>1. PICK q \in Request \cup {NoRequest} : Continues(t, q)
    BY <1>3, ProbesOf
  <2>2. req' = [req EXCEPT ![t] = q] /\ req[t].at # "rekey" /\ UNCHANGED <<rows, miskeyed>>
    BY <2>1 DEF Continues, flaws
  <2> QED
    BY <1>1, <2>2, KeySame
<1>4. ASSUME NEW t \in Threads, Writes(t) PROVE KeyFollowsFolder'
  BY <1>4, KeyWrites
<1>5. ASSUME NEW x \in Terminals, NEW a \in Accounts, Login(x, a) PROVE KeyFollowsFolder'
  BY <1>5 DEF Login, flaws, KeyFollowsFolder, Exists
<1>6. CASE UNCHANGED vars
  BY <1>6 DEF vars, history, flaws, KeyFollowsFolder, Exists
<1> QED
  BY <1>2, <1>3, <1>4, <1>5, <1>6, NextCases

-------------------------------------------------------------------------------
(***************************************************************************)
(* The theorems.                                                           *)
(***************************************************************************)

\* The invariant is inductive.
LEMMA CatalogInv == Spec => []Inv
<1>1. Init => Inv
  <2> SUFFICES ASSUME Init PROVE Inv
    OBVIOUS
  <2> USE DEF Init
  <2>1. TypeOK
    <3>1. inserted \in 0..MaxTargets /\ requests \in 0..MaxRequests
          /\ logins \in 0..MaxLogins /\ gaps \in 0..MaxGaps
      BY TargetBound, CatalogRequestBound, LoginBound, GapBound
    <3>2. seen \subseteq Terminals \X Accounts
      OBVIOUS
    <3>3. /\ rows \in [Ids -> Row \cup {NoRow}]
          /\ req \in [Threads -> Request \cup {NoRequest}]
      OBVIOUS
    <3> QED
      BY <3>1, <3>2, <3>3 DEF TypeOK, MaybeTerminal
  <2>2. \A i \in Ids : ~Exists(i)
    BY DEF Exists
  <2>3. Read /\ Answered
    BY DEF Read, Answered, Probing, NoRequest
  <2> QED
    BY <2>1, <2>2, <2>3
       DEF Inv, Apart, Active, Verified, VerifiedIsOwn, VerifiedWasTrue, KeyFollowsFolder
<1>2. Inv /\ [Next]_vars => Inv'
  BY TypeStep, ReadStep, AnsweredStep, RowsStep, KeyStep DEF Inv
<1> QED
  BY <1>1, <1>2, PTL DEF Spec

\* Every variable stays in its type.
THEOREM CatalogTypeOK == Spec => []TypeOK
<1>1. Inv => TypeOK
  BY DEF Inv
<1> QED
  BY <1>1, CatalogInv, PTL

\* A target that says VERIFIED_OK was found in its folder and with the account
\* it expects, as far as the terminal named an account, whatever probes overlap
\* (verify_target).
THEOREM CatalogVerifiedIsOwn == Spec => []VerifiedIsOwn
<1>1. Inv => VerifiedIsOwn
  BY DEF Inv
<1> QED
  BY <1>1, CatalogInv, PTL

\* While no two probes overlap, a target that says VERIFIED_OK shows what was
\* true of a terminal once (probe_terminal_account).
THEOREM CatalogVerifiedWasTrue == Spec => []VerifiedWasTrue
<1>1. Inv => VerifiedWasTrue
  BY DEF Inv
<1> QED
  BY <1>1, CatalogInv, PTL

\* Two enabled targets have two folders, if the last write of each was held
\* against the others as they were then (validate_target_registration).
THEOREM CatalogFoldersDistinct == Spec => []FoldersDistinct
<1>1. Inv => FoldersDistinct
  BY DEF Inv, Apart, SharesFolder, FoldersDistinct
<1> QED
  BY <1>1, CatalogInv, PTL

\* And two accounts, if they were verified as they are (find_target_conflicts,
\* verify_target).
THEOREM CatalogAccountsDistinct == Spec => []AccountsDistinct
<1>1. Inv => AccountsDistinct
  <2> SUFFICES ASSUME Inv,
                      NEW i \in Active \ (edited \cup unvetted \cup outdated),
                      NEW j \in Active \ (edited \cup unvetted \cup outdated), i # j,
                      Verified(i), Verified(j),
                      rows[i].expected # None, rows[j].expected # None
               PROVE  AccountOf(rows[i]) # AccountOf(rows[j])
    BY DEF AccountsDistinct
  <2>1. \A k \in {i, j} : k \in Active \cap Kin /\ k \in Ids \ edited
    BY DEF Active, Kin
  <2>2. \A k \in {i, j} : AccountOf(rows[k]) = rows[k].expected
    BY <2>1 DEF Inv, VerifiedIsOwn, AccountOf
  <2>3. rows[i].expected # rows[j].expected
    BY <2>1 DEF Inv, Apart, SharesAccount
  <2> QED
    BY <2>2, <2>3
<1> QED
  BY <1>1, CatalogInv, PTL

\* The instance key follows the folder, unless a request wrote it from an older
\* row or nothing computed it (compute_instance_fields).
THEOREM CatalogKeyFollowsFolder == Spec => []KeyFollowsFolder
<1>1. Inv => KeyFollowsFolder
  BY DEF Inv
<1> QED
  BY <1>1, CatalogInv, PTL
===============================================================================
