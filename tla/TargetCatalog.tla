----------------------------- MODULE TargetCatalog -----------------------------
(***************************************************************************)
(* The catalog of MT5 targets: mt5_target_service, mt5_terminal_discovery, *)
(* mt5_account_probe, their table mt5_targets and the requests of the      *)
(* dashboard's HTTP threads that read and change it.                       *)
(*                                                                         *)
(* Every transaction is a step, and so is every call of the MetaTrader5    *)
(* library, whose connection belongs to the whole process: it is modelled  *)
(* from how the probe uses it.  A terminal stands for its program and its  *)
(* data folder; an account for a login with its server.  The fallback key  *)
(* of a row without a data folder is none here, and every row has a        *)
(* program.                                                                *)
(***************************************************************************)
EXTENDS Integers, FiniteSets

CONSTANTS
    Threads,        \* HTTP threads of the dashboard
    Terminals,
    Accounts,
    MaxTargets,     \* bound on the rows ever inserted
    FieldSets,      \* the sets of fields a PATCH changes together
    MaxRequests,    \* bound on the requests
    MaxLogins,      \* bound on the logins of a terminal into another account
    MaxGaps         \* bound on the folders and accounts a terminal does not name

ASSUME TargetBound == MaxTargets \in Nat
ASSUME CatalogRequestBound == MaxRequests \in Nat
ASSUME LoginBound == MaxLogins \in Nat
ASSUME GapBound == MaxGaps \in Nat

VARIABLES
    rows,           \* mt5_targets by id, NoRow where there is none
    discovered,     \* the records of the discovery store
    req,            \* HTTP thread -> the request it is in
    conn,           \* the terminal the MetaTrader5 library is connected to
    holds           \* terminal -> the account it is logged in to

(* History variables.                                                      *)
VARIABLES
    inserted, requests, logins, gaps,
    seen,           \* the accounts each terminal has ever been logged in to
    overlapped,     \* two probes were connected at a time
    edited,         \* rows whose folder or account changed since they were verified
    unvetted,       \* rows last written without being held against the others as they were
    outdated,       \* rows verified by what a request had read before another write
    miskeyed        \* rows whose key was not computed from them as they were

counts == <<inserted, requests, logins, gaps>>
flaws == <<unvetted, outdated, miskeyed>>
history == <<counts, seen, overlapped, edited, flaws>>
vars == <<rows, discovered, req, conn, holds, history>>

None == "none"
ASSUME NoneIsNoTerminal == None \notin Terminals
Ids == 1..MaxTargets
MaybeTerminal == Terminals \cup {None}
MaybeAccount == Accounts \cup {None}

\* What a probe found: the folder the terminal named, or the configured one that
\* stands in for it, and the account.
Finding == [from : {"nobody", "terminal", "request"}, path : MaybeTerminal,
            account : MaybeAccount]
Nothing == [from |-> "nobody", path |-> None, account |-> None]

Row == [enabled : BOOLEAN, exe : Terminals, path : MaybeTerminal,
        key : MaybeTerminal, expected : MaybeAccount, found : Finding,
        status : {"PENDING", "VERIFIED_OK", "MISMATCH", "FAILED", "AMBIGUOUS"}]
NoRow == [status |-> "NO ROW"]

\* A record of a terminal that named its folder or had one before.
Discovery == [exe : Terminals, found : Finding, add : BOOLEAN]

\* What a PATCH makes of the fields of a row, and what it leaves alone.
Kept == "kept"
Change == [enabled : {"on", "off", Kept}, exe : Terminals \cup {Kept},
           path : MaybeTerminal \cup {Kept}, key : MaybeTerminal \cup {Kept},
           expected : MaybeAccount \cup {Kept}]
NoChange == [f \in {"enabled", "exe", "path", "key", "expected"} |-> Kept]
Changes == {c \in Change : {f \in DOMAIN c : c[f] # Kept} \in FieldSets}

\* A request: where it is, the row it is about or will insert, whether that row
\* was held against the others, the folders and accounts these had then, what it
\* has found, and whether a row was written since it looked.
Request ==
    [at : {"insert", "confirm", "patch", "rekey", "init", "terminal", "account",
           "shutdown", "save", "record"},
     id : Ids \cup {0}, row : Row, change : Change, vetted : BOOLEAN,
     paths : SUBSET Terminals, taken : SUBSET Accounts, found : Finding,
     old : SUBSET Discovery, stale : BOOLEAN]
NoRequest == [at |-> "none"]

TypeOK ==
    /\ rows \in [Ids -> Row \cup {NoRow}]
    /\ discovered \subseteq Discovery
    /\ req \in [Threads -> Request \cup {NoRequest}]
    /\ conn \in MaybeTerminal
    /\ holds \in [Terminals -> Accounts]
    /\ inserted \in 0..MaxTargets
    /\ requests \in 0..MaxRequests
    /\ logins \in 0..MaxLogins
    /\ gaps \in 0..MaxGaps
    /\ seen \subseteq Terminals \X Accounts
    /\ overlapped \in BOOLEAN
    /\ edited \subseteq Ids
    /\ unvetted \subseteq Ids /\ outdated \subseteq Ids /\ miskeyed \subseteq Ids

Init ==
    /\ rows = [i \in Ids |-> NoRow]
    /\ discovered = {}
    /\ req = [t \in Threads |-> NoRequest]
    /\ conn = None
    /\ holds \in [Terminals -> Accounts]
    /\ inserted = 0 /\ requests = 0 /\ logins = 0 /\ gaps = 0
    /\ seen = {<<x, holds[x]>> : x \in Terminals}
    /\ overlapped = FALSE
    /\ edited = {} /\ unvetted = {} /\ outdated = {} /\ miskeyed = {}

-------------------------------------------------------------------------------
(***************************************************************************)
(* What the service finds in the rows.                                     *)
(***************************************************************************)

Exists(i) == rows[i] # NoRow
Active == {i \in Ids : Exists(i) /\ rows[i].enabled}

\* account_server_pair: the account found, or else the expected one.
AccountOf(r) == IF r.found.account # None THEN r.found.account ELSE r.expected

\* What the active rows but i occupy.
Paths(i) == {rows[j].path : j \in Active \ {i}} \ {None}
Taken(i) == {AccountOf(rows[j]) : j \in Active \ {i}} \ {None}

Keys == {rows[j].key : j \in Active} \ {None}

\* Mutant: only folders conflict.
FreeFolder(i, r) == r.enabled => r.path \notin Paths(i)

\* Mutant: only accounts conflict.
FreeAccount(i, r) == r.enabled => r.expected \notin Taken(i)

\* find_target_conflicts, as far as validate_target_registration refuses for
\* them.  A row that is disabled conflicts with nothing.
Free(i, r) == r.enabled => r.path \notin Paths(i) /\ r.expected \notin Taken(i)

\* build_terminal_instance_key
Key(r) == r.path

\* is_instance_ambiguous
Ambiguous(i) ==
    /\ rows[i].path = None
    /\ \E j \in Active \ {i} : rows[j].exe = rows[i].exe /\ rows[j].path = None

NewRow(x, p, e) ==
    [enabled |-> TRUE, exe |-> x, path |-> p, key |-> None, expected |-> e,
     found |-> Nothing, status |-> "PENDING"]

-------------------------------------------------------------------------------
(***************************************************************************)
(* Requests.                                                               *)
(***************************************************************************)

Idle(t) == req[t] = NoRequest /\ requests < MaxRequests

\* t begins request q, which looks at the rows and writes none yet.
Begins(t, q) ==
    /\ requests' = requests + 1
    /\ req' = [req EXCEPT ![t] = q]
    /\ UNCHANGED <<rows, discovered, conn, holds, inserted, logins, gaps, seen,
                   overlapped, edited, flaws>>

\* A request about row i, r as it is read or will be inserted.
About(at, i, r) ==
    [at |-> at, id |-> i, row |-> r, change |-> NoChange, vetted |-> TRUE, paths |-> {},
     taken |-> {}, found |-> Nothing, old |-> {}, stale |-> FALSE]

\* t goes on, and what the other requests have looked at is outdated.
Goes(t, q) ==
    req' = [u \in Threads |-> IF u = t THEN q
                              ELSE IF req[u] = NoRequest THEN NoRequest
                              ELSE [req[u] EXCEPT !.stale = TRUE]]

\* A request that is one transaction.
AtOnce(t, i, r) ==
    /\ requests' = requests + 1
    /\ rows' = [rows EXCEPT ![i] = r]
    /\ Goes(t, NoRequest)

\* The rows with a flaw, i being written with or without it.
Marked(flawed, i, flaw) == IF flaw THEN flawed \cup {i} ELSE flawed \ {i}

\* POST /api/mt5-targets up to its insert.  The payload may say that the target is
\* disabled, so that it conflicts with nothing; it is inserted enabled.
Register(t, x, e, enabled) ==
    LET r == NewRow(x, x, e) IN
    /\ Idle(t) /\ Free(0, [r EXCEPT !.enabled = enabled])
    /\ Begins(t, [About("insert", 0, r) EXCEPT !.vetted = enabled])

\* The same for the target of a discovery: it may be added if it was free when
\* it was discovered and is free still.
AddTarget(t, d) ==
    LET r == NewRow(d.exe, d.found.path, d.found.account) IN
    /\ Idle(t) /\ d.add /\ Free(0, r)
    /\ Begins(t, [About("insert", 0, r) EXCEPT !.found = d.found, !.old = {d}])

\* create_target, with the key of prepare_target_row_fields.
Insert(t) ==
    LET i == inserted + 1 IN
    /\ req[t].at = "insert"
    /\ i \in Ids
    /\ inserted' = i
    /\ rows' = [rows EXCEPT ![i] = [req[t].row EXCEPT !.key = Key(req[t].row)]]
    /\ Goes(t, IF req[t].old = {} THEN NoRequest
               ELSE [req[t] EXCEPT !.at = "confirm", !.id = i, !.old = {}])
    /\ unvetted' = Marked(unvetted, i, req[t].stale \/ ~req[t].vetted)
    /\ UNCHANGED <<discovered, conn, holds, requests, logins, gaps, seen, overlapped,
                   edited, outdated, miskeyed>>

\* Row i has been verified; a change in between is one that still counts.
Settled(i, q) ==
    IF rows[i].path = q.row.path /\ rows[i].expected = q.row.expected
    THEN edited \ {i} ELSE edited \cup {i}

\* save_target_verification of what was discovered.
Confirm(t) ==
    LET i == req[t].id IN
    /\ req[t].at = "confirm"
    /\ IF Exists(i)
       THEN /\ rows' = [rows EXCEPT ![i].found = req[t].found, ![i].status = "VERIFIED_OK"]
            /\ edited' = Settled(i, req[t])
            /\ outdated' = Marked(outdated, i, req[t].stale)
       ELSE UNCHANGED <<rows, edited, outdated>>
    /\ Goes(t, NoRequest)
    /\ UNCHANGED <<discovered, conn, holds, counts, seen, overlapped, unvetted, miskeyed>>

\* POST /api/targets checks nothing and computes no key.
CreateUnchecked(t, x, p, e) ==
    /\ Idle(t) /\ inserted + 1 \in Ids
    /\ AtOnce(t, inserted + 1, NewRow(x, p, e))
    /\ inserted' = inserted + 1
    /\ unvetted' = unvetted \cup {inserted + 1}
    /\ miskeyed' = miskeyed \cup {inserted + 1}
    /\ UNCHANGED <<discovered, conn, holds, logins, gaps, seen, overlapped, edited, outdated>>

Patched(r, c) ==
    [r EXCEPT !.enabled = IF c.enabled = Kept THEN @ ELSE c.enabled = "on",
              !.exe = IF c.exe = Kept THEN @ ELSE c.exe,
              !.path = IF c.path = Kept THEN @ ELSE c.path,
              !.key = IF c.key = Kept THEN @ ELSE c.key,
              !.expected = IF c.expected = Kept THEN @ ELSE c.expected]

Edited(i, c) == IF c.path = Kept /\ c.expected = Kept THEN edited ELSE edited \cup {i}

\* PATCH /api/mt5-targets/i up to its update.  A body with the id of another row
\* hides row i from the check.
Patch(t, i, c, own) ==
    /\ Idle(t) /\ Exists(i)
    /\ own => Free(i, Patched(rows[i], c))
    /\ Begins(t, [About("patch", i, rows[i]) EXCEPT !.change = c, !.vetted = own])

\* Mutant: the key stays.
PatchWriteOnly(t) ==
    LET i == req[t].id
        r == Patched(rows[i], req[t].change) IN
    /\ req[t].at = "patch"
    /\ Goes(t, NoRequest)
    /\ IF Exists(i)
       THEN /\ rows' = [rows EXCEPT ![i] = r]
            /\ edited' = Edited(i, req[t].change)
            /\ unvetted' = Marked(unvetted, i, req[t].stale \/ ~req[t].vetted)
            /\ miskeyed' = miskeyed \ {i}
       ELSE UNCHANGED <<rows, edited, unvetted, miskeyed>>
    /\ UNCHANGED <<discovered, conn, holds, counts, seen, overlapped, outdated>>

\* update_target; the key follows with the row as it then is.
PatchWrite(t) ==
    LET i == req[t].id
        r == Patched(rows[i], req[t].change) IN
    /\ req[t].at = "patch"
    /\ IF Exists(i)
       THEN /\ rows' = [rows EXCEPT ![i] = r]
            /\ Goes(t, IF Key(r) = r.key THEN NoRequest
                       ELSE About("rekey", i, r))
            /\ edited' = Edited(i, req[t].change)
            /\ unvetted' = Marked(unvetted, i, req[t].stale \/ ~req[t].vetted)
            /\ miskeyed' = miskeyed \ {i}
       ELSE Goes(t, NoRequest) /\ UNCHANGED <<rows, edited, unvetted, miskeyed>>
    /\ UNCHANGED <<discovered, conn, holds, counts, seen, overlapped, outdated>>

\* The key goes with the row as the request has read it.
Rekey(t) ==
    LET i == req[t].id IN
    /\ req[t].at = "rekey"
    /\ IF Exists(i)
       THEN /\ rows' = [rows EXCEPT ![i].key = Key(req[t].row)]
            /\ miskeyed' = Marked(miskeyed, i, req[t].stale)
       ELSE UNCHANGED <<rows, miskeyed>>
    /\ Goes(t, NoRequest)
    /\ UNCHANGED <<discovered, conn, holds, counts, seen, overlapped, edited,
                   unvetted, outdated>>

\* PATCH /api/targets/i checks nothing and computes no key.
PatchUnchecked(t, i, c) ==
    /\ Idle(t) /\ Exists(i)
    /\ AtOnce(t, i, Patched(rows[i], c))
    /\ edited' = Edited(i, c)
    /\ unvetted' = unvetted \cup {i}
    /\ miskeyed' = miskeyed \cup {i}
    /\ UNCHANGED <<discovered, conn, holds, inserted, logins, gaps, seen, overlapped, outdated>>

\* disable_target
Disable(t, i) ==
    /\ Idle(t) /\ Exists(i)
    /\ AtOnce(t, i, [rows[i] EXCEPT !.enabled = FALSE])
    /\ UNCHANGED <<discovered, conn, holds, inserted, logins, gaps, seen, overlapped,
                   edited, flaws>>

\* delete_target, of a target without routes.
Delete(t, i) ==
    /\ Idle(t) /\ Exists(i)
    /\ AtOnce(t, i, NoRow)
    /\ UNCHANGED <<discovered, conn, holds, inserted, logins, gaps, seen, overlapped,
                   edited, flaws>>

\* verify_target of a row whose terminal cannot be told from another's.
VerifyAmbiguous(t, i) ==
    /\ Idle(t) /\ Exists(i) /\ Ambiguous(i)
    /\ AtOnce(t, i, [rows[i] EXCEPT !.status = "AMBIGUOUS"])
    /\ UNCHANGED <<discovered, conn, holds, inserted, logins, gaps, seen, overlapped,
                   edited, flaws>>

\* verify_target up to its probe.
Verify(t, i) ==
    /\ Idle(t) /\ Exists(i) /\ ~Ambiguous(i)
    /\ Begins(t, [About("init", i, rows[i]) EXCEPT
                     !.taken = IF i \in Active THEN Taken(i) ELSE {}])

\* A probe for the discovery store, with the folder p of the record it refreshes.
Discover(t, x, p, old) ==
    /\ Idle(t)
    /\ Begins(t, [About("init", 0, NewRow(x, p, None)) EXCEPT
                     !.paths = Paths(0) \cup Keys, !.taken = Taken(0), !.old = old])

\* discover_terminal_paths of one path
Scan(t, x) == Discover(t, x, None, {})

\* refresh_discovery_record
Refresh(t, d) == Discover(t, d.exe, d.found.path, {d})

-------------------------------------------------------------------------------
(***************************************************************************)
(* probe_terminal_account                                                  *)
(***************************************************************************)

At(t, at) == req' = [req EXCEPT ![t].at = at]
Probing == {t \in Threads : req[t].at \in {"terminal", "account", "shutdown"}}
After(t) == IF req[t].id = 0 THEN "record" ELSE "save"

\* The program does not run, or the library cannot connect to it.
ProbeOffline(t) ==
    /\ req[t].at = "init"
    /\ At(t, After(t))
    /\ UNCHANGED <<rows, discovered, conn, holds, history>>

Initialize(t) ==
    /\ req[t].at = "init"
    /\ conn' = req[t].row.exe
    /\ At(t, "terminal")
    /\ overlapped' = (overlapped \/ Probing # {})
    /\ UNCHANGED <<rows, discovered, holds, counts, seen, edited, flaws>>

\* What the probe of q goes by when terminal_info names no folder.
Stood(q) == [Nothing EXCEPT !.from = "request", !.path = q.row.path]
Named(x) == [Nothing EXCEPT !.from = "terminal", !.path = x]

\* Mutant: the configured folder goes before the one the terminal names.
TerminalInfoConfigured(t) ==
    /\ req[t].at = "terminal"
    /\ req' = [req EXCEPT ![t].at = "account",
                          ![t].found = IF conn = None THEN @
                                       ELSE IF req[t].row.path # None THEN Named(req[t].row.path)
                                       ELSE Named(conn)]
    /\ UNCHANGED <<rows, discovered, conn, holds, history>>

\* terminal_info, of whatever terminal the library is connected to.  It may name
\* no folder: the configured one stands in for it.
TerminalInfo(t) ==
    /\ req[t].at = "terminal"
    /\ \/ /\ req' = [req EXCEPT ![t].at = "account",
                                ![t].found = IF conn = None THEN @ ELSE Named(conn)]
          /\ UNCHANGED gaps
       \/ /\ conn # None
          /\ gaps < MaxGaps /\ gaps' = gaps + 1
          /\ req' = [req EXCEPT ![t].at = "account", ![t].found = Stood(req[t])]
    /\ UNCHANGED <<rows, discovered, conn, holds, inserted, requests, logins, seen,
                   overlapped, edited, flaws>>

\* account_info: without an answer to either call there is no finding.  The login
\* or the server may be empty.
AccountInfo(t) ==
    /\ req[t].at = "account"
    /\ \/ /\ req' = [req EXCEPT ![t].at = "shutdown",
                                ![t].found = IF @ = Nothing \/ conn = None THEN Nothing
                                             ELSE [@ EXCEPT !.account = holds[conn]]]
          /\ UNCHANGED gaps
       \/ /\ conn # None
          /\ gaps < MaxGaps /\ gaps' = gaps + 1
          /\ \E f \in {req[t].found, Nothing} :
                req' = [req EXCEPT ![t].at = "shutdown", ![t].found = f]
    /\ UNCHANGED <<rows, discovered, conn, holds, inserted, requests, logins, seen,
                   overlapped, edited, flaws>>

Shutdown(t) ==
    /\ req[t].at = "shutdown"
    /\ conn' = None
    /\ At(t, After(t))
    /\ UNCHANGED <<rows, discovered, holds, history>>

\* Mutant: the folder that was found is not compared.
VerdictAnywhere(q) ==
    LET f == q.found IN
    CASE f = Nothing -> "FAILED"
      [] f # Nothing /\ f.account # None /\ q.row.expected \notin {None, f.account} -> "MISMATCH"
      [] f # Nothing /\ q.row.expected \in q.taken -> "MISMATCH"
      [] OTHER -> "VERIFIED_OK"

\* verify_target: what the probe's answer is worth for the row as it was read.  An
\* account without login or server is compared with nothing.
Verdict(q) ==
    LET f == q.found IN
    CASE f = Nothing -> "FAILED"
      [] f # Nothing /\ q.row.path \notin {None, f.path} -> "MISMATCH"
      [] f # Nothing /\ f.account # None /\ q.row.expected \notin {None, f.account} -> "MISMATCH"
      [] f # Nothing /\ q.row.expected \in q.taken -> "MISMATCH"
      [] OTHER -> "VERIFIED_OK"

\* save_target_verification; the key follows with the row as it was read.
Save(t) ==
    LET i == req[t].id IN
    /\ req[t].at = "save"
    /\ IF Exists(i)
       THEN /\ rows' = [rows EXCEPT ![i].found = req[t].found, ![i].status = Verdict(req[t])]
            /\ Goes(t, [About("rekey", i, req[t].row) EXCEPT !.stale = req[t].stale])
            /\ edited' = Settled(i, req[t])
            /\ outdated' = Marked(outdated, i, req[t].stale)
       ELSE Goes(t, NoRequest) /\ UNCHANGED <<rows, edited, outdated>>
    /\ UNCHANGED <<discovered, conn, holds, counts, seen, overlapped, unvetted, miskeyed>>

\* _build_discovery_record, which blocks what was taken when the scan began.  A
\* record without a folder cannot be added, and its refresh is a new scan.
Record(t) ==
    LET f == req[t].found IN
    /\ req[t].at = "record"
    /\ discovered' = (discovered \ req[t].old) \cup
           (IF f.path = None THEN {}
            ELSE {[exe |-> req[t].row.exe, found |-> f,
                   add |-> f.path \notin req[t].paths /\ f.account \notin req[t].taken]})
    /\ req' = [req EXCEPT ![t] = NoRequest]
    /\ UNCHANGED <<rows, conn, holds, history>>

-------------------------------------------------------------------------------
\* The user logs a terminal in to another account.
Login(x, a) ==
    /\ logins < MaxLogins /\ logins' = logins + 1
    /\ holds' = [holds EXCEPT ![x] = a]
    /\ seen' = seen \cup {<<x, a>>}
    /\ UNCHANGED <<rows, discovered, req, conn, inserted, requests, gaps, overlapped,
                   edited, flaws>>

Starts(t) ==
    \/ \E x \in Terminals :
          \/ \E e \in MaybeAccount, enabled \in BOOLEAN : Register(t, x, e, enabled)
          \/ \E p \in {x, None}, e \in MaybeAccount : CreateUnchecked(t, x, p, e)
          \/ Scan(t, x)
    \/ \E d \in discovered : AddTarget(t, d) \/ Refresh(t, d)
    \/ \E i \in Ids :
          \/ \E c \in Changes : (\E own \in BOOLEAN : Patch(t, i, c, own)) \/ PatchUnchecked(t, i, c)
          \/ Disable(t, i) \/ Delete(t, i) \/ VerifyAmbiguous(t, i) \/ Verify(t, i)

GoesOn(t) ==
    \/ Insert(t) \/ Confirm(t) \/ PatchWrite(t) \/ Rekey(t)
    \/ ProbeOffline(t) \/ Initialize(t) \/ TerminalInfo(t) \/ AccountInfo(t) \/ Shutdown(t)
    \/ Save(t) \/ Record(t)

Next ==
    \/ \E t \in Threads : Starts(t) \/ GoesOn(t)
    \/ \E x \in Terminals, a \in Accounts : Login(x, a)

Spec == Init /\ [][Next]_vars

-------------------------------------------------------------------------------
(***************************************************************************)
(* Properties.                                                             *)
(***************************************************************************)

Verified(i) == Exists(i) /\ rows[i].status = "VERIFIED_OK"

\* Whatever probes overlap, a target that says VERIFIED_OK was found in its data
\* folder, if it has one, and with the account it expects, if it expects one and
\* the terminal named any, until one of the two is changed (verify_target,
\* create_target_from_discovery).  The folder may be the configured one, which
\* stands in for one the terminal does not name.
VerifiedIsOwn ==
    \A i \in Ids \ edited : Verified(i) =>
        /\ rows[i].path \in {None, rows[i].found.path}
        /\ rows[i].found.account # None =>
              rows[i].expected \in {None, rows[i].found.account}

\* As long as no two probes overlap, what a VERIFIED_OK target shows was true
\* once: the account was one a terminal was logged in to, and the terminal of the
\* folder if that was named (probe_terminal_account).
VerifiedWasTrue ==
    ~overlapped => \A i \in Ids : Verified(i) =>
        \E x \in Terminals :
            /\ rows[i].found.account # None => <<x, rows[i].found.account>> \in seen
            /\ rows[i].found.from = "terminal" => rows[i].found.path = x

\* Two enabled targets never have the same data folder, through whatever
\* registrations, discoveries, patches, re-enablings and verifications, if the
\* last write of the folder, the account or the enabling of either was one that
\* was held against the others as they then were (validate_target_registration).
FoldersDistinct ==
    \A i, j \in Active \ unvetted :
        i # j /\ rows[i].path # None => rows[i].path # rows[j].path

\* Nor are two such targets verified with the same account, if they expect one
\* and were not changed since (find_target_conflicts, verify_target).
AccountsDistinct ==
    \A i, j \in Active \ (edited \cup unvetted \cup outdated) :
        /\ i # j /\ Verified(i) /\ Verified(j)
        /\ rows[i].expected # None /\ rows[j].expected # None
        => AccountOf(rows[i]) # AccountOf(rows[j])

\* The instance key, by which a discovery is recognised, follows the folder
\* once the request that changed it is over (compute_instance_fields).
KeyFollowsFolder ==
    \A i \in Ids \ miskeyed :
        \/ ~Exists(i) \/ rows[i].key = Key(rows[i])
        \/ \E t \in Threads : req[t].at = "rekey" /\ req[t].id = i

===============================================================================
