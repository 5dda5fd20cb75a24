--------------------------- MODULE TelethonHookProofs ---------------------------
(***************************************************************************)
(* Theorems about TelethonHook and the TelegramLogin beside it, for any    *)
(* number of threads, phones, routes, requests and client threads.         *)
(***************************************************************************)
EXTENDS TelethonHook, FiniteSetTheorems, TLAPS

-------------------------------------------------------------------------------
(***************************************************************************)
(* The login: types.                                                       *)
(***************************************************************************)

LEMMA CallTypes ==
    /\ NoCall.kind = "none"
    /\ \A q \in Call : q.kind # "none" /\ q.phone \in SomePhone /\ q.hash \in SomePhone
BY DEF NoCall, Call

LEMMA OneMore ==
    ASSUME NEW n \in 0..MaxRequests, n < MaxRequests
    PROVE  n + 1 \in 0..MaxRequests
BY RequestBound

LEMMA RequestTyped ==
    ASSUME LoginTypeOK, NEW t \in Threads, Request(t)
    PROVE  LoginTypeOK'
<1> USE DEF LoginTypeOK
<1>1. ASSUME NEW kind \in {"code", "verify", "password", "dialogs"},
             NEW p \in SomePhone, Make(t, kind, p), requests < MaxRequests
      PROVE  /\ calls' \in [Threads -> Call \cup {NoCall}]
             /\ requests' \in 0..MaxRequests
             /\ tangled' \in BOOLEAN
  <2>1. [kind |-> kind, phone |-> p, hash |-> account.hash] \in Call
    BY DEF Call
  <2>2. calls' \in [Threads -> Call \cup {NoCall}]
    <3> DEFINE q == [kind |-> kind, phone |-> p, hash |-> account.hash]
    <3>1. calls' = [calls EXCEPT ![t] = q] /\ q \in Call
      BY <1>1, <2>1 DEF Make
    <3> HIDE DEF q
    <3> QED
      BY <3>1
  <2>3. requests' \in 0..MaxRequests
    <3>1. requests' = requests + 1 /\ requests < MaxRequests
      BY <1>1 DEF Make
    <3>2. requests \in 0..MaxRequests
      OBVIOUS
    <3> QED
      BY <3>1, <3>2, OneMore
  <2>4. tangled' \in BOOLEAN
    <3>1. tangled' = (tangled \/ Busy)
      BY <1>1 DEF Make
    <3> QED
      BY <3>1, Zenon
  <2> QED
    BY <2>2, <2>3, <2>4
<1>2. ASSUME NEW kind \in {"code", "verify"}, NEW p \in SomePhone, CallFor(t, kind, p)
      PROVE  LoginTypeOK'
  <2>1. Resolved(p) \in SomePhone
    BY DEF Resolved
  <2>2. requests < MaxRequests
    BY <1>2 DEF CallFor, MayCall
  <2>3. CASE credentials
    BY <1>1, <1>2, <2>1, <2>2, <2>3 DEF CallFor
  <2>4. CASE ~credentials
    BY <1>2, <2>1, <2>4 DEF CallFor
  <2> QED
    BY <2>3, <2>4
<1>3. ASSUME VerifyPassword(t) PROVE LoginTypeOK'
  <2>1. NoPhone \in SomePhone
    BY DEF SomePhone
  <2> QED
    BY <1>1, <1>3, <2>1 DEF VerifyPassword, MayCall
<1>4. ASSUME SyncChannels(t) PROVE LoginTypeOK'
  <2>1. NoPhone \in SomePhone
    BY DEF SomePhone
  <2> QED
    BY <1>1, <1>4, <2>1 DEF SyncChannels, MayCall
<1> QED
  BY <1>2, <1>3, <1>4 DEF Request, RequestCode, VerifyCode

LEMMA AnswerTyped ==
    ASSUME LoginTypeOK, NEW t \in Threads, Answer(t)
    PROVE  LoginTypeOK'
<1> USE DEF LoginTypeOK, Status, loginHistory
<1>0. NoPhone \in SomePhone
  BY DEF SomePhone
<1>1. Answered(t) => calls' \in [Threads -> Call \cup {NoCall}]
  BY DEF Answered
<1>2. ASSUME Connected
      PROVE  account' \in [status : Status, hash : SomePhone] /\ phone' \in SomePhone
  <2>1. account' = [status |-> "CONNECTED", hash |-> NoPhone] /\ phone' = NoPhone
    BY <1>2 DEF Connected
  <2> QED
    BY <1>0, <2>1
<1>3. ASSUME CodeSent(t) PROVE LoginTypeOK'
  <2>1. calls[t].phone \in SomePhone
    BY <1>3, CallTypes DEF CodeSent
  <2> QED
    BY <1>1, <1>3, <2>1 DEF CodeSent
<1>4. ASSUME CallRefused(t) PROVE LoginTypeOK'
  BY <1>1, <1>4 DEF CallRefused, Refused
<1>5. ASSUME SignedIn(t) PROVE LoginTypeOK'
  <2>1. /\ account' \in [status : Status, hash : SomePhone] /\ phone' \in SomePhone
        /\ calls' \in [Threads -> Call \cup {NoCall}] /\ session' = "authorized"
        /\ UNCHANGED <<credentials, requests, tangled, revoked>>
    BY <1>1, <1>2, <1>5 DEF SignedIn
  <2> QED
    BY <2>1
<1>6. ASSUME PasswordWanted(t) PROVE LoginTypeOK'
  BY <1>1, <1>6 DEF PasswordWanted
<1>7. ASSUME DialogsListed(t) PROVE LoginTypeOK'
  BY <1>1, <1>7 DEF DialogsListed
<1>8. ASSUME CallBreaks(t) PROVE LoginTypeOK'
  BY <1>1, <1>8 DEF CallBreaks
<1> QED
  BY <1>3, <1>4, <1>5, <1>6, <1>7, <1>8 DEF Answer

LEMMA LoginTyped == LoginTypeOK /\ [LoginNext]_loginVars => LoginTypeOK'
<1> SUFFICES ASSUME LoginTypeOK, [LoginNext]_loginVars PROVE LoginTypeOK'
  OBVIOUS
<1>0. NoPhone \in SomePhone /\ Phones \subseteq SomePhone
  BY DEF SomePhone
<1>1. ASSUME NEW p \in Phones, Configure(p) PROVE LoginTypeOK'
  BY <1>0, <1>1 DEF Configure, LoginTypeOK, Status
<1>2. ASSUME Credentials PROVE LoginTypeOK'
  BY <1>2 DEF Credentials, LoginTypeOK, loginHistory
<1>3. ASSUME Disconnect PROVE LoginTypeOK'
  BY <1>0, <1>3 DEF Disconnect, LoginTypeOK, Status
<1>4. ASSUME Restart PROVE LoginTypeOK'
  BY <1>0, <1>4 DEF Restart, LoginTypeOK, loginHistory
<1>5. ASSUME Revoke PROVE LoginTypeOK'
  BY <1>5 DEF Revoke, LoginTypeOK
<1>6. CASE UNCHANGED loginVars
  BY <1>6 DEF loginVars, loginHistory, LoginTypeOK
<1> QED
  BY <1>1, <1>2, <1>3, <1>4, <1>5, <1>6, RequestTyped, AnswerTyped DEF LoginNext

-------------------------------------------------------------------------------
(***************************************************************************)
(* The login: its invariants.                                              *)
(***************************************************************************)

\* No two calls are under way, and a call leads to no status CODE_SENT but
\* with the hash of a phone that is still the one in memory.
OneByOne ==
    /\ \A s, t \in Threads : calls[s] # NoCall /\ calls[t] # NoCall => s = t
    /\ \A t \in Threads :
          /\ calls[t].kind = "code" => phone \in {NoPhone, calls[t].phone}
          /\ calls[t].kind = "dialogs" => account.status # "CODE_SENT"
    /\ ~Busy /\ account.status = "CODE_SENT" => phone \in {NoPhone, account.hash}

LoginInv == LoginTypeOK /\ ConnectedIsAuthorized /\ (tangled \/ OneByOne)

LEMMA LoginInitInv == LoginInit => LoginInv
<1> SUFFICES ASSUME LoginInit PROVE LoginInv
  OBVIOUS
<1>1. \A t \in Threads : calls[t] = NoCall
  BY DEF LoginInit
<1>2. LoginTypeOK
  <2>1. calls \in [Threads -> Call \cup {NoCall}]
    BY DEF LoginInit
  <2>2. requests \in 0..MaxRequests
    BY RequestBound DEF LoginInit
  <2>3. account \in [status : Status, hash : SomePhone] /\ phone \in SomePhone
    BY DEF LoginInit, Status, SomePhone
  <2> QED
    BY <2>1, <2>2, <2>3 DEF LoginInit, LoginTypeOK
<1>3. OneByOne
  BY <1>1, CallTypes DEF LoginInit, OneByOne
<1> QED
  BY <1>2, <1>3 DEF LoginInit, LoginInv, ConnectedIsAuthorized

\* Only an accepted sign-in, by code or by password, ends in CONNECTED.
LEMMA ConnectedStep ==
    ASSUME LoginTypeOK, ConnectedIsAuthorized, [LoginNext]_loginVars
    PROVE  ConnectedIsAuthorized'
<1> USE DEF ConnectedIsAuthorized, Authorized, loginHistory
<1>1. ASSUME NEW t \in Threads, Request(t) PROVE ConnectedIsAuthorized'
  BY <1>1 DEF Request, RequestCode, VerifyCode, CallFor, VerifyPassword, SyncChannels
<1>2. ASSUME NEW t \in Threads, Answer(t) PROVE ConnectedIsAuthorized'
  <2>1. account \in [status : Status, hash : SomePhone]
    BY DEF LoginTypeOK
  <2>2. CASE SignedIn(t)
    BY <2>2 DEF SignedIn
  <2>3. CASE CodeSent(t)
    BY <2>3 DEF CodeSent
  <2>4. CASE CallRefused(t) \/ PasswordWanted(t)
    BY <2>1, <2>4 DEF CallRefused, Refused, PasswordWanted
  <2>5. CASE DialogsListed(t) \/ CallBreaks(t)
    BY <2>5 DEF DialogsListed, CallBreaks
  <2> QED
    BY <1>2, <2>2, <2>3, <2>4, <2>5 DEF Answer
<1>3. ASSUME NEW p \in Phones, Configure(p) PROVE ConnectedIsAuthorized'
  BY <1>3 DEF Configure, LoginTypeOK
<1>4. CASE UNCHANGED loginVars
  BY <1>4 DEF loginVars
<1> QED
  BY <1>1, <1>2, <1>3, <1>4
     DEF LoginNext, Credentials, Disconnect, Restart, Revoke

LEMMA OneByOneStep ==
    ASSUME LoginTypeOK, tangled \/ OneByOne, [LoginNext]_loginVars, ~tangled'
    PROVE  OneByOne'
<1> USE CallTypes
<1>0. tangled \in BOOLEAN
  BY DEF LoginTypeOK
<1>1. ASSUME NEW t \in Threads, NEW kind, NEW p, Make(t, kind, p), ~tangled,
             kind = "code" => phone' = p,
             kind = "dialogs" => account.status # "CODE_SENT",
             UNCHANGED account
      PROVE  OneByOne'
  <2> DEFINE q == [kind |-> kind, phone |-> p, hash |-> account.hash]
  <2>1. ~Busy /\ calls' = [calls EXCEPT ![t] = q]
    BY <1>1 DEF Make
  <2>2. \A s \in Threads : calls'[s] = IF s = t THEN q ELSE NoCall
    BY <2>1 DEF Busy, LoginTypeOK
  <2>3. q # NoCall /\ q.kind = kind /\ q.phone = p
    BY DEF NoCall
  <2> HIDE DEF q
  <2>4. Busy'
    BY <2>2, <2>3 DEF Busy
  <2> QED
    BY <1>1, <2>2, <2>3, <2>4 DEF OneByOne
<1>2. ASSUME NEW t \in Threads, Request(t), ~tangled, OneByOne PROVE OneByOne'
  <2>1. ASSUME NEW kind \in {"code", "verify"}, NEW p \in SomePhone, CallFor(t, kind, p)
        PROVE  OneByOne'
    <3>1. Make(t, kind, Resolved(p)) /\ phone' = Resolved(p) /\ UNCHANGED account
      BY <2>1 DEF CallFor
    <3> QED
      BY <3>1, <1>1, <1>2
  <2>2. CASE VerifyPassword(t)
    <3>1. Make(t, "password", NoPhone) /\ UNCHANGED account
      BY <2>2 DEF VerifyPassword
    <3> QED
      BY <3>1, <1>1, <1>2
  <2>3. CASE SyncChannels(t)
    <3>1. Make(t, "dialogs", NoPhone) /\ UNCHANGED account /\ account.status = "CONNECTED"
      BY <2>3 DEF SyncChannels
    <3> QED
      BY <3>1, <1>1, <1>2
  <2> QED
    BY <1>2, <2>1, <2>2, <2>3 DEF Request, RequestCode, VerifyCode
<1>3. ASSUME NEW t \in Threads, Answered(t), calls[t] # NoCall, OneByOne,
             account'.status = "CODE_SENT" => phone' \in {NoPhone, account'.hash}
      PROVE  OneByOne'
  <2>1. \A s \in Threads : calls[s] # NoCall => s = t
    BY <1>3 DEF OneByOne
  <2>2. \A s \in Threads : calls'[s] = NoCall
    BY <1>3, <2>1 DEF Answered, LoginTypeOK
  <2> QED
    BY <1>3, <2>2 DEF OneByOne
<1>4. ASSUME NEW t \in Threads, Answer(t), ~tangled, OneByOne PROVE OneByOne'
  <2>1. account \in [status : Status, hash : SomePhone]
    BY DEF LoginTypeOK
  <2>2. CASE CodeSent(t)
    <3>1. /\ calls[t].kind = "code" /\ Answered(t) /\ UNCHANGED phone
          /\ account' = [status |-> "CODE_SENT", hash |-> calls[t].phone]
      BY <2>2 DEF CodeSent
    <3> QED
      BY <1>3, <1>4, <3>1 DEF OneByOne
  <2>3. CASE CallRefused(t)
    BY <1>3, <1>4, <2>1, <2>3 DEF CallRefused, Refused
  <2>4. CASE SignedIn(t)
    BY <1>3, <1>4, <2>4 DEF SignedIn, Connected
  <2>5. CASE PasswordWanted(t)
    <3>1. /\ calls[t].kind = "verify" /\ Answered(t)
          /\ account'.status = "TWO_FACTOR_REQUIRED"
      BY <2>1, <2>5 DEF PasswordWanted
    <3> QED
      BY <1>3, <1>4, <3>1
  <2>6. CASE DialogsListed(t)
    <3>1. calls[t].kind = "dialogs" /\ Answered(t) /\ UNCHANGED account
      BY <2>6 DEF DialogsListed
    <3> QED
      BY <1>3, <1>4, <3>1 DEF OneByOne
  <2>7. ~CallBreaks(t)
    BY DEF CallBreaks
  <2> QED
    BY <1>4, <2>2, <2>3, <2>4, <2>5, <2>6, <2>7 DEF Answer
<1>5. ASSUME NEW p \in Phones, Configure(p) PROVE OneByOne'
  <2>1. ~Busy /\ UNCHANGED calls /\ account'.status # "CODE_SENT"
    BY <1>5 DEF Configure, LoginTypeOK
  <2>2. \A t \in Threads : calls'[t] = NoCall
    BY <2>1 DEF Busy
  <2> QED
    BY <2>1, <2>2 DEF OneByOne
<1>6. ASSUME Disconnect PROVE OneByOne'
  <2>1. ~Busy /\ UNCHANGED calls /\ account'.status # "CODE_SENT"
    BY <1>6 DEF Disconnect
  <2>2. \A t \in Threads : calls'[t] = NoCall
    BY <2>1 DEF Busy
  <2> QED
    BY <2>1, <2>2 DEF OneByOne
<1>7. ASSUME Restart PROVE OneByOne'
  <2>1. phone' = NoPhone /\ \A t \in Threads : calls'[t] = NoCall
    BY <1>7 DEF Restart
  <2> QED
    BY <2>1 DEF OneByOne
<1>8. ASSUME UNCHANGED <<account, phone, calls>>, OneByOne PROVE OneByOne'
  BY <1>8 DEF OneByOne, Busy
<1>9. ~tangled => OneByOne
  OBVIOUS
<1>10. CASE UNCHANGED loginVars
  BY <1>8, <1>9, <1>10 DEF loginVars, loginHistory
<1>11. CASE LoginNext
  <2>1. ~tangled
    <3>1. ASSUME NEW t \in Threads, Request(t) PROVE ~tangled
      BY <3>1 DEF Request, RequestCode, VerifyCode, CallFor, VerifyPassword,
                  SyncChannels, Make
    <3>2. ASSUME NEW t \in Threads, Answer(t) PROVE ~tangled
      BY <3>2 DEF Answer, CodeSent, CallRefused, SignedIn, PasswordWanted,
                  DialogsListed, CallBreaks, loginHistory
    <3> QED
      BY <1>11, <3>1, <3>2
         DEF LoginNext, Configure, Credentials, Disconnect, Restart, Revoke, loginHistory
  <2>2. Credentials \/ Revoke => UNCHANGED <<account, phone, calls>>
    BY DEF Credentials, Revoke
  <2> QED
    BY <1>2, <1>4, <1>5, <1>6, <1>7, <1>8, <1>9, <1>11, <2>1, <2>2 DEF LoginNext
<1> QED
  BY <1>10, <1>11

LEMMA LoginNextInv == LoginInv /\ [LoginNext]_loginVars => LoginInv'
BY LoginTyped, ConnectedStep, OneByOneStep DEF LoginInv

LEMMA NextLogin == [Next]_vars => [LoginNext]_loginVars
BY DEF Next, vars

LEMMA SpecLogin == Spec => []LoginInv
<1>1. Init => LoginInv
  BY LoginInitInv DEF Init
<1>2. LoginInv /\ [Next]_vars => LoginInv'
  BY LoginNextInv, NextLogin
<1> QED
  BY <1>1, <1>2, PTL DEF Spec

\* The status CONNECTED is written only over an authorized session, whatever
\* answers overlap, and stays true until the user ends that session from
\* another device (set_telegram_connected).
THEOREM HookConnectedIsAuthorized == Spec => []ConnectedIsAuthorized
<1>1. LoginInv => ConnectedIsAuthorized
  BY DEF LoginInv
<1> QED
  BY <1>1, SpecLogin, PTL

\* As long as the requests of a login came one after the other, the code that
\* is waited for is the code of the phone in memory (_auth_phone).
THEOREM HookCodeIsForPhone == Spec => []CodeIsForPhone
<1>1. LoginInv => CodeIsForPhone
  BY DEF LoginInv, OneByOne, CodeIsForPhone
<1> QED
  BY <1>1, SpecLogin, PTL

-------------------------------------------------------------------------------
(***************************************************************************)
(* The hook: types.                                                        *)
(***************************************************************************)

WorkerState == {"STARTING", "CONNECTING", "CONNECTED", "ERROR", "RECONNECTING"}
Ensuring == {"boot", "start", "monitor"}

\* Why the loop is where it is.
Reasons ==
    /\ loop.at \in {"ensure", "starting"} => loop.why \in Ensuring
    /\ loop.at = "join" => IF loop.late THEN loop.why \in Ensuring
                                       ELSE loop.why \in {"monitor", "stop"}

HookTyped ==
    /\ loop \in Loop /\ Reasons
    /\ active \subseteq Routes
    /\ bridge \in Bridge
    /\ listener \in [Listeners -> Listener]
    /\ set \subseteq Listeners
    /\ worker \in WorkerState
    /\ slow \in 0..MaxSlow /\ faults \in 0..MaxFaults

LEMMA AtType ==
    ASSUME NEW at \in {"down", "idle", "ensure", "starting", "join"},
           NEW why \in {"none", "boot", "start", "stop", "monitor"}
    PROVE  /\ At(at, why) \in Loop /\ At(at, why).at = at /\ At(at, why).why = why
           /\ ~At(at, why).late /\ At(at, why).route = NoRoute
BY DEF At, Loop

LEMMA Numbers ==
    /\ 0 \in 0..MaxListeners /\ 0 \in 0..MaxSlow /\ 0 \in 0..MaxFaults
    /\ \A l \in Listeners : l \in 0..MaxListeners /\ l # 0
    /\ \A n \in 0..MaxListeners : n # 0 => n \in Listeners
    /\ \A n \in 0..MaxSlow : n < MaxSlow => n + 1 \in 0..MaxSlow /\ n + 1 # 0
    /\ \A n \in 0..MaxFaults : n < MaxFaults => n + 1 \in 0..MaxFaults
BY ListenerBound, SlowBound, FaultBound DEF Listeners

LEMMA NewTypes ==
    /\ NewBridge \in Bridge /\ NoListener \in Listener
    /\ NewBridge.client = 0 /\ NewBridge.thread = 0 /\ NoListener.at = "none"
BY Numbers DEF NewBridge, Bridge, NoListener, Listener

\* What the caller of ensure_started makes of its answer.
LEMMA ResultType ==
    ASSUME HookTyped, NEW error \in BOOLEAN, loop.why \in Ensuring, Result(error)
    PROVE  /\ loop' \in Loop /\ loop'.at = "idle" /\ ~loop'.late
           /\ active' = IF error THEN active \ {loop.route} ELSE active
           /\ worker' \in WorkerState
<1>1. worker' \in WorkerState
  <2>1. CASE loop.why = "boot"
    <3>1. CASE error
      BY <2>1, <3>1 DEF Result, WorkerState
    <3>2. CASE ~error
      BY <2>1, <3>2 DEF Result, WorkerState
    <3> QED
      BY <3>1, <3>2
  <2>2. CASE loop.why = "monitor"
    <3>1. CASE error
      BY <2>2, <3>1 DEF Result, WorkerState
    <3>2. CASE ~error
      BY <2>2, <3>2 DEF Result, WorkerState
    <3> QED
      BY <3>1, <3>2
  <2>3. CASE loop.why = "start"
    BY <2>3 DEF Result, WorkerState, HookTyped
  <2> QED
    BY <2>1, <2>2, <2>3 DEF Ensuring
<1>2. loop' = At("idle", "none") /\ active' = IF error THEN active \ {loop.route} ELSE active
  BY DEF Result
<1> QED
  BY <1>1, <1>2, AtType

LEMMA SignalType == ASSUME HookTyped, Signal PROVE set' \subseteq Listeners
<1>1. bridge.event \in 0..MaxListeners /\ set \subseteq Listeners
  BY DEF HookTyped, Bridge
<1>2. set' \subseteq set \cup {bridge.event} /\ (bridge.event = 0 => set' = set)
  BY DEF Signal
<1> QED
  BY <1>1, <1>2, Numbers

LEMMA LoopAt ==
    ASSUME HookTyped, NEW at \in {"down", "idle", "ensure", "starting", "join"}
    PROVE  /\ [loop EXCEPT !.at = at] \in Loop
           /\ [loop EXCEPT !.at = at].at = at
           /\ [loop EXCEPT !.at = at].why = loop.why
           /\ [loop EXCEPT !.at = at].late = loop.late
           /\ [loop EXCEPT !.at = at].route = loop.route
BY DEF HookTyped, Loop

LEMMA BridgeError ==
    ASSUME HookTyped
    PROVE  LET b == [bridge EXCEPT !.error = TRUE] IN
           /\ b \in Bridge /\ b.error /\ b.startup = bridge.startup
           /\ b.thread = bridge.thread /\ b.loop = bridge.loop
           /\ b.client = bridge.client /\ b.event = bridge.event
BY DEF HookTyped, Bridge

\* The answer of ensure_started without a new thread.
LEMMA AnswerTypes ==
    ASSUME HookTyped, EnsureFinds \/ EnsureRefuses \/ Started
    PROVE  HookTyped'
<1>1. loop.why \in Ensuring
  BY DEF EnsureFinds, EnsureRefuses, Started, HookTyped, Reasons
<1>2. bridge.error \in BOOLEAN /\ (bridge.client = 0 /\ bridge.error) \in BOOLEAN
  BY DEF HookTyped, Bridge
<1>3. PICK error \in BOOLEAN : Result(error)
  BY <1>2 DEF EnsureFinds, EnsureRefuses, Started
<1>4. bridge' \in Bridge /\ UNCHANGED <<listener, set, hookHistory>>
  BY BridgeError DEF EnsureFinds, EnsureRefuses, Started, HookTyped
<1>5. /\ loop' \in Loop /\ loop'.at = "idle" /\ worker' \in WorkerState
      /\ active' \subseteq active
  BY <1>1, <1>3, ResultType
<1> QED
  BY <1>4, <1>5 DEF HookTyped, Reasons, hookHistory

LEMMA EnsureStartsType == ASSUME HookTyped, EnsureStarts PROVE HookTyped'
<1> DEFINE l == CHOOSE n \in Free : TRUE
<1>1. l \in Free
  BY DEF EnsureStarts
<1>2. /\ listener' = [listener EXCEPT ![l] = [at |-> "born", ours |-> TRUE, event |-> 0]]
      /\ bridge' = [bridge EXCEPT !.thread = l, !.startup = FALSE, !.error = FALSE]
      /\ set' = set \ {l} /\ loop' = [loop EXCEPT !.at = "starting"]
      /\ loop.at = "ensure" /\ UNCHANGED <<active, worker, hookHistory>>
  BY DEF EnsureStarts
<1> HIDE DEF l
<1>3. l \in Listeners /\ l \in 0..MaxListeners
  BY <1>1, Numbers DEF Free
<1>4. listener' \in [Listeners -> Listener]
  <2>1. [at |-> "born", ours |-> TRUE, event |-> 0] \in Listener
    BY Numbers DEF Listener
  <2> QED
    BY <1>2, <2>1 DEF HookTyped
<1>5. bridge' \in Bridge
  BY <1>2, <1>3 DEF HookTyped, Bridge
<1>6. loop' \in Loop /\ Reasons'
  BY <1>2, LoopAt DEF HookTyped, Reasons
<1> QED
  BY <1>2, <1>4, <1>5, <1>6 DEF HookTyped, hookHistory

LEMMA StartLateType == ASSUME HookTyped, StartLate PROVE HookTyped'
<1>1. /\ loop.at = "starting" /\ slow < MaxSlow /\ slow' = slow + 1
      /\ bridge' = [bridge EXCEPT !.error = TRUE] /\ Signal
      /\ loop' = [loop EXCEPT !.at = "join", !.late = TRUE]
      /\ UNCHANGED <<active, listener, worker, faults>>
  BY DEF StartLate
<1>2. loop' \in Loop /\ Reasons'
  BY <1>1 DEF HookTyped, Loop, Reasons
<1> QED
  BY <1>1, <1>2, BridgeError, SignalType, Numbers DEF HookTyped

\* What becomes of the client threads when the bridge is shut down.
LEMMA ShutListener ==
    ASSUME HookTyped, Shut
    PROVE  /\ listener' \in [Listeners -> Listener]
           /\ \A l \in Listeners : listener'[l].at = listener[l].at
<1> DEFINE e(l) == IF listener[l].ours /\ listener[l].at = "ready"
                   THEN 0 ELSE listener[l].event
           q(l) == [listener[l] EXCEPT !.ours = listener[l].ours /\ loop.late,
                                       !.event = e(l)]
<1>1. listener' = [l \in Listeners |-> q(l)]
  BY DEF Shut
<1>2. ASSUME NEW l \in Listeners PROVE q(l) \in Listener /\ q(l).at = listener[l].at
  <2>1. listener[l] \in Listener
    BY DEF HookTyped
  <2>2. e(l) \in 0..MaxListeners
    BY <2>1, Numbers DEF Listener
  <2>3. (listener[l].ours /\ loop.late) \in BOOLEAN
    BY Zenon
  <2>4. ASSUME NEW b \in BOOLEAN, NEW n \in 0..MaxListeners
        PROVE  /\ [listener[l] EXCEPT !.ours = b, !.event = n] \in Listener
               /\ [listener[l] EXCEPT !.ours = b, !.event = n].at = listener[l].at
    BY <2>1 DEF Listener
  <2> HIDE DEF e
  <2> QED
    BY <2>2, <2>3, <2>4, Zenon
<1> HIDE DEF q
<1> QED
  BY <1>1, <1>2

LEMMA ShutType == ASSUME HookTyped, loop.at = "join", Shut, slow' \in 0..MaxSlow PROVE HookTyped'
<1>1. bridge' \in Bridge
  <2>1. bridge.startup \in BOOLEAN /\ bridge.error \in BOOLEAN
    BY DEF HookTyped, Bridge
  <2>2. [NewBridge EXCEPT !.startup = bridge.startup, !.error = bridge.error] \in Bridge
    BY <2>1, NewTypes DEF Bridge
  <2> QED
    BY <2>2, NewTypes DEF Shut
<1>2. set' \subseteq Listeners /\ UNCHANGED faults
  BY DEF Shut, HookTyped
<1>3. /\ loop' \in Loop /\ Reasons'
      /\ active' \subseteq Routes /\ worker' \in WorkerState
  <2>0. loop.late \in BOOLEAN
    BY DEF HookTyped, Loop
  <2>1. CASE loop.late
    <3>1. Result(TRUE) /\ loop.why \in Ensuring
      BY <2>1 DEF Shut, HookTyped, Reasons
    <3> QED
      BY <3>1, ResultType DEF HookTyped, Reasons
  <2>2. CASE ~loop.late /\ loop.why = "monitor"
    <3>1. loop' = [loop EXCEPT !.at = "ensure"] /\ UNCHANGED <<active, worker>>
      BY <2>2 DEF Shut
    <3> QED
      BY <2>2, <3>1, LoopAt DEF HookTyped, Reasons, Ensuring
  <2>3. CASE ~loop.late /\ loop.why = "stop"
    <3>1. loop' = At("idle", "none") /\ UNCHANGED <<active, worker>>
      BY <2>3 DEF Shut
    <3> QED
      BY <3>1, AtType DEF HookTyped, Reasons
  <2> QED
    BY <2>0, <2>1, <2>2, <2>3 DEF HookTyped, Reasons
<1> QED
  BY <1>1, <1>2, <1>3, ShutListener DEF HookTyped

LEMMA CommandTypes ==
    ASSUME HookTyped,
           Boot \/ Monitor \/ Exit \/ \E r \in Routes : StartRoute(r) \/ StopRoute(r)
    PROVE  HookTyped'
<1>1. CASE Boot
  BY <1>1, AtType DEF Boot, HookTyped, Reasons, Ensuring, WorkerState, hookHistory
<1>2. CASE Monitor
  <2>1. CASE bridge.client # 0
    BY <1>2, <2>1 DEF Monitor, HookTyped, Reasons, WorkerState, hookHistory
  <2>2. CASE bridge.client = 0
    <3>1. /\ worker' = "RECONNECTING" /\ Signal /\ loop' = At("join", "monitor")
          /\ UNCHANGED <<active, bridge, listener, hookHistory>>
      BY <1>2, <2>2 DEF Monitor
    <3> QED
      BY <3>1, AtType, SignalType DEF HookTyped, Reasons, WorkerState, hookHistory
  <2> QED
    BY <2>1, <2>2
<1>3. CASE Exit
  <2>1. [l \in Listeners |-> NoListener] \in [Listeners -> Listener]
    BY NewTypes
  <2> QED
    BY <1>3, <2>1, AtType, NewTypes DEF Exit, HookTyped, Reasons, WorkerState, hookHistory
<1>4. ASSUME NEW r \in Routes, StartRoute(r) PROVE HookTyped'
  <2>1. loop' = [At("ensure", "start") EXCEPT !.route = r]
    BY <1>4 DEF StartRoute
  <2>2. loop' \in Loop /\ loop'.at = "ensure" /\ loop'.why = "start"
    BY <2>1 DEF At, Loop
  <2> QED
    BY <1>4, <2>2 DEF StartRoute, HookTyped, Reasons, Ensuring, hookHistory
<1>5. ASSUME NEW r \in Routes, StopRoute(r) PROVE HookTyped'
  <2>1. CASE active' = {}
    BY <1>5, <2>1, AtType, SignalType DEF StopRoute, HookTyped, Reasons, hookHistory
  <2>2. CASE active' # {}
    BY <1>5, <2>2 DEF StopRoute, HookTyped, Reasons, hookHistory
  <2> QED
    BY <2>1, <2>2
<1> QED
  BY <1>1, <1>2, <1>3, <1>4, <1>5

\* What a client thread writes.
LEMMA WritesType ==
    ASSUME HookTyped, NEW l \in Listeners, NEW b \in Bridge, Writes(l, b)
    PROVE  bridge' \in Bridge
BY DEF Writes, HookTyped

LEMMA ListenerGoes ==
    ASSUME HookTyped, NEW l \in Listeners,
           NEW at \in {"none", "born", "connecting", "ready", "up", "ending"}, Goto(l, at)
    PROVE  /\ listener' \in [Listeners -> Listener]
           /\ listener' = [listener EXCEPT ![l] = listener'[l]]
           /\ listener'[l].at = at
           /\ listener'[l].ours = listener[l].ours
           /\ listener'[l].event = listener[l].event
BY DEF HookTyped, Listener, Goto

LEMMA ListenerAwaits ==
    ASSUME HookTyped, NEW l \in Listeners,
           NEW at \in {"none", "born", "connecting", "ready", "up", "ending"},
           NEW e \in 0..MaxListeners,
           listener' = [listener EXCEPT ![l].at = at, ![l].event = e]
    PROVE  /\ listener' \in [Listeners -> Listener]
           /\ listener' = [listener EXCEPT ![l] = listener'[l]]
           /\ listener'[l].at = at
           /\ listener'[l].ours = listener[l].ours
           /\ listener'[l].event = e
BY DEF HookTyped, Listener

LEMMA ThreadTypes ==
    ASSUME HookTyped, NEW l \in Listeners, ListenerStep(l) \/ Broken(l)
    PROVE  HookTyped'
<1>0. bridge \in Bridge /\ listener[l] \in Listener /\ l \in 0..MaxListeners
  BY Numbers DEF HookTyped
<1>1. CASE Open(l)
  <2>1. [bridge EXCEPT !.loop = l] \in Bridge
    BY <1>0 DEF Bridge
  <2> QED
    BY <1>1, <2>1, ListenerGoes, WritesType DEF Open, HookTyped, Reasons, hookHistory
<1>2. CASE Connect(l)
  <2>1. [bridge EXCEPT !.client = l, !.event = l] \in Bridge
    BY <1>0 DEF Bridge
  <2> QED
    BY <1>0, <1>2, <2>1, ListenerAwaits, WritesType
       DEF Connect, HookTyped, Reasons, hookHistory
<1>3. CASE Announce(l)
  <2> DEFINE e == IF listener[l].ours THEN bridge.event ELSE listener[l].event
             at == IF e = 0 THEN "ending" ELSE "up"
  <2>1. e \in 0..MaxListeners
    BY <1>0 DEF Bridge, Listener
  <2>2. /\ listener' = [listener EXCEPT ![l].at = at, ![l].event = e]
        /\ Writes(l, [bridge EXCEPT !.startup = TRUE, !.error = bridge.error \/ e = 0])
        /\ UNCHANGED <<loop, active, set, worker, hookHistory>>
    BY <1>3 DEF Announce
  <2>3. (bridge.error \/ e = 0) \in BOOLEAN
    BY Zenon
  <2>4. ASSUME NEW b \in BOOLEAN
        PROVE  [bridge EXCEPT !.startup = TRUE, !.error = b] \in Bridge
    BY <1>0 DEF Bridge
  <2>5. [bridge EXCEPT !.startup = TRUE, !.error = bridge.error \/ e = 0] \in Bridge
    BY <2>3, <2>4, Zenon
  <2>6. bridge' \in Bridge
    BY <2>2, <2>5, Zenon DEF Writes, HookTyped
  <2>7. listener' \in [Listeners -> Listener]
    BY <2>1, <2>2, ListenerAwaits
  <2> HIDE DEF e
  <2> QED
    BY <2>2, <2>6, <2>7 DEF HookTyped, Reasons, hookHistory
<1>4. ASSUME Fail(l), slow' = slow, faults' \in 0..MaxFaults PROVE HookTyped'
  <2>1. [bridge EXCEPT !.error = TRUE, !.startup = TRUE] \in Bridge
    BY <1>0 DEF Bridge
  <2> QED
    BY <1>4, <2>1, ListenerGoes, WritesType DEF Fail, HookTyped, Reasons
<1>5. CASE Unauthorized(l)
  BY <1>4, <1>5 DEF Unauthorized, HookTyped, hookHistory
<1>6. CASE Broken(l)
  BY <1>4, <1>6, Numbers DEF Broken, HookTyped
<1>7. CASE Leave(l)
  <2>1. [bridge EXCEPT !.client = 0, !.loop = 0] \in Bridge
    BY <1>0, Numbers DEF Bridge
  <2> QED
    BY <1>7, <2>1, NewTypes, WritesType DEF Leave, HookTyped, Reasons, hookHistory
<1> QED
  BY <1>1, <1>2, <1>3, <1>5, <1>6, <1>7 DEF ListenerStep

LEMMA HookNextTyped == HookTyped /\ [HookNext]_hookVars => HookTyped'
<1> SUFFICES ASSUME HookTyped, [HookNext]_hookVars PROVE HookTyped'
  OBVIOUS
<1>1. CASE UNCHANGED hookVars
  BY <1>1 DEF hookVars, hookHistory, HookTyped, Reasons
<1>2. CASE Joined
  BY <1>2, ShutType DEF Joined, HookTyped
<1>3. CASE JoinLate
  BY <1>3, ShutType, Numbers DEF JoinLate, HookTyped
<1> QED
  BY <1>1, <1>2, <1>3, AnswerTypes, EnsureStartsType, StartLateType, CommandTypes,
     ThreadTypes
     DEF HookNext, LoopStep

LEMMA InitHookTyped == Init => HookTyped
<1>1. Init => listener \in [Listeners -> Listener]
  BY NewTypes DEF Init
<1> QED
  BY <1>1, AtType, NewTypes, Numbers DEF Init, HookTyped, Reasons, WorkerState

-------------------------------------------------------------------------------
(***************************************************************************)
(* The hook while no wait has timed out.                                   *)
(***************************************************************************)

Goes(l) == listener[l].at # "none"

\* A client thread that lives is the bridge's, and the bridge is the manager's;
\* its fields say how far the thread has come.
Known ==
    \A l \in Listeners :
        /\ Goes(l) => l = bridge.thread /\ listener[l].ours
        /\ listener[l].at \in {"connecting", "ready", "up"} => bridge.loop = l
        /\ Up(l) => bridge.client = l /\ bridge.event = l /\ listener[l].event = l
        /\ listener[l].at = "ending" => bridge.error
        /\ bridge.client = l => Up(l)
        /\ listener[l].at \in {"born", "connecting", "ready"} =>
              loop.at = "starting" /\ ~bridge.startup

\* Only a shutdown tells a thread to leave.
Told ==
    \A l \in Listeners :
        IF loop.at = "join" THEN listener[l].at = "up" => l \in set
                            ELSE Goes(l) => l \notin set

\* What the loop has done so far.
Heard ==
    /\ ~loop.late
    /\ loop.at = "starting" =>
          /\ active \subseteq {loop.route}
          /\ bridge.error \/ \E l \in Listeners : Goes(l)
    /\ loop.at = "ensure" => active \subseteq {loop.route} \/ bridge.client # 0
    /\ loop.at = "idle" => active = {} \/ bridge.client # 0
    /\ loop.at = "join" => active = {} /\ loop.why = "stop"
    /\ loop.at = "down" => active = {}

Calm == Known /\ Told /\ Heard

HookInv == HookTyped /\ (slow # 0 \/ Calm)

LEMMA InitCalm == Init => Calm
<1> SUFFICES ASSUME Init PROVE Calm
  OBVIOUS
<1>1. \A l \in Listeners : listener[l].at = "none"
  BY DEF Init, NoListener
<1>2. bridge.client = 0 /\ \A l \in Listeners : bridge.client # l
  BY NewTypes, Numbers DEF Init
<1>3. Known /\ Told
  BY <1>1, <1>2 DEF Known, Told, Goes, Up
<1>4. Heard
  BY AtType DEF Init, Heard
<1> QED
  BY <1>3, <1>4 DEF Calm

\* An answer of ensure_started: with a route left to hear somebody listens.
LEMMA AnswerCalm ==
    ASSUME HookTyped, Calm, EnsureFinds \/ EnsureRefuses \/ Started
    PROVE  Calm'
<1>1. loop.why \in Ensuring /\ loop.at \in {"ensure", "starting"}
  BY DEF EnsureFinds, EnsureRefuses, Started, HookTyped, Reasons
<1>2. bridge.error \in BOOLEAN /\ (bridge.client = 0 /\ bridge.error) \in BOOLEAN
  BY DEF HookTyped, Bridge
<1>3. /\ UNCHANGED <<listener, set>>
      /\ bridge'.thread = bridge.thread /\ bridge'.loop = bridge.loop
      /\ bridge'.client = bridge.client /\ bridge'.event = bridge.event
      /\ bridge'.startup = bridge.startup
      /\ bridge.error => bridge'.error
  BY BridgeError DEF EnsureFinds, EnsureRefuses, Started
<1>4. ASSUME NEW error \in BOOLEAN, Result(error)
      PROVE  /\ loop'.at = "idle" /\ ~loop'.late
             /\ active' = IF error THEN active \ {loop.route} ELSE active
  BY <1>1, <1>4, ResultType
<1>5. \A l \in Listeners :
         listener[l].at \in {"born", "connecting", "ready"}
             => loop.at = "starting" /\ ~bridge.startup
  BY DEF Calm, Known
<1>6. bridge.client \in 0..MaxListeners /\ bridge.thread \in 0..MaxListeners
  BY DEF HookTyped, Bridge
<1>7. /\ loop'.at = "idle" /\ ~loop'.late
      /\ active' = {} \/ bridge.client # 0
      /\ \A l \in Listeners : listener[l].at \notin {"born", "connecting", "ready"}
  <2>1. CASE EnsureFinds
    <3>1. Result(bridge.client = 0 /\ bridge.error) /\ loop.at = "ensure"
      BY <2>1 DEF EnsureFinds
    <3>2. CASE bridge.client # 0
      <4>1. ~(bridge.client = 0 /\ bridge.error)
        BY <3>2
      <4> QED
        BY <1>2, <1>4, <1>5, <3>1, <3>2, <4>1
    <3>3. CASE bridge.client = 0
      <4>1. Goes(bridge.thread) /\ bridge.thread \in Listeners
        BY <1>6, <2>1, <3>3, Numbers DEF EnsureFinds, Alive, Goes
      <4>2. bridge.error
        <5>1. listener[bridge.thread].at \in {"ending"}
          BY <1>5, <3>1, <3>3, <4>1, Numbers DEF Calm, Known, Up, Goes, HookTyped, Listener
        <5> QED
          BY <4>1, <5>1 DEF Calm, Known
      <4>3. active \subseteq {loop.route}
        BY <3>1, <3>3 DEF Calm, Heard
      <4>4. (bridge.client = 0 /\ bridge.error) = TRUE
        BY <3>3, <4>2
      <4> QED
        BY <1>4, <1>5, <3>1, <4>3, <4>4
    <3> QED
      BY <3>2, <3>3
  <2>2. CASE EnsureRefuses
    <3>1. Result(TRUE) /\ loop.at = "ensure" /\ bridge.client = 0
      BY <2>2 DEF EnsureRefuses
    <3> QED
      BY <1>4, <1>5, <3>1 DEF Calm, Heard
  <2>3. CASE Started
    <3>1. Result(bridge.error) /\ loop.at = "starting" /\ bridge.startup
      BY <2>3 DEF Started
    <3>2. active \subseteq {loop.route}
      BY <3>1 DEF Calm, Heard
    <3>3. bridge.error \/ bridge.client # 0
      <4>1. SUFFICES ASSUME ~bridge.error PROVE bridge.client # 0
        OBVIOUS
      <4>2. PICK l \in Listeners : Goes(l)
        BY <3>1, <4>1 DEF Calm, Heard
      <4>3. listener[l].at = "up"
        BY <1>5, <3>1, <4>1, <4>2 DEF Calm, Known, Goes, HookTyped, Listener
      <4> QED
        BY <4>3, Numbers DEF Calm, Known, Up
    <3> QED
      BY <1>2, <1>4, <1>5, <3>1, <3>2, <3>3
  <2> QED
    BY <2>1, <2>2, <2>3
<1>8. Known'
  BY <1>3, <1>7 DEF Calm, Known, Goes, Up
<1>9. Told'
  BY <1>1, <1>3, <1>7 DEF Calm, Told, Goes
<1> QED
  BY <1>3, <1>7, <1>8, <1>9 DEF Calm, Heard

\* No thread goes that is not the bridge's.
LEMMA Nobody ==
    ASSUME HookTyped, Calm, ~Alive(bridge.thread), NEW l \in Listeners
    PROVE  ~Goes(l)
BY Numbers DEF Calm, Known, Alive, Goes

LEMMA EnsureStartsCalm == ASSUME HookTyped, Calm, EnsureStarts PROVE Calm'
<1> DEFINE n == CHOOSE m \in Free : TRUE
<1>1. n \in Listeners
  BY DEF EnsureStarts, Free
<1>2. /\ listener' = [listener EXCEPT ![n] = [at |-> "born", ours |-> TRUE, event |-> 0]]
      /\ bridge' = [bridge EXCEPT !.thread = n, !.startup = FALSE, !.error = FALSE]
      /\ set' = set \ {n} /\ loop' = [loop EXCEPT !.at = "starting"]
      /\ loop.at = "ensure" /\ bridge.client = 0 /\ UNCHANGED active
      /\ ~Alive(bridge.thread)
  BY DEF EnsureStarts
<1> HIDE DEF n
<1>3. \A l \in Listeners : ~Goes(l)
  BY <1>2, Nobody
<1>4. /\ bridge'.thread = n /\ bridge'.client = 0 /\ ~bridge'.startup
  BY <1>2 DEF HookTyped, Bridge
<1>5. /\ listener'[n].at = "born" /\ listener'[n].ours
      /\ \A l \in Listeners \ {n} : listener'[l].at = "none"
  BY <1>1, <1>2, <1>3 DEF HookTyped, Goes
<1>6. loop'.at = "starting" /\ loop'.late = loop.late /\ loop'.route = loop.route
  BY <1>2, LoopAt
<1>7. Known'
  BY <1>4, <1>5, <1>6, Numbers DEF Known, Goes, Up
<1>8. Told'
  BY <1>2, <1>5, <1>6 DEF Told, Goes
<1>9. Heard'
  BY <1>1, <1>2, <1>5, <1>6 DEF Calm, Heard, Goes
<1> QED
  BY <1>7, <1>8, <1>9 DEF Calm

\* The last route is stopped: the thread is told to leave, and does.
LEMMA JoinedCalm == ASSUME HookTyped, Calm, Joined PROVE Calm'
<1>1. loop.at = "join" /\ active = {} /\ loop.why = "stop" /\ ~loop.late
  BY DEF Joined, Calm, Heard
<1>2. ~Alive(bridge.thread)
  <2>1. SUFFICES ASSUME Alive(bridge.thread) PROVE FALSE
    OBVIOUS
  <2>2. bridge.thread \in Listeners
    BY <2>1, Numbers DEF Alive, HookTyped, Bridge
  <2>3. listener[bridge.thread].at = "up" /\ listener[bridge.thread].event \notin set
    BY <2>1 DEF Joined, Deserted
  <2> QED
    BY <1>1, <2>2, <2>3 DEF Calm, Known, Told, Up
<1>3. \A l \in Listeners : ~Goes(l)
  BY <1>2, Nobody
<1>4. \A l \in Listeners : listener'[l].at = "none"
  BY <1>3, ShutListener DEF Joined, Goes
<1>5. bridge' = NewBridge
  BY <1>1 DEF Joined, Shut
<1>6. loop' = At("idle", "none") /\ active' = {}
  BY <1>1 DEF Joined, Shut
<1>7. loop'.at = "idle" /\ ~loop'.late
  BY <1>6, AtType
<1>8. Known' /\ Told'
  BY <1>4, <1>5, <1>7, NewTypes, Numbers DEF Known, Told, Goes, Up
<1> QED
  BY <1>6, <1>7, <1>8 DEF Calm, Heard

LEMMA CommandCalm ==
    ASSUME HookTyped, Calm,
           Boot \/ Monitor \/ Exit \/ \E r \in Routes : StartRoute(r) \/ StopRoute(r)
    PROVE  Calm'
<1>0. loop.at # "starting"
        => \A l \in Listeners : listener[l].at \notin {"born", "connecting", "ready"}
  BY DEF Calm, Known
<1>1. CASE Boot
  <2>1. /\ loop.at = "down" /\ loop'.at = "ensure" /\ ~loop'.late
        /\ UNCHANGED <<active, bridge, listener, set>>
    BY <1>1, AtType DEF Boot
  <2> QED
    BY <1>0, <2>1 DEF Calm, Known, Told, Heard, Goes, Up
<1>2. CASE Monitor
  <2>1. bridge.client # 0
    BY <1>2 DEF Monitor, Calm, Heard
  <2>2. UNCHANGED <<loop, active, bridge, listener, set>>
    BY <1>2, <2>1 DEF Monitor
  <2> QED
    BY <2>2 DEF Calm, Known, Told, Heard, Goes, Up
<1>3. CASE Exit
  <2>1. /\ \A l \in Listeners : listener'[l].at = "none"
        /\ bridge' = NewBridge /\ active' = {}
        /\ loop'.at = "down" /\ ~loop'.late
    BY <1>3, AtType, NewTypes DEF Exit
  <2>2. Known' /\ Told'
    BY <2>1, NewTypes, Numbers DEF Known, Told, Goes, Up
  <2> QED
    BY <2>1, <2>2 DEF Calm, Heard
<1>4. ASSUME NEW r \in Routes, StartRoute(r) PROVE Calm'
  <2>1. loop' = [At("ensure", "start") EXCEPT !.route = r]
    BY <1>4 DEF StartRoute
  <2>2. loop'.at = "ensure" /\ loop'.route = r /\ ~loop'.late
    BY <2>1 DEF At
  <2>3. /\ loop.at = "idle" /\ active' = active \cup {r}
        /\ UNCHANGED <<bridge, listener, set>>
    BY <1>4 DEF StartRoute
  <2> QED
    BY <1>0, <2>2, <2>3 DEF Calm, Known, Told, Heard, Goes, Up
<1>5. ASSUME NEW r \in Routes, StopRoute(r) PROVE Calm'
  <2>1. loop.at = "idle" /\ active # {} /\ UNCHANGED <<bridge, listener>>
    BY <1>5 DEF StopRoute
  <2>2. CASE active' = {}
    <3>1. Signal /\ loop' = At("join", "stop")
      BY <1>5, <2>2 DEF StopRoute
    <3>2. loop'.at = "join" /\ loop'.why = "stop" /\ ~loop'.late
      BY <3>1, AtType
    <3>3. \A l \in Listeners : listener[l].at = "up" => l \in set'
      BY <3>1, Numbers DEF Signal, Calm, Known, Up
    <3>4. Known'
      BY <1>0, <2>1 DEF Calm, Known, Goes, Up
    <3> QED
      BY <2>1, <2>2, <3>2, <3>3, <3>4 DEF Calm, Told, Heard
  <2>3. CASE active' # {}
    <3>1. UNCHANGED <<set, loop>>
      BY <1>5, <2>3 DEF StopRoute
    <3> QED
      BY <2>1, <3>1 DEF Calm, Known, Told, Heard, Goes, Up
  <2> QED
    BY <2>2, <2>3
<1> QED
  BY <1>1, <1>2, <1>3, <1>4, <1>5

\* The one thread that goes, and what it writes.
LEMMA OneGoes ==
    ASSUME HookTyped, Calm, NEW l \in Listeners, Goes(l)
    PROVE  /\ \A m \in Listeners \ {l} : listener[m].at = "none"
           /\ listener[l].ours /\ bridge.thread = l
           /\ ~Up(l) => bridge.client = 0
           /\ \A b : Writes(l, b) => bridge' = b
<1>1. \A m \in Listeners \ {l} : listener[m].at = "none"
  BY DEF Calm, Known, Goes
<1>2. listener[l].ours /\ bridge.thread = l
  BY DEF Calm, Known
<1>3. ASSUME ~Up(l), bridge.client # 0 PROVE FALSE
  <2>1. bridge.client \in Listeners
    BY <1>3, Numbers DEF HookTyped, Bridge
  <2> QED
    BY <1>1, <1>3, <2>1 DEF Calm, Known, Up
<1> QED
  BY <1>1, <1>2, <1>3 DEF Writes

\* A step of that thread.
LEMMA ThreadGoes ==
    ASSUME HookTyped, Calm, NEW l \in Listeners, Goes(l),
           listener' = [listener EXCEPT ![l] = listener'[l]],
           UNCHANGED <<loop, active, set>>, bridge'.thread = bridge.thread,
           listener'[l].at # "none" =>
              /\ listener'[l].ours
              /\ listener'[l].at \in {"connecting", "ready", "up"} => bridge'.loop = l
              /\ listener'[l].at \in {"ready", "up"}
                    => bridge'.event = l /\ listener'[l].event = l
              /\ listener'[l].at = "ending" => bridge'.error
              /\ listener'[l].at \in {"born", "connecting", "ready"}
                    => loop.at = "starting" /\ ~bridge'.startup,
           bridge'.client = IF listener'[l].at \in {"ready", "up"} THEN l ELSE 0,
           bridge.error => bridge'.error,
           bridge'.client = bridge.client \/ loop.at \in {"starting", "join"},
           listener'[l].at = "none" => bridge.error \/ loop.at # "starting",
           loop.at = "join" /\ listener'[l].at = "up" => listener[l].at = "up"
    PROVE  Calm'
<1>1. \A m \in Listeners \ {l} : listener'[m].at = "none"
  BY OneGoes DEF HookTyped
<1>2. bridge'.thread = l
  BY OneGoes
<1>3. Known'
  BY <1>1, <1>2, Numbers DEF Known, Goes, Up
<1>4. Told'
  BY <1>1 DEF Calm, Told, Goes
<1>5. Heard'
  BY <1>1 DEF Calm, Heard, Goes
<1> QED
  BY <1>3, <1>4, <1>5 DEF Calm

LEMMA ThreadCalm ==
    ASSUME HookTyped, Calm, NEW l \in Listeners, ListenerStep(l) \/ Broken(l)
    PROVE  Calm'
<1>0. /\ Goes(l) /\ bridge \in Bridge /\ listener[l] \in Listener
      /\ UNCHANGED <<loop, active, set>>
  BY DEF ListenerStep, Open, Connect, Announce, Unauthorized, Leave, Broken, Fail,
         Goes, HookTyped
<1>1. /\ listener[l].ours /\ bridge.thread = l
      /\ ~Up(l) => bridge.client = 0
      /\ \A b : Writes(l, b) => bridge' = b
  BY <1>0, OneGoes
<1>2. CASE Open(l)
  <2>1. bridge' = [bridge EXCEPT !.loop = l]
    BY <1>1, <1>2 DEF Open
  <2>2. /\ bridge'.loop = l /\ bridge'.thread = bridge.thread
        /\ bridge'.client = bridge.client /\ bridge'.startup = bridge.startup
        /\ bridge'.error = bridge.error
    BY <1>0, <2>1 DEF Bridge
  <2>3. /\ listener[l].at = "born" /\ listener'[l].at = "connecting" /\ listener'[l].ours
        /\ listener' = [listener EXCEPT ![l] = listener'[l]]
    BY <1>1, <1>2, ListenerGoes DEF Open
  <2>4. loop.at = "starting" /\ ~bridge.startup /\ bridge.client = 0
    BY <1>1, <2>3 DEF Calm, Known, Up
  <2> QED
    BY <1>0, <2>2, <2>3, <2>4, ThreadGoes
<1>3. CASE Connect(l)
  <2>1. bridge' = [bridge EXCEPT !.client = l, !.event = l]
    BY <1>1, <1>3 DEF Connect
  <2>2. /\ bridge'.loop = bridge.loop /\ bridge'.thread = bridge.thread
        /\ bridge'.client = l /\ bridge'.event = l
        /\ bridge'.startup = bridge.startup /\ bridge'.error = bridge.error
    BY <1>0, <2>1 DEF Bridge
  <2>3. /\ listener[l].at = "connecting" /\ listener'[l].at = "ready"
        /\ listener'[l].ours /\ listener'[l].event = l
        /\ listener' = [listener EXCEPT ![l] = listener'[l]]
    <3>1. l \in 0..MaxListeners
      BY Numbers
    <3>2. listener' = [listener EXCEPT ![l].at = "ready", ![l].event = l]
      BY <1>3 DEF Connect
    <3>3. /\ listener'[l].at = "ready" /\ listener'[l].ours = listener[l].ours
          /\ listener'[l].event = l
          /\ listener' = [listener EXCEPT ![l] = listener'[l]]
      BY <3>1, <3>2, ListenerAwaits
    <3> QED
      BY <1>1, <1>3, <3>3 DEF Connect
  <2>4. loop.at = "starting" /\ ~bridge.startup /\ bridge.loop = l
    BY <2>3 DEF Calm, Known
  <2> QED
    BY <1>0, <2>2, <2>3, <2>4, ThreadGoes
<1>4. CASE Announce(l)
  <2>1. /\ listener[l].at = "ready" /\ bridge.event = l /\ bridge.client = l
        /\ bridge.loop = l /\ loop.at = "starting"
    BY <1>4 DEF Announce, Calm, Known, Up
  <2>2. l # 0
    BY Numbers
  <2>3. /\ listener' = [listener EXCEPT ![l].at = "up", ![l].event = l]
        /\ Writes(l, [bridge EXCEPT !.startup = TRUE, !.error = @ \/ l = 0])
    BY <1>1, <1>4, <2>1, <2>2 DEF Announce
  <2>4. /\ listener'[l].at = "up" /\ listener'[l].ours /\ listener'[l].event = l
        /\ listener' = [listener EXCEPT ![l] = listener'[l]]
    <3>1. l \in 0..MaxListeners
      BY Numbers
    <3>2. /\ listener'[l].at = "up" /\ listener'[l].ours = listener[l].ours
          /\ listener'[l].event = l
          /\ listener' = [listener EXCEPT ![l] = listener'[l]]
      BY <2>3, <3>1, ListenerAwaits
    <3> QED
      BY <1>1, <3>2
  <2>5. bridge' = [bridge EXCEPT !.startup = TRUE, !.error = @ \/ l = 0]
    BY <1>1, <2>3
  <2>6. /\ bridge'.loop = bridge.loop /\ bridge'.thread = bridge.thread
        /\ bridge'.client = bridge.client /\ bridge'.event = bridge.event
        /\ bridge'.error = (bridge.error \/ l = 0)
    BY <1>0, <2>5 DEF Bridge
  <2>7. bridge.error => bridge'.error
    BY <2>6, Zenon
  <2> QED
    BY <1>0, <2>1, <2>4, <2>6, <2>7, ThreadGoes
<1>5. ASSUME Fail(l), listener[l].at = "connecting" PROVE Calm'
  <2>1. bridge' = [bridge EXCEPT !.error = TRUE, !.startup = TRUE]
    BY <1>1, <1>5 DEF Fail
  <2>2. /\ bridge'.error /\ bridge'.thread = bridge.thread /\ bridge'.client = bridge.client
    BY <1>0, <2>1 DEF Bridge
  <2>3. /\ listener'[l].at = "ending" /\ listener'[l].ours
        /\ listener' = [listener EXCEPT ![l] = listener'[l]]
    BY <1>1, <1>5, ListenerGoes DEF Fail
  <2>4. bridge.client = 0
    BY <1>1, <1>5 DEF Up
  <2> QED
    BY <1>0, <2>2, <2>3, <2>4, ThreadGoes
<1>6. CASE Leave(l)
  <2>1. bridge' = [bridge EXCEPT !.client = 0, !.loop = 0]
    BY <1>1, <1>6 DEF Leave
  <2>2. /\ bridge'.client = 0 /\ bridge'.thread = bridge.thread
        /\ bridge'.error = bridge.error
    BY <1>0, <2>1 DEF Bridge
  <2>3. /\ listener'[l].at = "none"
        /\ listener' = [listener EXCEPT ![l] = listener'[l]]
    BY <1>6, NewTypes DEF Leave, HookTyped
  <2>4. CASE listener[l].at = "up"
    <3>1. loop.at = "join"
      BY <1>0, <1>6, <2>4 DEF Leave, Calm, Known, Told, Up
    <3> QED
      BY <1>0, <2>2, <2>3, <3>1, ThreadGoes
  <2>5. CASE listener[l].at = "ending"
    <3>1. bridge.error /\ bridge.client = 0
      BY <1>1, <2>5 DEF Calm, Known, Up
    <3> QED
      BY <1>0, <2>2, <2>3, <3>1, ThreadGoes
  <2> QED
    BY <1>6, <2>4, <2>5 DEF Leave
<1> QED
  BY <1>2, <1>3, <1>4, <1>5, <1>6 DEF ListenerStep, Broken, Unauthorized

LEMMA NextHookInv == HookInv /\ [Next]_vars => HookInv'
<1> SUFFICES ASSUME HookInv, [Next]_vars PROVE HookInv'
  OBVIOUS
<1>1. HookTyped /\ [HookNext]_hookVars
  BY DEF HookInv, Next, vars
<1>2. HookTyped'
  BY <1>1, HookNextTyped
<1>3. CASE UNCHANGED hookVars
  BY <1>2, <1>3 DEF HookInv, hookVars, hookHistory, Calm, Known, Told, Heard, Goes, Up
<1>4. CASE StartLate \/ JoinLate
  <2>1. slow' # 0
    BY <1>1, <1>4, Numbers DEF StartLate, JoinLate, HookTyped
  <2> QED
    BY <1>2, <2>1 DEF HookInv
<1>5. ASSUME HookNext, ~(StartLate \/ JoinLate) PROVE HookInv'
  <2>1. slow' = slow
    BY <1>5 DEF HookNext, LoopStep, EnsureFinds, EnsureRefuses, EnsureStarts, Started,
                Joined, Boot, Monitor, Exit, StartRoute, StopRoute, ListenerStep, Open,
                Connect, Announce, Unauthorized, Leave, Broken, hookHistory
  <2>2. ASSUME Calm PROVE Calm'
    <3>1. CASE LoopStep
      BY <1>1, <2>2, <3>1, AnswerCalm, EnsureStartsCalm, JoinedCalm DEF LoopStep
    <3>2. CASE Boot \/ Monitor \/ Exit \/ \E r \in Routes : StartRoute(r) \/ StopRoute(r)
      BY <1>1, <2>2, <3>2, CommandCalm
    <3>3. CASE \E l \in Listeners : ListenerStep(l) \/ Broken(l)
      BY <1>1, <2>2, <3>3, ThreadCalm
    <3> QED
      BY <1>5, <3>1, <3>2, <3>3 DEF HookNext
  <2> QED
    BY <1>2, <2>1, <2>2 DEF HookInv
<1> QED
  BY <1>1, <1>3, <1>4, <1>5

LEMMA SpecHook == Spec => []HookInv
<1>1. Init => HookInv
  BY InitHookTyped, InitCalm DEF HookInv
<1> QED
  BY <1>1, NextHookInv, PTL DEF Spec

\* For any number of routes and client threads: without a wait that timed out
\* two clients never hear the same messages (ensure_started, shutdown).
THEOREM HookOneListener == Spec => []OneListener
<1>1. HookInv => OneListener
  <2> SUFFICES ASSUME HookTyped, Calm
               PROVE  Cardinality({l \in Listeners : Up(l)}) <= 1
    BY DEF HookInv, OneListener
  <2> DEFINE S == {l \in Listeners : Up(l)}
  <2>1. S \subseteq {bridge.thread}
    BY DEF Calm, Known, Goes, Up
  <2>2. IsFiniteSet({bridge.thread}) /\ Cardinality({bridge.thread}) = 1
    BY FS_Singleton
  <2>3. Cardinality(S) <= Cardinality({bridge.thread})
    BY <2>1, <2>2, FS_Subset
  <2> QED
    BY <2>2, <2>3
<1> QED
  BY <1>1, SpecHook, PTL

\* For any number of routes and client threads: without a wait that timed out
\* the loop never goes on with a route nobody listens for (start_route,
\* stop_route).
THEOREM HookRoutesAreHeard == Spec => []RoutesAreHeard
<1>1. HookInv => RoutesAreHeard
  <2> SUFFICES ASSUME HookTyped, Calm, loop.at = "idle", active # {}
               PROVE  \E l \in Listeners : Up(l) /\ listener[l].event \notin set
    BY DEF HookInv, RoutesAreHeard
  <2>1. bridge.client # 0
    BY DEF Calm, Heard
  <2>2. bridge.client \in Listeners
    BY <2>1, Numbers DEF HookTyped, Bridge
  <2>3. Up(bridge.client)
    BY <2>2 DEF Calm, Known
  <2>4. listener[bridge.client].event = bridge.client /\ Goes(bridge.client)
    BY <2>2, <2>3 DEF Calm, Known, Goes, Up
  <2>5. bridge.client \notin set
    BY <2>2, <2>4 DEF Calm, Told
  <2> QED
    BY <2>2, <2>3, <2>4, <2>5
<1> QED
  BY <1>1, SpecHook, PTL

\* The fields of the login and of the hook keep their types.
THEOREM HookTypeCorrect == Spec => []TypeOK
<1>1. LoginInv /\ HookInv => TypeOK
  BY DEF LoginInv, HookInv, HookTyped, WorkerState, TypeOK
<1> QED
  BY <1>1, SpecLogin, SpecHook, PTL
===============================================================================
