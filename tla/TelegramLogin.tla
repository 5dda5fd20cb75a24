----------------------------- MODULE TelegramLogin -----------------------------
(***************************************************************************)
(* The login of the dashboard at Telegram: TelegramService, the adapter's  *)
(* calls, the row of telegram_connection and the credentials they need.    *)
(*                                                                         *)
(* A request that calls Telegram is two steps, up to the call and from its *)
(* answer on; requests of several HTTP threads overlap between them.  What *)
(* Telegram itself decides (whether a code is accepted, whether a password *)
(* is wanted) is modelled from how the adapter uses Telethon.  A code hash *)
(* is named by the phone it was issued for.                                *)
(***************************************************************************)
EXTENDS Integers

CONSTANTS
    Threads,        \* HTTP threads of the dashboard
    Phones,
    MaxRequests     \* bound on the calls to Telegram

ASSUME RequestBound == MaxRequests \in Nat

VARIABLES
    credentials,    \* whether api_id and api_hash are known
    account,        \* telegram_connection: its status and phone_code_hash
    phone,          \* _auth_phone of the service, in memory
    calls,          \* HTTP thread -> the call it waits for
    session         \* what the session file is good for at Telegram

(* History variables.                                                      *)
VARIABLES
    requests,       \* calls made so far
    tangled,        \* two requests overlapped, or one broke off half-way
    revoked         \* the session was ended from another device

loginHistory == <<requests, tangled, revoked>>
loginVars == <<credentials, account, phone, calls, session, loginHistory>>

NoPhone == "no phone"
SomePhone == Phones \cup {NoPhone}
Status == {"DISCONNECTED", "API_CONFIGURED", "CODE_SENT", "TWO_FACTOR_REQUIRED",
           "CONNECTED", "ERROR"}
Call == [kind : {"code", "verify", "password", "dialogs"}, phone : SomePhone,
         hash : SomePhone]
NoCall == [kind |-> "none"]

LoginTypeOK ==
    /\ credentials \in BOOLEAN
    /\ account \in [status : Status, hash : SomePhone]
    /\ phone \in SomePhone
    /\ calls \in [Threads -> Call \cup {NoCall}]
    /\ session \in {"fresh", "password wanted", "authorized"}
    /\ requests \in 0..MaxRequests
    /\ tangled \in BOOLEAN /\ revoked \in BOOLEAN

LoginInit ==
    /\ credentials = FALSE
    /\ account = [status |-> "DISCONNECTED", hash |-> NoPhone]
    /\ phone = NoPhone
    /\ calls = [t \in Threads |-> NoCall]
    /\ session = "fresh"
    /\ requests = 0
    /\ tangled = FALSE /\ revoked = FALSE

Busy == \E t \in Threads : calls[t] # NoCall
Authorized == session = "authorized"

-------------------------------------------------------------------------------
(***************************************************************************)
(* Requests without a call.                                                *)
(***************************************************************************)

\* save_credentials and clear_credentials: what load_telegram_config finds.
Credentials ==
    /\ credentials' = ~credentials
    /\ UNCHANGED <<account, phone, calls, session, loginHistory>>

\* Mutant: the status stays too.
ConfigureQuietly(p) ==
    /\ IF credentials THEN phone' = p /\ UNCHANGED account
       ELSE account' = [account EXCEPT !.status = "ERROR"] /\ UNCHANGED phone
    /\ tangled' = (tangled \/ Busy)
    /\ UNCHANGED <<credentials, calls, session, requests, revoked>>

\* The code hash of an earlier request stays.
Configure(p) ==
    /\ IF credentials
       THEN phone' = p /\ account' = [account EXCEPT !.status = "API_CONFIGURED"]
       ELSE account' = [account EXCEPT !.status = "ERROR"] /\ UNCHANGED phone
    /\ tangled' = (tangled \/ Busy)
    /\ UNCHANGED <<credentials, calls, session, requests, revoked>>

\* Nothing is said to Telegram: the session file stays good.
Disconnect ==
    /\ phone' = NoPhone
    /\ account' = [status |-> "DISCONNECTED", hash |-> NoPhone]
    /\ tangled' = (tangled \/ Busy)
    /\ UNCHANGED <<credentials, calls, session, requests, revoked>>

\* resolve_request_phone: the phone of the form, or the one of an earlier request.
Resolved(p) == IF p = NoPhone THEN phone ELSE p

-------------------------------------------------------------------------------
(***************************************************************************)
(* Requests up to their call.                                              *)
(***************************************************************************)

Make(t, kind, p) ==
    /\ calls' = [calls EXCEPT ![t] = [kind |-> kind, phone |-> p, hash |-> account.hash]]
    /\ requests' = requests + 1
    /\ tangled' = (tangled \/ Busy)

MayCall(t) == calls[t] = NoCall /\ requests < MaxRequests

\* The phone is noted before the credentials are asked for.
CallFor(t, kind, p) ==
    /\ MayCall(t)
    /\ Resolved(p) # NoPhone
    /\ phone' = Resolved(p)
    /\ IF credentials THEN Make(t, kind, Resolved(p))
       ELSE tangled' = TRUE /\ UNCHANGED <<calls, requests>>
    /\ UNCHANGED <<credentials, account, session, revoked>>

RequestCode(t, p) == CallFor(t, "code", p)

VerifyCode(t, p) == account.hash # NoPhone /\ CallFor(t, "verify", p)

VerifyPassword(t) ==
    /\ MayCall(t) /\ credentials
    /\ Make(t, "password", NoPhone)
    /\ UNCHANGED <<credentials, account, phone, session, revoked>>

SyncChannels(t) ==
    /\ MayCall(t) /\ credentials
    /\ account.status = "CONNECTED"
    /\ Make(t, "dialogs", NoPhone)
    /\ UNCHANGED <<credentials, account, phone, session, revoked>>

-------------------------------------------------------------------------------
(***************************************************************************)
(* Requests from the answer on.                                            *)
(***************************************************************************)

Answered(t) == calls' = [calls EXCEPT ![t] = NoCall]

\* set_telegram_auth_error: the code hash stays.
Refused == account' = [account EXCEPT !.status = "ERROR"] /\ UNCHANGED phone

\* set_telegram_connected
Connected ==
    /\ account' = [status |-> "CONNECTED", hash |-> NoPhone]
    /\ phone' = NoPhone

CodeSent(t) ==
    /\ calls[t].kind = "code"
    /\ account' = [status |-> "CODE_SENT", hash |-> calls[t].phone]
    /\ Answered(t)
    /\ UNCHANGED <<credentials, phone, session, loginHistory>>

\* Any call may be refused, or fail on its way.
CallRefused(t) ==
    /\ calls[t] # NoCall
    /\ Refused /\ Answered(t)
    /\ UNCHANGED <<credentials, session, loginHistory>>

\* Telegram accepts a code with the hash it sent for that phone, and asks
\* nothing of a session that is authorized already.
Accepted(t) ==
    \/ Authorized
    \/ calls[t].kind = "verify" /\ calls[t].hash = calls[t].phone
    \/ calls[t].kind = "password" /\ session = "password wanted"

SignedIn(t) ==
    /\ calls[t].kind \in {"verify", "password"} /\ Accepted(t)
    /\ session' = "authorized"
    /\ Connected /\ Answered(t)
    /\ UNCHANGED <<credentials, loginHistory>>

\* Mutant: an accepted code passes for a login.
PasswordForgotten(t) ==
    /\ calls[t].kind = "verify" /\ Accepted(t) /\ ~Authorized
    /\ session' = "password wanted"
    /\ Connected /\ Answered(t)
    /\ UNCHANGED <<credentials, loginHistory>>

PasswordWanted(t) ==
    /\ calls[t].kind = "verify" /\ Accepted(t) /\ ~Authorized
    /\ session' = "password wanted"
    /\ account' = [account EXCEPT !.status = "TWO_FACTOR_REQUIRED"]
    /\ Answered(t)
    /\ UNCHANGED <<credentials, phone, loginHistory>>

\* The list of channels leaves the connection's status as it is.
DialogsListed(t) ==
    /\ calls[t].kind = "dialogs" /\ Authorized
    /\ Answered(t)
    /\ UNCHANGED <<credentials, account, phone, session, loginHistory>>

\* The adapter does not catch a failing connect of a sign-in.
CallBreaks(t) ==
    /\ calls[t].kind \in {"verify", "password"}
    /\ Answered(t)
    /\ tangled' = TRUE
    /\ UNCHANGED <<credentials, account, phone, session, requests, revoked>>

\* The dashboard is started anew: what was in memory is lost, and a call under
\* way counts as never made.
Restart ==
    /\ phone' = NoPhone
    /\ calls' = [t \in Threads |-> NoCall]
    /\ UNCHANGED <<credentials, account, session, loginHistory>>

\* The user ends the session from another device.
Revoke ==
    /\ Authorized
    /\ session' = "fresh" /\ revoked' = TRUE
    /\ UNCHANGED <<credentials, account, phone, calls, requests, tangled>>

Request(t) ==
    \/ \E p \in SomePhone : RequestCode(t, p) \/ VerifyCode(t, p)
    \/ VerifyPassword(t)
    \/ SyncChannels(t)

Answer(t) ==
    \/ CodeSent(t) \/ CallRefused(t) \/ SignedIn(t) \/ PasswordWanted(t)
    \/ DialogsListed(t) \/ CallBreaks(t)

LoginNext ==
    \/ \E t \in Threads : Request(t) \/ Answer(t)
    \/ \E p \in Phones : Configure(p)
    \/ Credentials \/ Disconnect \/ Restart \/ Revoke

-------------------------------------------------------------------------------
(***************************************************************************)
(* Properties.                                                             *)
(***************************************************************************)

\* The dashboard says CONNECTED, and lets routes be started, only for a
\* session Telegram has authorized and the user has not ended from elsewhere,
\* whatever answers overlapped (set_telegram_connected, validate_start).
ConnectedIsAuthorized == account.status = "CONNECTED" => Authorized \/ revoked

\* A login that is waiting for its code, with no request under way, is waiting
\* for the code of the phone the next verify-code request will use, provided
\* the requests came one after the other (_auth_phone, phone_code_hash).
CodeIsForPhone ==
    ~Busy /\ ~tangled /\ account.status = "CODE_SENT"
        => phone \in {NoPhone, account.hash}

===============================================================================
