----------------------------- MODULE MtnMomoClient -----------------------------
(***************************************************************************)
(* providers/mtn_momo.py: calls of RequestToPay and status queries by      *)
(* several processes that share one access token through a cache, while an *)
(* administrator changes the credentials and tokens expire.                *)
(*                                                                         *)
(* A credential is a version number of the settings, a token the position  *)
(* at which MTN issued it.  Durations are in hundredths of a second.       *)
(***************************************************************************)
EXTENDS Msisdn

CONSTANTS
    Workers,        \* the processes, each sending one request of its own, or
                    \* asking about another's
    MaxVersions,    \* bound: how many times the settings are changed, plus 1
    MaxTokens       \* bound: how many tokens MTN issues

ASSUME BoundsAssumption == MaxVersions \in Nat \ {0} /\ MaxTokens \in Nat \ {0}

VARIABLES
    settings,       \* the committed credentials, and the ones being saved
    cached,         \* the token in the cache, 0 if none
    issued,         \* the credentials each token was issued for
    dead,           \* tokens MTN accepts no more
    client,         \* process -> its call
    request         \* process -> its request at MTN

vars == <<settings, cached, issued, dead, client, request>>

PCs == {"idle", "token", "fetch", "store", "send", "done"}

InitiationOutcomes ==
    {"accepted", "duplicate_reference", "rejected", "unauthorized", "unknown", "not_sent",
     "bad_amount", "bad_number"}    \* the last two are InvalidRequest

(* A ProviderResult's status, or an MtnMomoError.                          *)
QueryOutcomes == {"Pending", "Succeeded", "Failed", "unauthorized", "no_answer"}

(* DEFAULT_TIMEOUT, to connect and to read, and reconcile.py's window.     *)
CALL_TIMEOUT == 605 + 1500
INITIATION_WINDOW == 12000

ClientType ==
    [pc      : PCs,
     about   : Workers,             \* whose request: its own, or the one asked about
     known   : BOOLEAN,             \* ghost: had MTN said it has that request
                                    \* when the call began?
     version : 1 .. MaxVersions,    \* the credentials in its MtnMomoConfig
     pass    : {1, 2},              \* of _call's loop: the second renews the token
     token   : 0 .. MaxTokens,
     oldest  : 0 .. MaxTokens,      \* ghost: tokens issued before the call began
     fetches : 0 .. 2,              \* token requests and sends so far
     sends   : 0 .. 2,
     outcome : InitiationOutcomes \cup QueryOutcomes \cup {"none"}]

Requests == {"absent", "pending", "successful", "failed"}

Init ==
    /\ settings = [version |-> 1, saved |-> 1]
    /\ cached = 0
    /\ issued = <<>>
    /\ dead = {}
    /\ client = [w \in Workers |->
                    [pc |-> "idle", about |-> w, known |-> FALSE, version |-> 1, pass |-> 1,
                     token |-> 0, oldest |-> 0, fetches |-> 0, sends |-> 0,
                     outcome |-> "none"]]
    /\ request = [w \in Workers |-> "absent"]

At(w, pc) == client[w].pc = pc

Go(w, pc) == client' = [client EXCEPT ![w].pc = pc]

End(w, outcome) == client' = [client EXCEPT ![w].pc = "done", ![w].outcome = outcome]

-----------------------------------------------------------------------------
(* A call begins: mtn_client reads the committed settings.                 *)

Initiates(w) == client[w].about = w

(* initiate, for a number and an amount request_to_pay does not refuse.    *)
Begin(w) ==
    /\ At(w, "idle") /\ ValidNumbers # {}
    /\ client' = [client EXCEPT ![w].pc = "token",
                                ![w].version = settings.version,
                                ![w].oldest = Len(issued)]
    /\ UNCHANGED <<settings, cached, issued, dead, request>>

(* InvalidRequest, before any call: format_amount wants a whole amount,    *)
(* which validate_amount asks of some currencies only.                     *)
RefuseLocally(w) ==
    /\ At(w, "idle")
    /\ \/ End(w, "bad_amount")
       \/ ValidNumbers # PayerNumbers /\ End(w, "bad_number")
    /\ UNCHANGED <<settings, cached, issued, dead, request>>

TakenIn == {"accepted", "duplicate_reference"}

(* check_status, about the request of process v.                           *)
BeginQuery(w, v) ==
    /\ At(w, "idle") /\ v # w
    /\ client' = [client EXCEPT ![w].pc = "token",
                                ![w].about = v,
                                ![w].known = (client[v].outcome \in TakenIn),
                                ![w].version = settings.version,
                                ![w].oldest = Len(issued)]
    /\ UNCHANGED <<settings, cached, issued, dead, request>>

-----------------------------------------------------------------------------
(* _token                                                                  *)

(* A bug: the cache is read on the second pass too.                        *)
MayReadCacheAlways(w) == TRUE

MayReadCache(w) == client[w].pass = 1

ReadCache(w) ==
    /\ At(w, "token") /\ MayReadCache(w) /\ cached # 0
    /\ client' = [client EXCEPT ![w].pc = "send", ![w].token = cached]
    /\ UNCHANGED <<settings, cached, issued, dead, request>>

(* A bug: a call sends though it has no token yet.                         *)
DropNothing(w) ==
    /\ At(w, "token")
    /\ Go(w, "send")
    /\ UNCHANGED <<settings, cached, issued, dead, request>>

(* No token in the cache, or one that a 401 tells to drop.                 *)
DropCached(w) ==
    /\ At(w, "token")
    /\ \/ MayReadCache(w) /\ cached = 0 /\ UNCHANGED cached
       \/ ~MayReadCache(w) /\ cached' = 0
    /\ client' = [client EXCEPT ![w].pc = "fetch", ![w].token = 0]
    /\ UNCHANGED <<settings, issued, dead, request>>

Fetch(w) ==
    /\ At(w, "fetch")
    /\ Len(issued) < MaxTokens
    /\ issued' = Append(issued, client[w].version)
    /\ client' = [client EXCEPT ![w].pc = "store", ![w].token = Len(issued'),
                                ![w].fetches = @ + 1]
    /\ UNCHANGED <<settings, cached, dead, request>>

(* No token could be had, or the credentials are refused.                  *)
FetchFails(w) ==
    /\ At(w, "fetch")
    /\ \E outcome \in {IF Initiates(w) THEN "not_sent" ELSE "no_answer", "unauthorized"} :
          client' = [client EXCEPT ![w].pc = "done", ![w].outcome = outcome,
                                   ![w].fetches = @ + 1]
    /\ UNCHANGED <<settings, cached, issued, dead, request>>

(* A token that expires within the margin is used, and not kept.           *)
Store(w) ==
    /\ At(w, "store")
    /\ \/ cached' = client[w].token
       \/ UNCHANGED cached
    /\ Go(w, "send")
    /\ UNCHANGED <<settings, issued, dead, request>>

-----------------------------------------------------------------------------
(* _call, request_to_pay and check_status                                  *)

(* A bug: a 409 is one more 4xx.                                           *)
DuplicateIsRejected(answer) ==
    CASE answer = "202"           -> "accepted"
      [] answer \in {"409", "4xx"} -> "rejected"
      [] OTHER                    -> "unknown"

(* A bug: a 5xx or a timeout is a refusal.                                 *)
SilenceIsRejected(answer) ==
    CASE answer = "202" -> "accepted"
      [] answer = "409" -> "duplicate_reference"
      [] OTHER          -> "rejected"

OutcomeOf(answer) ==
    CASE answer = "202" -> "accepted"
      [] answer = "409" -> "duplicate_reference"
      [] answer = "4xx" -> "rejected"
      [] OTHER          -> "unknown"

(* INITIATION_STATUSES: what the attempt becomes.                          *)
InitiationStatus(outcome) ==
    IF outcome \in {"accepted", "duplicate_reference", "unknown"} THEN "Initiated" ELSE "Error"

(* MTN's side: a 202 creates the request; a 409 answers its second         *)
(* delivery; a 4xx creates nothing; a 5xx or a timeout tells nothing.      *)
Answers(w, answer) ==
    \/ answer \in {"202", "409", "unknown"} /\ request' = [request EXCEPT ![w] = "pending"]
    \/ answer \in {"4xx", "unknown"} /\ UNCHANGED request

(* _report comes before the outcome, whatever it is.                       *)
Sent(w, outcome) ==
    client' = [client EXCEPT ![w].pc = "done", ![w].outcome = outcome, ![w].sends = @ + 1]

(* A bug: a send that got no answer is not reported.                       *)
SendUnreported(w) ==
    /\ At(w, "send") /\ Initiates(w) /\ client[w].token \notin dead
    /\ \E answer \in {"202", "409", "4xx", "unknown"} :
          /\ Answers(w, answer)
          /\ IF answer = "unknown" THEN End(w, "unknown") ELSE Sent(w, OutcomeOf(answer))
    /\ UNCHANGED <<settings, cached, issued, dead>>

Send(w) ==
    /\ At(w, "send") /\ Initiates(w) /\ client[w].token \notin dead
    /\ \E answer \in {"202", "409", "4xx", "unknown"} :
          Answers(w, answer) /\ Sent(w, OutcomeOf(answer))
    /\ UNCHANGED <<settings, cached, issued, dead>>

(* A bug: what cannot be read is taken for a failure.                      *)
UnreadableIsFailed(answer) ==
    CASE answer = "pending"    -> "Pending"
      [] answer = "successful" -> "Succeeded"
      [] OTHER                 -> "Failed"

(* STATUSES, and a 404 for a request MTN does not have.                    *)
StatusOf(answer) ==
    CASE answer = "pending"               -> "Pending"
      [] answer = "successful"            -> "Succeeded"
      [] answer \in {"failed", "absent"}  -> "Failed"
      [] OTHER                            -> "no_answer"

(* MTN tells what has become of the request, or something else: a 400, a   *)
(* 5xx, a timeout, a 200 that _status_result cannot read.                  *)
Ask(w) ==
    /\ At(w, "send") /\ ~Initiates(w) /\ client[w].token \notin dead
    /\ \E answer \in {request[client[w].about], "unreadable"} : Sent(w, StatusOf(answer))
    /\ UNCHANGED <<settings, cached, issued, dead, request>>

(* A bug: a 401 is retried twice.                                          *)
RefusedThrice(w) ==
    /\ At(w, "send")
    /\ IF client[w].pass = 3 THEN Sent(w, "unauthorized")
       ELSE client' = [client EXCEPT ![w].pc = "token", ![w].pass = @ + 1, ![w].sends = @ + 1]
    /\ UNCHANGED <<settings, cached, issued, dead, request>>

(* A 401: the token is dead, or MTN refuses the subscription key.          *)
Refused(w) ==
    /\ At(w, "send")
    /\ IF client[w].pass = 2 THEN Sent(w, "unauthorized")
       ELSE client' = [client EXCEPT ![w].pc = "token", ![w].pass = 2, ![w].sends = @ + 1]
    /\ UNCHANGED <<settings, cached, issued, dead, request>>

(* A request whose sender stopped waiting for the answer gets there yet.   *)
ArriveLate(w) ==
    /\ At(w, "done") /\ client[w].outcome = "unknown"
    /\ request[w] = "absent"
    /\ request' = [request EXCEPT ![w] = "pending"]
    /\ UNCHANGED <<settings, cached, issued, dead, client>>

(* The payer, or MTN, decides.                                             *)
Decide(w, verdict) ==
    /\ request[w] = "pending"
    /\ request' = [request EXCEPT ![w] = verdict]
    /\ UNCHANGED <<settings, cached, issued, dead, client>>

Expire(t) ==
    /\ t \in 1 .. Len(issued) /\ t \notin dead
    /\ dead' = dead \cup {t}
    /\ UNCHANGED <<settings, cached, issued, client, request>>

(* The cached token's time to live is over, a margin before its own.       *)
LeaveCache ==
    /\ cached # 0
    /\ cached' = 0
    /\ UNCHANGED <<settings, issued, dead, client, request>>

-----------------------------------------------------------------------------
(* on_update drops the cached token; the new credentials commit after it.  *)

SaveSettings ==
    /\ settings.saved = settings.version /\ settings.version < MaxVersions
    /\ settings' = [settings EXCEPT !.saved = settings.version + 1]
    /\ cached' = 0
    /\ UNCHANGED <<issued, dead, client, request>>

CommitSettings ==
    /\ settings.saved # settings.version
    /\ settings' = [settings EXCEPT !.version = settings.saved]
    /\ UNCHANGED <<cached, issued, dead, client, request>>

-----------------------------------------------------------------------------
CallStep(w) ==
    \/ Begin(w)
    \/ RefuseLocally(w)
    \/ \E v \in Workers : BeginQuery(w, v)
    \/ ReadCache(w)
    \/ DropCached(w)
    \/ Fetch(w)
    \/ FetchFails(w)
    \/ Store(w)
    \/ Send(w)
    \/ Ask(w)
    \/ Refused(w)

Next ==
    \/ \E w \in Workers : CallStep(w) \/ ArriveLate(w)
    \/ \E w \in Workers, verdict \in {"successful", "failed"} : Decide(w, verdict)
    \/ \E t \in 1 .. MaxTokens : Expire(t)
    \/ LeaveCache
    \/ SaveSettings
    \/ CommitSettings

Spec == Init /\ [][Next]_vars

-----------------------------------------------------------------------------
(* An attempt set to Error, which no status query will ever look at again, *)
(* has no request at MTN, and one taken in has: LocalPayment's SendRefused *)
(* and SendAccepted rest on it (request_to_pay, INITIATION_STATUSES).      *)
ErrorMeansNothingCreated ==
    \A w \in Workers : At(w, "done") /\ Initiates(w) =>
        /\ InitiationStatus(client[w].outcome) = "Error" => request[w] = "absent"
        /\ client[w].outcome \in TakenIn => request[w] # "absent"

(* log_exchanges: none if nothing was sent.                                *)
IntegrationRequest(w) ==
    IF client[w].sends = 0 THEN "None"
    ELSE IF client[w].outcome \in TakenIn THEN "Completed" ELSE "Failed"

(* The Integration Request, which managers read to settle a dispute, never *)
(* contradicts MTN: no log means that nothing is there, Completed that the *)
(* request is, and Failed beside a request that is there comes of an       *)
(* answer lost (initiate, log_exchanges, _report).                         *)
LogAgrees ==
    \A w \in Workers : At(w, "done") /\ Initiates(w) =>
        CASE IntegrationRequest(w) = "None"      -> request[w] = "absent"
          [] IntegrationRequest(w) = "Completed" -> request[w] # "absent"
          [] IntegrationRequest(w) = "Failed"    ->
                request[w] # "absent" => client[w].outcome = "unknown"

(* A verdict a query returns is MTN's, whatever the token went through:    *)
(* Succeeded always, Failed if MTN had said it has the request when the    *)
(* query began; before that a 404 reads as Failed (check_status).          *)
VerdictIsMtns ==
    \A w \in Workers :
        /\ client[w].outcome = "Succeeded" => request[client[w].about] = "successful"
        /\ client[w].outcome = "Failed" /\ client[w].known
              => request[client[w].about] = "failed"

(* An initiation is over within INITIATION_WINDOW, all its token requests  *)
(* and sends at their timeouts: LocalPayment's InitiationRuns rests on it  *)
(* (reconcile.py, INITIATION_WINDOW; _call, DEFAULT_TIMEOUT).              *)
CallFitsWindow ==
    \A w \in Workers :
        (client[w].fetches + client[w].sends) * CALL_TIMEOUT < INITIATION_WINDOW

(* No number the page took is refused when the attempt is initiated, which *)
(* has been recorded for it by then: what payer_msisdn makes of a number,  *)
(* validate_msisdn lets pass, if no country code begins with a 0.          *)
NumberIsNeverRefused == \A w \in Workers : client[w].outcome # "bad_number"

(* A request is refused as unauthorized only with a token obtained during  *)
(* the call itself, or for want of one: whatever dead token the others     *)
(* leave in the cache meanwhile costs one retry, not the attempt (_token). *)
RefusedOnFreshToken ==
    \A w \in Workers :
        client[w].outcome = "unauthorized" =>
            client[w].token = 0 \/ client[w].token > client[w].oldest

(* Every field holds a value of its type, and a call has a token before it *)
(* is sent.                                                                *)
TypeOK ==
    /\ settings \in [version : 1 .. MaxVersions, saved : 1 .. MaxVersions]
    /\ issued \in Seq(1 .. MaxVersions) /\ Len(issued) <= MaxTokens
    /\ cached \in 0 .. Len(issued)
    /\ dead \subseteq 1 .. Len(issued)
    /\ client \in [Workers -> ClientType]
    /\ \A w \in Workers : At(w, "send") => client[w].token \in 1 .. Len(issued)
    /\ request \in [Workers -> Requests]

-----------------------------------------------------------------------------
(* The abstract specification.                                             *)

(* What an initiation, or a query, tells the application.  The attempt is  *)
(* Initiated after the first and the last of three; the log tells which.   *)
Told(w, call) ==
    IF call.about = w
    THEN IF call.outcome \in TakenIn THEN "taken in"
         ELSE IF InitiationStatus(call.outcome) = "Error" THEN "refused"
         ELSE "unknown"
    ELSE IF call.outcome \in {"Pending", "Succeeded", "Failed"} THEN call.outcome
    ELSE "no answer"

Said(w, call) ==
    IF call.pc = "done" THEN [what |-> Told(w, call), about |-> call.about]
    ELSE [what |-> "nothing", about |-> w]

Contract == INSTANCE Provider WITH
    held <- request,
    said <- [w \in Workers |-> Said(w, client[w])]

(* Whatever tokens are renewed, dropped or refused on the way, and however *)
(* often a call is sent again, it acts as one step that is so when it is   *)
(* taken: initiate and check_status are what api.py and reconcile.py take  *)
(* them for, and what LocalPayment models.                                 *)
KeepsContract == Contract!Spec

-----------------------------------------------------------------------------
(* What a comment says and the code does not do.                           *)

(* "Changed credentials must not keep using a token issued for the old     *)
(* ones" (mtn_momo_settings.py, on_update).                                *)
OldTokensDropped ==
    \A w \in Workers : At(w, "send") => issued[client[w].token] >= client[w].version
=============================================================================
