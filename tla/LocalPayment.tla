----------------------------- MODULE LocalPayment -----------------------------
(***************************************************************************)
(* One payment session (a "Local Payment" document), its attempts, and the *)
(* Python processes that work on it: requests of the payer, callback jobs, *)
(* scheduler jobs and managers, running reconcile.py, api.py and           *)
(* erpnext.py.                                                             *)
(*                                                                         *)
(* Every handler takes the session's row lock, writes and commits.  A step *)
(* of this module is one such transaction, so the interleavings are those  *)
(* the lock allows.  The lock outlives a step in one place only: while the *)
(* consumer's on_payment_authorized runs ("consuming").                    *)
(*                                                                         *)
(* Time is abstracted to what the code compares it for: a date is due or   *)
(* not, a check is recent or not, a deadline is passed or not.  The        *)
(* minutes are in Dates.                                                   *)
(***************************************************************************)
EXTENDS Lifecycle, Naturals, FiniteSets

CONSTANTS
    Workers,        \* the processes
    Attempts,       \* the attempts the payer may start: bounds their number
    NoAttempt,      \* no attempt, or no provider transaction id
    MaxTries,       \* MAX_AUTHORIZATION_TRIES
    Outcomes,       \* the final outcomes this provider reports
    LateArrivals,   \* may a request reach the provider after the send failed?
    ConsumerCommits \* may the consumer commit on its own, and lose the savepoint?

ASSUME NoAttemptAssumption == NoAttempt \notin Attempts
ASSUME MaxTriesAssumption == MaxTries \in Nat \ {0}
ASSUME OutcomesAssumption == Outcomes \subseteq {"Succeeded", "Mispaid", "Failed", "Expired"}
ASSUME LateArrivalsAssumption == LateArrivals \in BOOLEAN
ASSUME ConsumerCommitsAssumption == ConsumerCommits \in BOOLEAN

VARIABLES
    rows,           \* attempt -> its child row of the session
    session,        \* the session's own fields
    worker,         \* process -> where it is in which handler
    provider,       \* attempt -> what the provider holds under its id
    copies,         \* copies of the session, kept past a commit of the consumer,
                    \* that nobody has saved over: whose, and their flags
    effects,        \* ghost: committed runs of the consumer, counted up to 2
    alerts,         \* ghost: attempt -> its one-shot alert
    repaid          \* ghost: a result was taken as paying a session already Paid

vars == <<rows, session, worker, provider, copies, effects, alerts, repaid>>

CheckableStates == {"Initiated", "Pending", "Unresolved"}

Ages == {"young", "late", "old"}    \* before expires_on, after, 72 hours after

RowType ==
    [status          : AttemptStatuses \cup {"Absent"},
     duplicate       : BOOLEAN,
     amount_mismatch : BOOLEAN,
     checked         : BOOLEAN,     \* check_count > 0
     recent          : BOOLEAN,     \* last_checked_on within MIN_CHECK_INTERVAL
     due             : BOOLEAN,     \* next_check_on is in the past
     age             : Ages]

SessionType ==
    [status        : SessionStatuses,
     authorization : {"None", "Pending", "Done", "Failed"},
     tries         : 0 .. MaxTries,             \* counted up to MaxTries
     next_retry    : {"None", "Later", "Due"},  \* authorization_next_retry_on
     alerted       : BOOLEAN,                   \* authorization_failure_alerted
     exhausted     : BOOLEAN,                   \* authorization_alerted
     transaction   : Attempts \cup {NoAttempt}] \* provider_transaction_id

PCs == {"idle", "sending", "accepted", "refused", "asking", "heard",
        "telling", "authorizing", "consuming", "committed", "alerting", "warning"}

WorkerType ==
    [pc      : PCs,
     attempt : Attempts \cup {NoAttempt},
     answer  : ProviderResults]

(* The flags are all that changes of a session nobody saves.               *)
Copies == [worker : Workers, alerted : BOOLEAN, exhausted : BOOLEAN]

ProviderStates ==
    {"Absent", "InTransit", "Waiting", "Succeeded", "Mispaid", "Failed", "Expired"}

NoAnswer == [status |-> "Pending", exact |-> FALSE]

Idle == [pc |-> "idle", attempt |-> NoAttempt, answer |-> NoAnswer]

Init ==
    /\ rows = [a \in Attempts |->
                  [status |-> "Absent", duplicate |-> FALSE, amount_mismatch |-> FALSE,
                   checked |-> FALSE, recent |-> FALSE, due |-> FALSE, age |-> "young"]]
    /\ session = [status |-> "Open", authorization |-> "None", tries |-> 0,
                  next_retry |-> "None", alerted |-> FALSE, exhausted |-> FALSE,
                  transaction |-> NoAttempt]
    /\ worker = [w \in Workers |-> Idle]
    /\ provider = [a \in Attempts |-> "Absent"]
    /\ copies = {}
    /\ effects = 0
    /\ alerts = [a \in Attempts |-> "None"]
    /\ repaid = FALSE

-----------------------------------------------------------------------------
(* The row lock, and a worker's moves.                                     *)

Unlocked == \A w \in Workers : worker[w].pc # "consuming"

At(w, pc) == worker[w].pc = pc

Attempt(w) == worker[w].attempt

Go(w, pc) == worker' = [worker EXCEPT ![w].pc = pc]

Enter(w, pc) == worker' = [worker EXCEPT ![w] = [Idle EXCEPT !.pc = pc]]

Finish(w) == worker' = [worker EXCEPT ![w] = Idle]

CountTo2(n) == IF n < 2 THEN n + 1 ELSE n

(* save_state.  Frappe refuses to save an older copy of the session over   *)
(* it (TimestampMismatchError).                                            *)
SaveSession == copies' = {}

-----------------------------------------------------------------------------
(* Starting an attempt: api._start.                                        *)

(* _open_attempt: the Initiated row is committed before the provider hears *)
(* of it, with its first check date in the future.                         *)
OpenAttempt(w, a) ==
    /\ At(w, "idle") /\ Unlocked
    /\ session.status = "Open"
    /\ CanStartAttempt({rows[b].status : b \in Attempts})
    /\ rows[a].status = "Absent"
    /\ rows' = [rows EXCEPT ![a].status = "Initiated"]
    /\ worker' = [worker EXCEPT ![w].pc = "sending", ![w].attempt = a]
    /\ SaveSession
    /\ UNCHANGED <<session, provider, effects, alerts, repaid>>

(* The request reaches the provider, whose answer is still on its way.     *)
RequestArrives(w) ==
    /\ At(w, "sending")
    /\ provider[Attempt(w)] = "Absent"
    /\ provider' = [provider EXCEPT ![Attempt(w)] = "Waiting"]
    /\ UNCHANGED <<rows, session, worker, copies, effects, alerts, repaid>>

(* What becomes of a request whose sender stopped waiting for the answer.  *)
LoseTrackOf(a) ==
    \/ UNCHANGED provider
    \/ /\ LateArrivals
       /\ provider[a] = "Absent"
       /\ provider' = [provider EXCEPT ![a] = "InTransit"]

SendAccepted(w) ==
    /\ At(w, "sending")
    /\ provider[Attempt(w)] # "Absent"
    /\ Go(w, "accepted")
    /\ UNCHANGED <<rows, session, provider, copies, effects, alerts, repaid>>

(* REJECTED, UNAUTHORIZED or NOT_SENT: no transaction was created.         *)
SendRefused(w) ==
    /\ At(w, "sending")
    /\ provider[Attempt(w)] = "Absent"
    /\ Go(w, "refused")
    /\ UNCHANGED <<rows, session, provider, copies, effects, alerts, repaid>>

(* A timeout, a 5xx or an exception: started = Initiated all the same.     *)
SendUnanswered(w) ==
    /\ At(w, "sending")
    /\ LoseTrackOf(Attempt(w))
    /\ Go(w, "accepted")
    /\ UNCHANGED <<rows, session, copies, effects, alerts, repaid>>

(* A bug: the answer is recorded whatever the attempt is by now.           *)
RecordedStartBlindly(row, refused) ==
    IF refused THEN [row EXCEPT !.status = "Error", !.due = FALSE]
    ELSE [row EXCEPT !.status = "Initiated", !.due = TRUE]

(* _record_start.  A status check may have moved the attempt on already.   *)
RecordedStart(row, refused) ==
    IF row.status # "Initiated" THEN row
    ELSE IF refused THEN [row EXCEPT !.status = "Error", !.due = FALSE]
    ELSE [row EXCEPT !.due = TRUE]

RecordStart(w) ==
    /\ worker[w].pc \in {"accepted", "refused"} /\ Unlocked
    /\ rows' = [rows EXCEPT ![Attempt(w)] = RecordedStart(@, At(w, "refused"))]
    /\ Finish(w)
    /\ SaveSession
    /\ UNCHANGED <<session, provider, effects, alerts, repaid>>

-----------------------------------------------------------------------------
(* Checking an attempt: reconcile.reconcile.                               *)

(* A bug: a new attempt may be checked at once.                            *)
NeverTooEarly(row) == FALSE

BeforeFirstCheck(row) == ~row.checked /\ ~row.due

CheckIntervalElapsed(row) == ~row.recent

(* _claim: commits the check's date, then lets go of the lock.             *)
Claim(w, a) ==
    /\ At(w, "idle") /\ Unlocked
    /\ rows[a].status \in CheckableStates
    /\ CheckIntervalElapsed(rows[a])
    /\ ~BeforeFirstCheck(rows[a])
    /\ rows' = [rows EXCEPT ![a].checked = TRUE, ![a].recent = TRUE]
    /\ worker' = [worker EXCEPT ![w].pc = "asking", ![w].attempt = a]
    /\ SaveSession
    /\ UNCHANGED <<session, provider, effects, alerts, repaid>>

(* get_status, for the latest attempt, or the job of the provider's        *)
(* callback, for any.  What they look at first, with no lock, is what      *)
(* _claim looks at again.                                                  *)
GuestCheck(w, a) == Claim(w, a)

(* check_due_attempts and check_unresolved_attempts.                       *)
ScheduledCheck(w, a) ==
    /\ rows[a].due
    /\ rows[a].status = "Unresolved" => rows[a].age # "old"
    /\ Claim(w, a)

(* What check_status returns for an attempt: a request the provider does   *)
(* not know (404) reads as Failed.                                         *)
AnswerFor(p) ==
    [status |-> CASE p \in {"Absent", "InTransit"}  -> "Failed"
                  [] p = "Waiting"                  -> "Pending"
                  [] p \in {"Succeeded", "Mispaid"} -> "Succeeded"
                  [] OTHER                          -> p,
     exact |-> p = "Succeeded"]

(* The provider answers now; the answer is applied later.                  *)
Hear(w) ==
    /\ At(w, "asking")
    /\ worker' = [worker EXCEPT ![w].pc = "heard",
                                ![w].answer = AnswerFor(provider[Attempt(w)])]
    /\ UNCHANGED <<rows, session, provider, copies, effects, alerts, repaid>>

(* _next_attempt_check always sets a date to come, or none.                *)
ResolvedRow(row, resolution) ==
    [row EXCEPT !.status = resolution.attempt_status,
                !.duplicate = resolution.duplicate,
                !.amount_mismatch = resolution.amount_mismatch,
                !.due = FALSE]

(* _next_authorization_retry *)
NextAuthorizationRetry(tries) == IF tries >= MaxTries THEN "None" ELSE "Later"

PaidSession(a, result) ==
    [session EXCEPT !.status = "Paid",
                    !.transaction = IF result.status = "Succeeded" THEN a ELSE NoAttempt,
                    !.authorization = "Pending",
                    !.next_retry = NextAuthorizationRetry(session.tries)]

AfterRecord(a, resolution) ==
    IF AlertDue(resolution) THEN [Idle EXCEPT !.pc = "telling", !.attempt = a]
    ELSE IF SessionPaid(resolution) THEN [Idle EXCEPT !.pc = "authorizing"]
    ELSE Idle

Apply(w, a, resolution) ==
    /\ rows' = [rows EXCEPT ![a] = ResolvedRow(@, resolution)]
    /\ IF SessionPaid(resolution)
       THEN /\ session' = PaidSession(a, worker[w].answer)
            /\ repaid' = (repaid \/ session.status = "Paid")
       ELSE /\ session' = [session EXCEPT !.status = resolution.session_status]
            /\ UNCHANGED repaid
    /\ worker' = [worker EXCEPT ![w] = AfterRecord(a, resolution)]

(* A bug: the attempt is not looked at again once the lock is taken.       *)
RecordRegardless(w) ==
    LET a == Attempt(w)
        resolution == Resolve(session.status, rows[a].status, worker[w].answer,
                              rows[a].age # "young")
    IN  /\ At(w, "heard") /\ Unlocked
        /\ Apply(w, a, resolution) /\ SaveSession
        /\ UNCHANGED <<provider, effects, alerts>>

(* _record: under the lock again, unless the attempt is settled by now.    *)
Record(w) ==
    LET a == Attempt(w)
        resolution == Resolve(session.status, rows[a].status, worker[w].answer,
                              rows[a].age # "young")
    IN  /\ At(w, "heard") /\ Unlocked
        /\ IF rows[a].status \in CheckableStates
           THEN Apply(w, a, resolution) /\ SaveSession
           ELSE Finish(w) /\ UNCHANGED <<rows, session, copies, repaid>>
        /\ UNCHANGED <<provider, effects, alerts>>

(* alert_managers, once and with no retry.                                 *)
Tell(w) ==
    /\ At(w, "telling")
    /\ alerts' = [alerts EXCEPT ![Attempt(w)] = "Sent"]
    /\ Finish(w)
    /\ UNCHANGED <<rows, session, provider, copies, effects, repaid>>

-----------------------------------------------------------------------------
(* Authorizing a paid session: reconcile.authorize.                        *)

Paying(a) ==
    /\ rows[a].status = "Succeeded"
    /\ ~rows[a].duplicate
    /\ ~rows[a].amount_mismatch

(* A bug: a session that is Done is authorized again.                      *)
CanAuthorizeAgain == session.status = "Paid" /\ \E a \in Attempts : Paying(a)

CanAuthorize ==
    /\ session.status = "Paid"
    /\ session.authorization # "Done"
    /\ \E a \in Attempts : Paying(a)

(* Takes the lock.  The consumer then runs, uncommitted, and keeps it.     *)
Authorize(w) ==
    /\ Unlocked
    /\ IF CanAuthorize THEN Enter(w, "consuming") ELSE Finish(w)
    /\ UNCHANGED <<rows, session, provider, copies, effects, alerts, repaid>>

(* At the end of reconcile, or of retry_authorizations' selection.         *)
BeginAuthorize(w) == At(w, "authorizing") /\ Authorize(w)

(* retry_authorizations selects the session; its lock comes later.         *)
ScheduledRetry(w) ==
    /\ At(w, "idle")
    /\ session.status = "Paid"
    /\ session.authorization \in {"Pending", "Failed"}
    /\ session.next_retry = "Due"
    /\ Enter(w, "authorizing")
    /\ UNCHANGED <<rows, session, provider, copies, effects, alerts, repaid>>

(* The button's POST: refused at once unless the row is free, and no other *)
(* condition is looked at before authorize's own.                          *)
ManagerRetry(w) == At(w, "idle") /\ CanAuthorize /\ Authorize(w)

(* A consumer that commits: its effects stay whatever comes next, and the  *)
(* savepoint and the row lock are gone.                                    *)
ConsumerCommitsEarly(w) ==
    /\ ConsumerCommits
    /\ At(w, "consuming")
    /\ effects' = CountTo2(effects)
    /\ copies' = copies \cup {[worker    |-> w,
                               alerted   |-> session.alerted,
                               exhausted |-> session.exhausted]}
    /\ Enter(w, "committed")
    /\ UNCHANGED <<rows, session, provider, alerts, repaid>>

(* The copy of w with its flags as they were: an alert sets its flag       *)
(* without saving the session, so that nothing refuses to save over it.    *)
SavedOver(w, saved) ==
    \E copy \in copies :
        /\ copy.worker = w
        /\ session' = [saved EXCEPT !.alerted = copy.alerted, !.exhausted = copy.exhausted]

DoneSession == [session EXCEPT !.authorization = "Done", !.next_retry = "None"]

(* The consumer's effects and Done commit together, unless the effects are *)
(* committed already: Done is then refused if the session has been saved   *)
(* since (the save raises, as in Abandon).                                 *)
ConsumerReturns(w) ==
    /\ \/ At(w, "consuming") /\ effects' = CountTo2(effects) /\ session' = DoneSession
       \/ At(w, "committed") /\ Unlocked /\ SavedOver(w, DoneSession) /\ UNCHANGED effects
    /\ Finish(w)
    /\ SaveSession
    /\ UNCHANGED <<rows, provider, alerts, repaid>>

FailedTries == IF session.tries < MaxTries THEN session.tries + 1 ELSE MaxTries

(* A bug: the failed authorization is given no retry date.                 *)
FailedWithoutRetry ==
    [session EXCEPT !.authorization = "Failed", !.tries = FailedTries, !.next_retry = "None"]

FailedSession ==
    [session EXCEPT !.authorization = "Failed",
                    !.tries = FailedTries,
                    !.next_retry = NextAuthorizationRetry(FailedTries)]

(* A bug: without its savepoint, the session is not read anew.             *)
RaisesOverCopy(w, transient) ==
    /\ \/ At(w, "consuming") /\ session' = FailedSession
       \/ At(w, "committed") /\ Unlocked /\ SavedOver(w, FailedSession)
    /\ Finish(w)
    /\ SaveSession
    /\ UNCHANGED <<rows, provider, effects, alerts, repaid>>

(* _record_authorization_failure: the effects are rolled back to the       *)
(* savepoint, Failed is committed, and only then is the alert looked at.   *)
(* Without the savepoint the session is locked and read anew, and Failed   *)
(* is written whatever it says by now.                                     *)
ConsumerRaises(w, transient) ==
    /\ \/ At(w, "consuming")
       \/ At(w, "committed") /\ Unlocked
    /\ session' = FailedSession
    /\ IF ~transient /\ ~session.alerted THEN Enter(w, "alerting") ELSE Finish(w)
    /\ SaveSession
    /\ UNCHANGED <<rows, provider, effects, alerts, repaid>>

(* The flag is committed with the notifications, and is no save.           *)
AlertFailure(w) ==
    /\ At(w, "alerting") /\ Unlocked
    /\ session' = [session EXCEPT !.alerted = TRUE]
    /\ Finish(w)
    /\ UNCHANGED <<rows, provider, copies, effects, alerts, repaid>>

(* A bug: the job selects a session whose flag is set.                     *)
SelectExhaustedAgain(w) ==
    /\ At(w, "idle")
    /\ \A v \in Workers : ~At(v, "warning")
    /\ session.status = "Paid" /\ session.authorization = "Failed"
    /\ session.tries >= MaxTries
    /\ Enter(w, "warning")
    /\ UNCHANGED <<rows, session, provider, copies, effects, alerts, repaid>>

(* send_daily_alerts selects the session; the framework never queues this  *)
(* job while one is running.                                               *)
SelectExhausted(w) ==
    /\ At(w, "idle")
    /\ \A v \in Workers : ~At(v, "warning")
    /\ session.status = "Paid" /\ session.authorization = "Failed"
    /\ session.tries >= MaxTries /\ ~session.exhausted
    /\ Enter(w, "warning")
    /\ UNCHANGED <<rows, session, provider, copies, effects, alerts, repaid>>

(* _alert_authorization looks at the session no more: it may be booked.    *)
AlertExhausted(w) ==
    /\ At(w, "warning") /\ Unlocked
    /\ session' = [session EXCEPT !.exhausted = TRUE]
    /\ Finish(w)
    /\ UNCHANGED <<rows, provider, copies, effects, alerts, repaid>>

-----------------------------------------------------------------------------
(* Cancelling, failing, and time.                                          *)

(* void_open_sessions: refused while the row is locked, or paid and not    *)
(* booked; a session no longer Open is left alone.                         *)
VoidOpenSession ==
    /\ Unlocked
    /\ session.status = "Open"
    /\ session' = [session EXCEPT !.status = "Void"]
    /\ SaveSession
    /\ UNCHANGED <<rows, worker, provider, effects, alerts, repaid>>

(* The process dies, or its step raises and the caller rolls back and logs *)
(* (_start after a failed _record_start, _check_with_provider, _each, a    *)
(* failed alert, a save refused): what it has not committed is lost.       *)
Abandon(w) ==
    /\ ~At(w, "idle")
    /\ IF At(w, "sending") THEN LoseTrackOf(Attempt(w)) ELSE UNCHANGED provider
    /\ alerts' = IF At(w, "telling") THEN [alerts EXCEPT ![Attempt(w)] = "Lost"] ELSE alerts
    /\ copies' = {copy \in copies : copy.worker # w}
    /\ Finish(w)
    /\ UNCHANGED <<rows, session, effects, repaid>>

(* The provider's side: a late request arrives, a payment is decided.      *)
LateArrival(a) ==
    /\ provider[a] = "InTransit"
    /\ provider' = [provider EXCEPT ![a] = "Waiting"]
    /\ UNCHANGED <<rows, session, worker, copies, effects, alerts, repaid>>

Decide(a, outcome) ==
    /\ provider[a] = "Waiting"
    /\ provider' = [provider EXCEPT ![a] = outcome]
    /\ UNCHANGED <<rows, session, worker, copies, effects, alerts, repaid>>

(* INITIATION_WINDOW is longer than an initiation can take: while a worker *)
(* is sending the request, or it is still on its way, the first check date *)
(* stays in the future.                                                    *)
InitiationRuns(a) ==
    \/ \E w \in Workers : At(w, "sending") /\ Attempt(w) = a
    \/ provider[a] = "InTransit"

CheckDateComes(a) ==
    /\ rows[a].status \in CheckableStates
    /\ ~rows[a].due
    /\ rows[a].checked \/ ~InitiationRuns(a)
    /\ rows' = [rows EXCEPT ![a].due = TRUE]
    /\ UNCHANGED <<session, worker, provider, copies, effects, alerts, repaid>>

CheckIntervalPasses(a) ==
    /\ rows[a].status \in CheckableStates
    /\ rows[a].recent
    /\ rows' = [rows EXCEPT ![a].recent = FALSE]
    /\ UNCHANGED <<session, worker, provider, copies, effects, alerts, repaid>>

(* The 72 hours after the deadline count for an Unresolved attempt only.   *)
DeadlinePasses(a) ==
    /\ rows[a].status \in CheckableStates
    /\ \/ rows[a].age = "young" /\ rows' = [rows EXCEPT ![a].age = "late"]
       \/ /\ rows[a].age = "late" /\ rows[a].status = "Unresolved"
          /\ rows' = [rows EXCEPT ![a].age = "old"]
    /\ UNCHANGED <<session, worker, provider, copies, effects, alerts, repaid>>

RetryDateComes ==
    /\ session.next_retry = "Later"
    /\ session' = [session EXCEPT !.next_retry = "Due"]
    /\ UNCHANGED <<rows, worker, provider, copies, effects, alerts, repaid>>

-----------------------------------------------------------------------------
StartStep(w) ==
    \/ \E a \in Attempts : OpenAttempt(w, a)
    \/ RequestArrives(w)
    \/ SendAccepted(w)
    \/ SendRefused(w)
    \/ SendUnanswered(w)
    \/ RecordStart(w)

CheckStep(w) ==
    \/ \E a \in Attempts : GuestCheck(w, a)
    \/ \E a \in Attempts : ScheduledCheck(w, a)
    \/ Hear(w)
    \/ Record(w)
    \/ Tell(w)

AuthorizeStep(w) ==
    \/ BeginAuthorize(w)
    \/ ScheduledRetry(w)
    \/ ManagerRetry(w)
    \/ ConsumerCommitsEarly(w)
    \/ ConsumerReturns(w)
    \/ \E transient \in BOOLEAN : ConsumerRaises(w, transient)
    \/ AlertFailure(w)
    \/ SelectExhausted(w)
    \/ AlertExhausted(w)

ProviderStep(a) ==
    \/ LateArrival(a)
    \/ \E outcome \in Outcomes : Decide(a, outcome)

TimeStep(a) ==
    \/ CheckDateComes(a)
    \/ CheckIntervalPasses(a)
    \/ DeadlinePasses(a)

Next ==
    \/ \E w \in Workers :
          StartStep(w) \/ CheckStep(w) \/ AuthorizeStep(w) \/ Abandon(w)
    \/ \E a \in Attempts : ProviderStep(a) \/ TimeStep(a)
    \/ VoidOpenSession
    \/ RetryDateComes

Spec == Init /\ [][Next]_vars

(***************************************************************************)
(* What the scheduling guarantees.  Time passes, a request returns within  *)
(* its timeout, and one still on its way by then arrives.  The scheduler's *)
(* jobs run forever, the daily one not each time while a consumer runs,    *)
(* and the provider does not fail every query, nor are processes killed at *)
(* the same step every time: hence strong fairness.  Nothing is assumed of *)
(* the payer, the provider's callback, the provider's verdict, the         *)
(* consumer's success or the managers.                                     *)
(***************************************************************************)
Returns(w) == SendAccepted(w) \/ SendRefused(w) \/ SendUnanswered(w)

ConsumerEnds(w) ==
    ConsumerReturns(w) \/ \E transient \in BOOLEAN : ConsumerRaises(w, transient)

Fairness ==
    /\ WF_vars(RetryDateComes)
    /\ \A a \in Attempts :
          /\ WF_vars(CheckDateComes(a))
          /\ WF_vars(CheckIntervalPasses(a))
          /\ WF_vars(DeadlinePasses(a))
          /\ WF_vars(LateArrival(a))
          /\ SF_vars(\E w \in Workers : ScheduledCheck(w, a))
          /\ SF_vars(\E w \in Workers : Attempt(w) = a /\ Hear(w))
          /\ SF_vars(\E w \in Workers : Attempt(w) = a /\ Record(w))
    /\ \A w \in Workers :
          /\ WF_vars(Returns(w))
          /\ WF_vars(RecordStart(w) \/ Tell(w) \/ AlertFailure(w))
    /\ SF_vars(\E w \in Workers : ScheduledRetry(w))
    /\ SF_vars(\E w \in Workers : BeginAuthorize(w))
    /\ SF_vars(\E w \in Workers : ConsumerEnds(w))
    /\ SF_vars(Unlocked /\ \E w \in Workers : SelectExhausted(w))
    /\ SF_vars(\E w \in Workers : AlertExhausted(w))

FairSpec == Spec /\ Fairness

-----------------------------------------------------------------------------
(* Safety.                                                                 *)

(* Every field holds a value of its type.                                  *)
TypeOK ==
    /\ rows \in [Attempts -> RowType]
    /\ session \in SessionType
    /\ worker \in [Workers -> WorkerType]
    /\ provider \in [Attempts -> ProviderStates]
    /\ copies \subseteq Copies
    /\ effects \in 0 .. 2
    /\ alerts \in [Attempts -> {"None", "Sent", "Lost"}]
    /\ repaid \in BOOLEAN

(* However the payer's requests, the checks and their late answers         *)
(* interleave, at most one attempt is Initiated or Pending: the payer's    *)
(* phone never shows two requests this app still considers live            *)
(* (_open_attempt, ensure_can_start_attempt, _record).                     *)
OneInFlight ==
    \A a, b \in Attempts :
        {rows[a].status, rows[b].status} \subseteq AttemptInFlightStates => a = b

(* A Paid session has exactly one attempt that pays it, an Open one none:  *)
(* no stale answer can turn the paying attempt into a duplicate, nor pay   *)
(* the session a second time or with another amount (_record, resolve).    *)
PaidByOne ==
    /\ session.status = "Paid" => \E a \in Attempts :
          Paying(a) /\ \A b \in Attempts : Paying(b) => b = a
    /\ session.status = "Open" => \A a \in Attempts : ~Paying(a)

(* What pays a session is a payment the provider confirmed in the          *)
(* session's amount and currency, and the session carries the transaction  *)
(* of that payment, unless a result was taken as paying it again (_record, *)
(* amounts_match, currencies_match).                                       *)
PaidInFull ==
    session.status = "Paid" =>
        \A a \in Attempts : Paying(a) =>
            /\ provider[a] = "Succeeded"
            /\ repaid \/ session.transaction = a

(* Done and the consumer's effects go together, and the effects happen at  *)
(* most once, unless a result was taken as paying a session already Paid   *)
(* or the consumer commits on its own (authorize,                          *)
(* _record_authorization_failure; see ConsumerRunsOnce).                   *)
BookedOnce ==
    /\ session.authorization = "Done" => effects > 0
    /\ effects > 0 => session.status = "Paid"
    /\ ~repaid /\ ~ConsumerCommits => effects = (IF session.authorization = "Done" THEN 1 ELSE 0)

(* What the proviso "unless a result was taken as paying the session again"*)
(* costs: the answer was about another attempt than the paying one, and a  *)
(* final or pending one at that.  No answer about the attempt that pays,   *)
(* however late, and no refusal of another pays a session twice (_record,  *)
(* session_paid).                                                          *)
RepaidByAnother ==
    repaid => /\ session.status = "Paid"
              /\ \E a, b \in Attempts :
                    /\ Paying(a) /\ b # a
                    /\ rows[b].status \notin {"Absent", "Initiated", "Error"}

(* A paid session that is not booked is never forgotten: some process is   *)
(* on its way to authorize it, the scheduler has a date for it, or it has  *)
(* used up its tries and failed, which the daily alert selects (_record,   *)
(* _record_authorization_failure, _next_authorization_retry).              *)
NeverForgotten ==
    session.status = "Paid" /\ session.authorization # "Done" /\ ~repaid
        => \/ session.next_retry # "None"
           \/ session.authorization = "Failed" /\ session.tries = MaxTries

(* The provider's verdict an attempt's final status stands for.            *)
Agrees(status, p) ==
    CASE status = "Succeeded" -> p \in {"Succeeded", "Mispaid"}
      [] status = "Failed"    -> p \in {"Absent", "Failed"}
      [] status = "Expired"   -> p = "Expired"
      [] status = "Error"     -> p = "Absent"
      [] OTHER                -> TRUE

(* A settled attempt says what the provider says: none is written off as   *)
(* Failed or Error while its payment can still be approved, but for one    *)
(* that reads as Failed because its request arrived late.  Initiation, its *)
(* window, the checks and their stale answers must all fit for that        *)
(* (_open_attempt, _record_start, before_first_check, _record).            *)
AgreesWithProvider ==
    \A a \in Attempts :
        \/ Agrees(rows[a].status, provider[a])
        \/ LateArrivals /\ rows[a].status = "Failed"

(* Money received that does not pay the session (a duplicate, another      *)
(* amount, a session voided meanwhile) is told to the managers, once: the  *)
(* alert is sent, or one process is about to send it, or was stopped just  *)
(* then (_record, alert_managers).                                         *)
Tellers(a) == {w \in Workers : At(w, "telling") /\ Attempt(w) = a}

UnbookedMoneyTold ==
    \A a \in Attempts :
        IF rows[a].status = "Succeeded" /\ ~(Paying(a) /\ session.status = "Paid")
        THEN IF alerts[a] = "None"
             THEN \E w \in Workers : Tellers(a) = {w}
             ELSE Tellers(a) = {}
        ELSE alerts[a] = "None" /\ Tellers(a) = {}

(* While a request is being sent, no process asks the provider about it or *)
(* holds an answer: it would read as Failed (INITIATION_WINDOW, _claim).   *)
NoCheckWhileSending ==
    \A v, w \in Workers :
        At(v, "sending") /\ worker[w].pc \in {"asking", "heard"} => Attempt(v) # Attempt(w)

(* Every step of an attempt or of the session is one of the code's         *)
(* transition tables: no late initiation answer, stale check or            *)
(* cancellation leaves a final state (ATTEMPT_TRANSITIONS, _record_start). *)
LegalTransitions ==
    [][/\ \A a \in Attempts :
             \/ rows[a].status' = rows[a].status
             \/ rows[a].status = "Absent" /\ rows[a].status' = "Initiated"
             \/ /\ rows[a].status # "Absent"
                /\ rows[a].status' \in AttemptTransitions[rows[a].status]
       /\ \/ session.status' = session.status
          \/ session.status' \in SessionTransitions[session.status]]_vars

(* What is booked stays booked: no late failure, stale retry or stale      *)
(* answer takes Done back, unless a result was taken as paying a session   *)
(* already Paid or the consumer let go of the row lock (authorize,         *)
(* _record_authorization_failure, which does not look at it again).        *)
DoneIsFinal ==
    [][session.authorization = "Done" /\ ~ConsumerCommits
          => session'.authorization = "Done" \/ repaid']_vars

(* However processes die, retries succeed meanwhile and the daily job runs *)
(* again, managers do not hear twice that an authorization has used up its *)
(* tries: the alert goes out unflagged only, and nothing takes its flag    *)
(* back but Done, saved over it by a consumer that has committed on its    *)
(* own (send_daily_alerts, _alert_authorization, authorize).               *)
ExhaustionToldOnce ==
    [][/\ \A w \in Workers : AlertExhausted(w) => ~session.exhausted
       /\ session.exhausted =>
             \/ session'.exhausted
             \/ /\ session'.authorization = "Done"
                /\ \E w \in Workers : At(w, "committed") /\ ~At(w, "committed")']_vars

-----------------------------------------------------------------------------
(* The abstract specification.                                             *)

Money(a) ==
    IF rows[a].status # "Succeeded" THEN "None"
    ELSE IF Paying(a) /\ session.status = "Paid" THEN "Pays"
    ELSE "Surplus"

Promise == INSTANCE Settlement WITH
    state  <- session.status,
    money  <- [a \in Attempts |-> Money(a)],
    booked <- effects > 0

(* Handlers, locks, late answers and crashes together keep Settlement's    *)
(* promise: each step is one of its steps, or changes nothing it sees.     *)
ImplementsSettlement == Promise!Spec

-----------------------------------------------------------------------------
(* Liveness.                                                               *)

(* An attempt the provider never decides does not block the payer forever: *)
(* it leaves Initiated and Pending, if only for Unresolved, so a new one   *)
(* may start (check_due_attempts, resolve's past_deadline).                *)
InFlightEnds ==
    \A a \in Attempts :
        rows[a].status \in AttemptInFlightStates
            ~> rows[a].status \notin AttemptInFlightStates

(* A paid session ends up booked, or its managers are told that its tries  *)
(* are used up, whatever processes die on the way and even if the consumer *)
(* commits on its own (retry_authorizations, send_daily_alerts).           *)
PaidIsSettled ==
    session.status = "Paid" ~> session.authorization = "Done" \/ session.exhausted \/ repaid

-----------------------------------------------------------------------------
(* What the documents say and the code does not do.                        *)

(* "The lock guarantees that a second trigger finds Done and does not run  *)
(* the callback a second time" (docs/ARCHITECTURE.md, D4; SessionPaid's    *)
(* own docstring): the consumer's effects are committed at most once.      *)
ConsumerRunsOnce == effects <= 1

(* "A status query sent before the provider has seen the request could     *)
(* read as Failed", hence the first check date (docs/ARCHITECTURE.md,      *)
(* Attempt): no payment is written off while its request is on its way.    *)
NoRequestWrittenOff == \A a \in Attempts : Agrees(rows[a].status, provider[a])

(* The first authorization failure that needs a person "is sent once per   *)
(* session" (docs/ARCHITECTURE.md, Scheduled tasks).                       *)
FailureAlertedOnce == [][\A w \in Workers : AlertFailure(w) => ~session.alerted]_vars
=============================================================================
