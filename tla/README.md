# A TLA+ model of Local Payments

Local Payments is a Frappe application that takes push-to-phone payments (MTN
MoMo for now) for ERPNext and other consumers. A consumer asks for a payment
URL; the payer opens it, enters a phone number and approves the request on the
phone; the application asks the provider what became of it, and once it is paid
runs the consumer's `on_payment_authorized`.

The difficulty is that nobody is in charge: pages, the provider's callback, the
scheduler's jobs, managers and a cancellation all work on the same rows from
processes of their own, the provider answers late or not at all, and any of
them may stop between two commits. These modules model that, and say what stays
true all the same.

## Inventory

Paths are relative to `src/local_payments/`.

| Part | State it keeps | Operations | What makes it correct |
| --- | --- | --- | --- |
| Lifecycle rules, `lifecycle.py` | none | `resolve`, transition tables, `ensure_can_start_attempt` | a payment is classed once; final states stay |
| Reconciliation, `reconcile.py` | session and attempt rows | `reconcile` (`_claim`, provider call, `_record`), `authorize`, alerts, dates | one payment pays, booked once, nothing forgotten, what is surplus is told |
| Payer endpoints, `api.py` | attempt rows | `start_attempt`, `get_status`, `mtn_momo_callback` | one request on the phone; no request written off while it can be approved |
| Scheduler, `scheduler.py`, `hooks.py` | due dates, alert flags | two check jobs, a retry job, a daily job with two alerts | what is due is done; what is given up is told once |
| Gateway mixin, `gateway.py` | sessions | `get_payment_url`, `payer_msisdn` | one open session per offer |
| ERPNext hook, `erpnext.py` | the Payment Request | `on_payment_authorized`, `void_open_sessions` | one entry per request; a cancelled request leaves no payment behind |
| MTN client, `providers/mtn_momo.py` | a token in a shared cache | `request_to_pay`, `check_status`, `_token` | what an answer says about the request is right |
| MTN settings, `doctype/mtn_momo_settings` | credentials, the Integration Request log | `initiate`, `check_status`, `on_update` | credentials and cached token fit; the log agrees with MTN |
| Phone numbers, `providers/msisdn.py` | none | `normalize_msisdn` | what the page takes is never refused later |
| Documents, `doctype/local_payment*` | the rows themselves | validation, `retry_authorization` | state changes only through the flow |
| Checkout page, desk form, test settings | none | display | not modelled |

They meet in the database. Every handler takes the session's row lock
(`SELECT ... FOR UPDATE`), writes and commits. Two calls are made outside the
lock: the initiation (between `_open_attempt` and `_record_start`) and the
status query (between `_claim` and `_record`). One is made inside it: the
consumer's callback, whose effects commit together with `authorization = Done`.
A consumer that commits by itself breaks that: the lock and the savepoint are
gone while it still runs.

What is hard, and therefore what the properties are about: answers applied in
another order than they were given; a document read before a lock is taken or
after it is let go; a process that dies between two commits; a request that
overtakes, or is overtaken by, the question about it; a retry of what is done
already; two locks wanted in opposite orders; bounded batches; dates that fall
between two runs of a job. The hazards in `PROJECT.json` name the line of each.

## Modules

| Module | Models | Uses |
| --- | --- | --- |
| `Lifecycle` | `lifecycle.py`: statuses, transition tables, `Resolve` | |
| `Settlement` | abstract: what a session promises to whoever keeps the accounts | |
| `Provider` | abstract: what the application needs of a provider's `initiate` and `check_status` | |
| `LocalPayment` | one session: start, check, authorize, void, time, the provider | `Lifecycle`, implements `Settlement` |
| `PaymentRequest` | one ERPNext request and its sessions: the hook, the cancellation, `get_payment_url` | each session implements `Settlement` |
| `Msisdn` | how a number is read, by the page and before it is sent | |
| `MtnMomoClient` | RequestToPay, status queries, the shared token, the log, a change of credentials | `Msisdn`, implements `Provider` |
| `Scheduler` | batches, their order, the time budget, the daily alert of attempts | |
| `Dates` | the ladder of checks and the delays of retries, in minutes, against the hourly jobs | |
| `LocalPaymentProofs`, `LocalPaymentSteps`, `PaymentRequestProofs`, `MtnMomoClientProofs`, `MsisdnProofs`, `SchedulerProofs`, `DatesProofs` | theorems | the module they are about, TLAPS |
| `MC...` | the instances TLC checks | |

### LocalPayment

A step is one transaction under the row lock, so the interleavings are those
the lock allows. A process (`worker`) is at a program point:

| Point | Where in the code |
| --- | --- |
| `sending` | in `gateway.initiate`, the Initiated row committed |
| `accepted`, `refused` | before `_record_start`, with the answer in hand |
| `asking`, `heard` | after `_claim`; with the provider's answer, before `_record` |
| `telling` | after `_record`, before `alert_managers` |
| `authorizing`, `consuming` | before `authorize`; in the consumer, holding the lock |
| `committed` | in a consumer that has committed by itself: no lock, no savepoint |
| `alerting` | after `_record_authorization_failure`'s commit, before its alert |
| `warning` | `send_daily_alerts` has selected the session, its tries used up |

`Abandon` stops a process at any of them: a killed worker, or an exception its
caller logs. `rows` holds the attempts; dates are what they are compared for
(`due`, `recent`, `age`). `provider` holds what the provider knows under each
attempt's id, `Absent` until the request arrives. Amounts and currencies are
`exact` or not. An early return that changes nothing (a claim too soon, an
authorization of a session that is Done) is no step, or returns to `idle`.

A consumer that commits (`ConsumerCommitsEarly`, with the constant
`ConsumerCommits`) keeps a copy of the session across its own commit. `copies`
holds those that nobody has saved over: `ConsumerReturns` needs one, as Frappe
refuses to save an older copy, while a failure is recorded from a fresh read
under a new lock. `session.alerted` and `session.exhausted` are the flags of the
two alerts about an authorization. They are set without saving the session
(`update_modified=False`), so that a copy made before one was set is saved
whole over it, and takes the flag back (`SavedOver`).

Assumptions about what is outside the source:
- `FOR UPDATE` reads the latest committed row, and an uncommitted one waits;
- an initiation ends, and its request arrives or is lost, within
  `INITIATION_WINDOW` (`InitiationRuns`; `CallFitsWindow` of `MtnMomoClient` is
  why an initiation ends within it). With `LateArrivals` the request may arrive
  after its sender gave up waiting.

`GuestCheck` is the page's poll and the callback's job. Both look at the attempt
before they queue or call `reconcile`, with no lock; what they look at, `_claim`
looks at again, and an attempt that `_claim` finds checkable was so before.

### PaymentRequest

A session here is Absent, Open, Paid or Void. `trigger[s]` is the request the
hook of session `s` has in memory (read by `authorize`, which holds the
session's lock); `Settle` reads it again under its own lock. `cancel` is a
cancellation: it holds the request, has listed the sessions, and takes their
locks without waiting. A session a payer's page saves in the meantime
(`SaveOpenSession`) is in `cancel.changed`; saving the older copy throws, and
undoes the whole cancellation (`StaleSessions`). `get_payment_url` does not look
at the request, so that a cancelled one may be given a session too. `Direct` stands for any call of
the hook that is not an authorization. `BookElsewhere` is ERPNext booking the
request by itself.

### MtnMomoClient and Msisdn

A token is the position at which MTN issued it; `issued` remembers for which
credentials. `dead` tokens get a 401, so does a refused subscription key. The
cache drops a token at the end of its time to live (`LeaveCache`), which is no
later than MTN's unless MTN ends it early. A
call makes one pass, or two with a fresh token; it initiates its own request or
asks about another's. `settings` has the committed credentials and those being
saved: `on_update` drops the cached token before the save commits. The
Integration Request is what `log_exchanges` writes at the end of an initiation,
a function of what was sent and of the outcome.

`CALL_TIMEOUT` adds the connect and the read timeout of one HTTP call. The read
timeout of `requests` is between two reads, so an answer that trickles in takes
longer; `CallFitsWindow` leaves that out.

A request whose sender got no answer may reach MTN after all, for as long as
MTN does not have it (`ArriveLate`).

The client implements `Provider`, in which a call has no token, pass or
credential: it takes effect at one instant, and what it returns is so then. A
call there is what `LocalPayment` takes it for:

| `Provider` | Step of `MtnMomoClient` | Step of `LocalPayment` |
| --- | --- | --- |
| `TakeIn` | a `Send` answered 202 or 409 | `SendAccepted` |
| `Refuse` | a `Send` answered 4xx, a second `Refused`, `FetchFails`, `RefuseLocally` | `SendRefused` |
| `LoseTrack` | a `Send` with no answer | `SendUnanswered` |
| `ArriveLate` | `ArriveLate` | `LateArrival` |
| `Answer` | the last step of a query | `Hear`; no answer is `Abandon` |
| `Decide` | `Decide` | `Decide` |

A number is a sequence of characters, read twice: when the payer types it and
when it is sent. `-` stands for every separator. Country codes do not begin
with a 0 (`CountryCodes`), as the settings' message asks; their check `[0-9]+`
accepts `002`, with which a number the page took would be refused when it is
sent.

### Scheduler

`due` is the attempts whose `next_check_on` has come, oldest first. A check job
selects from it, keeps `BATCH_SIZE`, and handles at least `Reach` of them
before the time budget can stop it. The daily job takes its batch from those
given up and not alerted, by deadline. `Batches(job)` holds the batches that a
job may take of what it selects: the first ones in its order, `BATCH_SIZE` at
most. An answer gives the attempt a new date; a query that raises does not, since `_record` is where the
date is written. The jobs run one at a time here; whatever another process does
meanwhile is `CheckElsewhere`, or `PaidByAnother` when it pays the session of an
attempt with another attempt (`superseded`). The daily job reads that session
with no lock (`ReadSession`), and it may be paid before the alert. `unsaved` is
the flags the daily job has set and not committed, which a failed alert or a
kill takes back. `retry_authorizations` and the alert of used-up tries are
actions of `LocalPayment`, beside what they race with.

### Dates

The times at which the hourly jobs get to an attempt or an authorization, as
functions of the minute at which the job runs, of how late in a run an item
comes and, for an attempt, of when it was first found Unresolved. Two facts hold
of all of them. An attempt that the hourly job alone asks about, with an answer
each time, is asked 11 to 15 times within the 72 hours after its deadline
(`LadderSpansThreeDays`). The tries of an authorization, if all fail and the
hourly job alone repeats them, end 15 hours after the first at the earliest and
within a day of the payment (`BackoffFitsADay`).

They are facts about the constants of the code and the period of its jobs, and
not about every execution: the page asks about an Unresolved attempt every 10
seconds while it is open, a query that raises or a run that is killed or full
leaves a rung out, and a manager's retry counts as a try, so that the tries may
be used up in minutes. No state enters into them, so they are neither invariants
nor bound to a run: TLC evaluates them (`DatesFit` in `MCScheduler`), and
`DatesProofs` proves them. `next_check_on` is an hour after the answer is
recorded, a little later than the run that asked: the next hourly run misses it,
and in the first six hours the questions really come every two hours.

## What TLC checks

Runs that pass:

| Run | Instance | What it shows |
| --- | --- | --- |
| `local_payment` | 2 processes, 2 attempts, 2 tries; 527 thousand states | the safety of a session below, and that `Spec` implements `Settlement` |
| `local_payment_live` | 2 processes, 1 attempt, requests that arrive late, a consumer that may commit; 18 thousand states | an attempt leaves Initiated and Pending; a paid session is booked, or its managers are told that its tries are used up; the flag of that alert is taken back by Done alone |
| `payment_request` | 2 sessions, 2 callers, 2 offers; 76 thousand states | booked once, Done means booked, each session keeps `Settlement`'s promise, a cancellation ends and closes what it listed |
| `mtn_momo_client` | 2 processes, 2 credentials, 4 tokens, 3 formats, 6 characters; 1.43 million states | what outcome, log and verdict say is so at MTN; a call fits its window; a dead token costs one retry; no number is refused late; `Spec` implements `Provider` |
| `scheduler` | 3 attempts (one never answered, one contested), batches of 2, any finite number of kills; 24 thousand states | what is due is asked about, every attempt ends, what is given up is told once |

The safety properties of `local_payment`: one attempt in flight, one that pays,
in full (`OneInFlight`, `PaidByOne`, `PaidInFull`); booked once and for good,
never forgotten, used-up tries told once (`BookedOnce`, `DoneIsFinal`,
`NeverForgotten`, `ExhaustionToldOnce`); no attempt settled against the provider
or asked about while it is sent, but for a request that arrives after its
sender stopped waiting (`AgreesWithProvider`, `NoCheckWhileSending`); a session
paid again only by an answer about another attempt (`RepaidByAnother`);
surplus money told (`UnbookedMoneyTold`); legal transitions only
(`LegalTransitions`).

`ExhaustionToldOnce` is checked in `local_payment_live` too, where the consumer
may commit on its own. It has two parts: the alert goes out while its flag is
not set, and nothing takes the flag back but Done, in the save of such a
consumer. If that Done is then overwritten by the failure of another process,
which `DoneIsFinal` does not exclude for these consumers, the alert goes out
again.

The bounds are the smallest at which the cases happen. Two processes suffice
for a stale answer, two authorizations or two alerts at once, as every conflict
here is of one process with another over one row. Two attempts are what a
duplicate, an attempt in flight beside an unresolved one and a repaid session
take. Two tries have a first, a repeated and a last failure. Four tokens let
each of two calls renew once. Batches of two among three attempts leave one
over. Liveness of a session is checked with one attempt because a second one
multiplies the graph and blocks nothing of the first. Six typed characters hold
every number of the small formats behind a `+` or `00` and a separator. The
minutes of `Dates` are the real ones, over every minute of the hour and every
lag up to five minutes. Symmetry is used for safety only. The view of
`local_payment` leaves out the dates of settled attempts, which no action and no
property reads.

Runs that TLC refutes, each against a sentence of the documentation or of a
comment (quoted in `PROJECT.json`, "findings"):

| Run | What happens |
| --- | --- |
| `consumer_runs_once` | An attempt is Unresolved, a second one pays and is booked, then the first is answered Failed. `session_paid` is true for it too: the session goes from Done back to Pending and the consumer runs again. |
| `failure_alerted_once` | Two authorizations fail one after the other; both test the alerted flag before either sets it. |
| `no_request_written_off` | A send times out, the check that follows gets a 404, and the request arrives after all. |
| `one_open_session` | Two callers look for a session before either creates one. |
| `cancelled_means_booked` | A session is created after the cancellation listed the request's sessions; it is paid, and the cancelled request refuses the booking. |
| `old_tokens_dropped` | A token fetched with the old credentials is cached after the save dropped the cached one. |
| `left_over_is_picked_up` | As many attempts as a batch holds raise at every query; their dates stay the oldest, and the third attempt is never asked about. |

`BookedOnce`, `PaidInFull`, `NeverForgotten`, `DoneIsFinal` and `PaidIsSettled`
hold unless a result was taken as paying a session that was Paid already
(`repaid`), the first of these; everything else is checked with that behaviour
in the model. The exactly-once half of `BookedOnce`, and `DoneIsFinal`, also
need a consumer that leaves the commit to the application: one that commits and
then raises is retried, and its effects come again. `RepaidByAnother` says what
that proviso comes to: a status query was answered about another attempt than
the paying one. Hence one attempt to a session runs its consumer
once, which `OneAttemptRunsOnce` proves. In the same way
`InTimeNoneIsWrittenOff` bounds `no_request_written_off`: late requests are all
that is ever written off.

Noticed in the text, not shown by a run: an attempt about which every query
raises never becomes Unresolved, so the alert of docs/ARCHITECTURE.md:380-383
never selects it; docs/gateways/mtn-momo.md:189-190 speaks of a 5-second
interval where `MIN_CHECK_INTERVAL` is 10 seconds; "Each alert is sent once,
recorded by a flag" (scheduler.py:100) fails beside a consumer that commits on
its own, as above; the retry button's condition
(docs/ARCHITECTURE.md:450) is not tested by `retry_authorization` itself; a
country code that begins with 0 passes the settings' check, against its message.

### Fairness

Nothing is assumed of the payer, the page, the callback, the managers, the
consumer or the provider's verdict. Dates come, a request ends within its
timeout, and one still on its way by then arrives: weak fairness. The
scheduler's jobs run for ever and handle what is due, so a check, a retry or an
alert that becomes possible again and again happens; nor is the same step
killed, or does the same query fail, every time: strong fairness. A consumer
that runs whenever the daily job comes by, and so keeps the row locked, is ruled
out as well (`Unlocked /\ SelectExhausted`). For the check of a due attempt,
`DueIsChecked` of `Scheduler` is where that comes from, and
`left_over_is_picked_up` shows when it fails: too many attempts about which
every query raises.

In `Scheduler` every job gets its turn and goes on with its batch, a query or an
alert that may succeed does if it is tried again and again, and kills are
finitely many, however many. In `PaymentRequest` a cancellation and a hook that
has its locks run to their end; no lock wait need time out.

## What is proved

TLAPS proves every safety property and every refinement that a run checks, for
every number of processes, attempts, sessions, callers, tries, tokens,
credentials, characters and batch sizes, each as `Spec => Property`:

| Module | Properties |
| --- | --- |
| `LocalPaymentProofs` | `TypeOK`, `OneInFlight`, `PaidByOne`, `BookedOnce`, `NeverForgotten`, `AgreesWithProvider`, `NoCheckWhileSending` |
| `LocalPaymentSteps` | `PaidInFull`, `RepaidByAnother`, `UnbookedMoneyTold`, `LegalTransitions`, `DoneIsFinal`, `ExhaustionToldOnce`, and the refinement `ImplementsSettlement` |
| `PaymentRequestProofs` | `TypeOK`, `BookedAtMostOnce`, `DoneMeansBooked`, `CancelClosesListed`, and the refinement of every session, `SessionsKeepPromise` |
| `MtnMomoClientProofs` | `TypeOK`, `ErrorMeansNothingCreated`, `LogAgrees`, `VerdictIsMtns`, `CallFitsWindow`, `RefusedOnFreshToken`, `NumberIsNeverRefused`, and the refinement `KeepsContract` |
| `SchedulerProofs` | `TypeOK`, `ToldOnce`, `FlagMeansTold` |

And of the code that keeps no state: `ReadTwiceTheSame` (`MsisdnProofs`),
`LadderSpans` and `BackoffFits` (`DatesProofs`).

They rest on the assumptions on constants that the modules name
(`NoAttempt \notin Attempts`, bounds positive, outcomes among those the code
knows) and on no others. Three have a hypothesis of their own, which says where
the property ends: `NumberIsNeverRefused` needs `CountryCodes`, which the code
asks for and does not check; `OneAttemptRunsOnce` one attempt and a consumer
that does not commit; `InTimeNoneIsWrittenOff` no late requests. Without its
hypothesis TLC refutes each of the last two (`consumer_runs_once`,
`no_request_written_off`).

**The session.** The invariant is built in layers, each inductive given the
ones before. `TypeInv` adds to the types that a busy process knows its attempt,
without which no row it updates could be named. `MoneyInv` is `OneInFlight` and
`PaidByOne`, inductive together: only a checkable attempt is ever resolved, and
`Resolve` calls it a duplicate as soon as the session is Paid. All but four
actions leave the statuses and flags alone, so they share one lemma.
`BookingInv` adds that the consumer runs in at most one process, in a session
Paid and not Done: that is what makes its commit the first. `ProviderInv`
follows a request from its sender to its verdict: who sends it, that it is
unheard of while refused, that it has been checked before anyone asks, and that
an answer in hand is still true of the provider when it is final. Without the
last, nothing would connect a stale answer to the row it settles.

**The session's steps.** With those invariants, `LocalPaymentSteps` looks at one
step at a time. `LegalTransitions` needs that a row which is resolved was
checkable; `DoneIsFinal` that a process in the consumer excludes Done.
`PaidInFull` carries the transaction along `PaidByOne`. For `RepaidByAnother`,
the row a `Record` resolves was checkable, so it is not the one that pays: that
one is Succeeded (`OnlyRow`). An attempt that has been answered about stays so
(`AnsweredStays`), and a paying one keeps paying (`PayingStays`).
`UnbookedMoneyTold` needs that an attempt has one teller at most (`ToldByOne`),
and `ExhaustionToldOnce` that at most one process is warning, in a session not
flagged yet, and that no copy a consumer kept has a flag the session lacks
(`WarnedByOne`): the save of a copy is then the one step that may clear the flag
(`FlagCases`), and it writes Done (`DoneFields`). For `ImplementsSettlement` each action is one step of the
abstract specification or a stutter: `Record` is `Pay` or `ReceiveSurplus` when
its answer settles a payment, the consumer's return or early commit is `Book`,
`VoidOpenSession` is `Cancel`, and every other action leaves the mapped state
alone.

**The request.** The document in the hook's memory may be stale, but not in
every way: `MemoryInv` says that one read as Paid was booked, and that a session
whose hook runs is Paid and not Done. `EntryInv` counts the entries by the
request's status. `CancelInv` says that a cancellation runs on a request that is
not cancelled, over sessions that exist; with `MemoryInv` it follows that no hook
can change a listed session between the locks and the commit.
`SessionsKeepPromise` is the step simulation, for each session, over these.

**The client.** The property of each call is a predicate on its record
(`OutcomeSound`, `TokenSound`), shown for the call that moves and unchanged for
the others; tokens are compared by the position at which they were issued.
`CallFitsWindow` follows from how many sends and token requests each pass has
made; `VerdictIsMtns` from a request's verdict never changing, and from a
request that MTN has said it has never being absent again.

**The scheduler.** `ToldOnce` needs that an attempt still in the batch of the
daily job, and not flagged, has not been told of: the flag and the alert commit
together, and a batch names no attempt twice. `FlagMeansTold` needs the same of
the flags not yet committed, and that an attempt with nothing left to chase
stays one (`MootStays`).

`TypeOK` has the most to show of the dates: `DueWithout` closes the gap that an
answered attempt leaves, so that no attempt is due twice, and a batch, being in
the order of an injective `Rank`, names none twice either.

**The client's contract.** A step that ends a call is the one at which it takes
effect; every other step of it leaves `held` and `said` alone (`GoesOnUnsaid`).
What is left is that each end is a step `Provider` allows (`Ending`), with the
request as `OutcomeSound` knows it to be: a call that has been refused once has
created nothing yet, so a refusal may still be the answer. `UNCHANGED` of the
functions the mapping builds is shown process by process (`Unsaid`).

**Numbers.** The characters kept by `WithoutSeparators` are all of those in a
number without separators, in their order (`Stripped` is then the identity on a
number that begins with neither `+` nor `00`); a number with the prefix is
longer than a national one, so it is not prefixed again. Both readings agree,
for any length of what is typed.

**The dates.** `RecordedAt` and `FailedAt` are recursive functions; that they
unfold is proved over the set of the numbers up to which a sequence of that
kind exists, which has a least element outside unless it holds them all
(`Induction`, `RecursionExists`). Then each query or try is bounded by the one
before: the hourly job comes within an hour of a date, never before it, and the
lag adds five minutes at most.

Model-checked only: liveness (`InFlightEnds`, `PaidIsSettled`, `CancelEnds`,
`EveryAttemptEnds`, `DueIsChecked`), which is out of the prover's reach, as it
is about fairness and about which actions are enabled.

## Not modelled

- Amount formats, headers, the parsing of payloads: functions of one value, with
  no state. Where they refuse, `RefuseLocally` and `unreadable` stand for them.
- Rate limits, tokens in URLs, permissions and `as_administrator`: who may call,
  not what a call does.
- The guard of the documents against saves outside the payment flow: every
  action of the model is part of the flow, so it has nothing to refuse.
- Deduplication of callback jobs: without it the model has more races than the
  code.
- Error Logs, the checkout page and the desk form, which only show state, and a
  gateway for tests.

- Cancellation in `Scheduler`. `void_open_sessions` saves a session, its attempts
  included, as it was when the listing was read; the daily job may have set an
  attempt's `alerted` since, without a save that would refuse this one. The flag
  is then lost, and the attempt, Unresolved in a Void session, told of again.
  `ToldOnce` is about sessions that no cancellation saves just then.

Six hazards have no property. An attempt about which every query raises
(reconcile.py:259) stays Pending for good: `EveryAttemptEnds` and `InFlightEnds`
hold for the others, and no document says what becomes of it. A second session
of a booked request may be paid too (erpnext.py:65): a skip counts as its
booking and nobody is told, which no document speaks of either. A one-shot alert
is lost with the process that was about to send it (reconcile.py:176), as the
code keeps no record of it; `UnbookedMoneyTold` shows that nothing else loses
one. The flag that a cancellation takes back (erpnext.py:109) is the case just
named. The ladder and the backoff (reconcile.py:56, reconcile.py:104) are the
constants of `Dates`, for which there are theorems in place of a run.

## Plan

The modules were written in the order of what a mistake would cost: the session
first, with its abstract specification, then the request it books, the client
whose answers it trusts, and the scheduler its liveness rests on. What is left,
in this order:

1. The sessions of one request with the money of each, `LocalPayment` and
   `PaymentRequest` composed, for a second paid session that is skipped.
2. A save of a session outside the payment flow, beside one within it: the guard
   of the documents as an action.
3. `format_amount` and `validate_amount` over bounded amounts, in the manner of
   `Msisdn`.
