--------------------------------- MODULE Dates ---------------------------------
(***************************************************************************)
(* The dates of reconcile.py against the hourly jobs that look at them.    *)
(* Time is in minutes.  An attempt's clock starts at its deadline, an      *)
(* authorization's when its session is paid; the hourly jobs run at offset *)
(* and every hour after it, and get to an item lag minutes later.          *)
(***************************************************************************)
EXTENDS Integers, FiniteSets

Hour == 60

UNRESOLVED_ALERT_AFTER == 72 * Hour
PENDING_AUTHORIZATION_GRACE == 5
AUTHORIZATION_RETRY_BASE == Hour
AUTHORIZATION_RETRY_CAP == 24 * Hour
MAX_AUTHORIZATION_TRIES == 5

Offsets == 0 .. Hour - 1

(* TIME_BUDGET, and what the last item started within it still takes.      *)
Lags == 0 .. 5

(* When the attempt is first found Unresolved: check_due_attempts runs     *)
(* every two minutes.                                                      *)
Firsts == 0 .. 3

(* The first run of an hourly job at or after a time.                      *)
NextRun(offset, time) == offset + Hour * ((time - offset + Hour - 1) \div Hour)

-----------------------------------------------------------------------------
(* Queries about an Unresolved attempt                                     *)

(* UNRESOLVED_POLL_LADDER and its fallback.                                *)
UnresolvedPollInterval(elapsed) ==
    IF elapsed < 6 * Hour THEN Hour ELSE IF elapsed < 24 * Hour THEN 4 * Hour ELSE 12 * Hour

NextAttemptCheck(now) == now + UnresolvedPollInterval(now)

(* When an answer is recorded that follows one recorded before.            *)
RecordedAfter(offset, lag, previous) == NextRun(offset, NextAttemptCheck(previous)) + lag

(* A bound on the queries that are looked at, above their real number.     *)
QueryNumbers == 0 .. 20

(* The age at which each answer is recorded, the 0th by check_due_attempts.*)
RecordedAt(offset, lag, first) ==
    LET at[k \in QueryNumbers] ==
            IF k = 0 THEN first
            ELSE LET previous == at[k - 1] IN RecordedAfter(offset, lag, previous)
    IN  at

(* check_unresolved_attempts selects until 72 hours after the deadline.    *)
Queries(offset, lag, first) ==
    LET at == RecordedAt(offset, lag, first)
    IN  {at[k] : k \in {j \in QueryNumbers : j = 0 \/ at[j] - lag < UNRESOLVED_ALERT_AFTER}}

(* What the ladder is for.                                                 *)
SpansThreeDays(queries, lag) ==
    /\ Cardinality(queries) \in 11 .. 15
    /\ Cardinality({q \in queries : q <= 6 * Hour}) >= 3
    /\ \A q \in queries :
          /\ \A r \in queries : r > q => r >= q + UnresolvedPollInterval(q)
          /\ \/ q + 13 * Hour + lag >= UNRESOLVED_ALERT_AFTER
             \/ \E r \in queries : q < r /\ r <= q + 13 * Hour + lag

(* A fact about the constants of the ladder and the period of its job, not *)
(* about every execution.  An attempt that check_unresolved_attempts alone *)
(* asks about, each time its date has come and each time with an answer,   *)
(* is asked 11 to 15 times until its 72 hours are over: three times in the *)
(* first six hours, never sooner than the ladder says, and never with a    *)
(* gap of more than 13 hours and the lag (_next_attempt_check).            *)
LadderSpansThreeDays ==
    \A offset \in Offsets, lag \in Lags, first \in Firsts :
        SpansThreeDays(Queries(offset, lag, first), lag)

-----------------------------------------------------------------------------
(* Retries of an authorization                                             *)

AuthorizationRetryDelay(tries) ==
    IF tries = 0 THEN PENDING_AUTHORIZATION_GRACE
    ELSE LET delay == AUTHORIZATION_RETRY_BASE * 2 ^ (tries - 1)
         IN  IF delay < AUTHORIZATION_RETRY_CAP THEN delay ELSE AUTHORIZATION_RETRY_CAP

(* When a try ends that follows another, which failed at a time.           *)
RetriedAt(offset, lag, time, tries) ==
    NextRun(offset, time + AuthorizationRetryDelay(tries)) + lag

(* When each try fails: the first when the session is paid, or, if its     *)
(* process died, when retry_authorizations finds it Pending.               *)
FailedAt(offset, lag, died) ==
    LET at[try \in 1 .. MAX_AUTHORIZATION_TRIES] ==
            IF try > 1 THEN LET previous == at[try - 1]
                            IN  RetriedAt(offset, lag, previous, try - 1)
            ELSE IF died THEN RetriedAt(offset, lag, 0, 0)
            ELSE 0
    IN  at

(* What the backoff is for.                                                *)
FitsADay(at) ==
    /\ at[MAX_AUTHORIZATION_TRIES] - at[1] >= 15 * Hour
    /\ at[MAX_AUTHORIZATION_TRIES] < 24 * Hour

(* A fact about the constants of the backoff and the period of its job.    *)
(* Tries that all fail, and all but the first of which are made by         *)
(* retry_authorizations, are used up 15 hours after the first at the       *)
(* earliest and within a day of the payment.  A manager's retry counts as  *)
(* a try and keeps no such distance (authorization_retry_delay).           *)
BackoffFitsADay ==
    \A offset \in Offsets, lag \in Lags, died \in BOOLEAN :
        FitsADay(FailedAt(offset, lag, died))
=============================================================================
