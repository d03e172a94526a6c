------------------------------ MODULE Lifecycle ------------------------------
(***************************************************************************)
(* The pure rules of src/local_payments/lifecycle.py: the states of a      *)
(* payment session and of its attempts, the transitions the code allows,   *)
(* and what a provider's answer does to an attempt and its session.        *)
(*                                                                         *)
(* An amount and a currency are abstracted to `exact`: both equal those of *)
(* the session (amounts_match and currencies_match).                       *)
(***************************************************************************)

AttemptStatuses ==
    {"Initiated", "Pending", "Succeeded", "Failed", "Expired", "Unresolved", "Error"}

SessionStatuses == {"Open", "Paid", "Void"}

AttemptTransitions ==
    [s \in AttemptStatuses |->
        CASE s = "Initiated"  -> AttemptStatuses \ {"Initiated"}
          [] s = "Pending"    -> {"Succeeded", "Failed", "Expired", "Unresolved"}
          [] s = "Unresolved" -> {"Succeeded", "Failed", "Expired"}
          [] OTHER            -> {}]

SessionTransitions ==
    [s \in SessionStatuses |-> IF s = "Open" THEN {"Paid", "Void"} ELSE {}]

AttemptInFlightStates == {"Initiated", "Pending"}

ProviderStatuses == {"Pending", "Succeeded", "Failed", "Expired"}

ProviderResults == [status : ProviderStatuses, exact : BOOLEAN]

IsFinalAttemptStatus(s) == s \in AttemptStatuses /\ AttemptTransitions[s] = {}

(***************************************************************************)
(* ensure_can_start_attempt: `statuses` is the set of the statuses of the  *)
(* session's attempts.                                                     *)
(***************************************************************************)
CanStartAttemptIfNonePending(statuses) == "Pending" \notin statuses

CanStartAttempt(statuses) == statuses \cap AttemptInFlightStates = {}

-----------------------------------------------------------------------------
(***************************************************************************)
(* resolve, in three parts: the attempt's next status, whether the answer  *)
(* is a no-op that needs no transition, and the whole decision.            *)
(***************************************************************************)
ReportedStatus(attempt, result, pastDeadline) == result.status

ResolvedStatus(attempt, result, pastDeadline) ==
    IF result.status = "Pending"
       /\ \/ attempt \in AttemptInFlightStates /\ pastDeadline
          \/ attempt = "Unresolved"
    THEN "Unresolved"
    ELSE result.status

(* resolve raises IllegalTransition exactly when this is FALSE.            *)
Resolvable(attempt, result, pastDeadline) ==
    LET new == ResolvedStatus(attempt, result, pastDeadline)
    IN  \/ new \in AttemptTransitions[attempt]
        \/ new = attempt /\ attempt \in {"Pending", "Unresolved"}

(* Dropped check: a wrong amount pays the session.                         *)
ResolveAnyAmount(session, attempt, result, pastDeadline) ==
    LET paid == result.status = "Succeeded" /\ session = "Open"
    IN  [attempt_status  |-> ResolvedStatus(attempt, result, pastDeadline),
         session_status  |-> IF paid THEN "Paid" ELSE session,
         duplicate       |-> result.status = "Succeeded" /\ session = "Paid",
         amount_mismatch |-> FALSE]

(* Dropped check: a second success is not marked as a duplicate.           *)
ResolveNoDuplicate(session, attempt, result, pastDeadline) ==
    LET paid == result.status = "Succeeded" /\ session # "Void"
    IN  [attempt_status  |-> ResolvedStatus(attempt, result, pastDeadline),
         session_status  |-> IF paid THEN "Paid" ELSE session,
         duplicate       |-> FALSE,
         amount_mismatch |-> FALSE]

(* Dropped check: a payment brings a Void session back.                    *)
ResolveVoidToo(session, attempt, result, pastDeadline) ==
    LET succeeded == result.status = "Succeeded"
    IN  [attempt_status  |-> ResolvedStatus(attempt, result, pastDeadline),
         session_status  |-> IF succeeded /\ result.exact THEN "Paid" ELSE session,
         duplicate       |-> succeeded /\ session = "Paid",
         amount_mismatch |-> succeeded /\ session # "Paid" /\ ~result.exact]

(* Swapped fields: the session takes the status meant for the attempt.     *)
ResolveSwapped(session, attempt, result, pastDeadline) ==
    [attempt_status  |-> ResolvedStatus(attempt, result, pastDeadline),
     session_status  |-> IF result.status = "Succeeded" THEN "Succeeded" ELSE session,
     duplicate       |-> FALSE,
     amount_mismatch |-> FALSE]

Resolve(session, attempt, result, pastDeadline) ==
    LET succeeded == result.status = "Succeeded"
    IN  [attempt_status  |-> ResolvedStatus(attempt, result, pastDeadline),
         session_status  |-> IF succeeded /\ session = "Open" /\ result.exact
                             THEN "Paid" ELSE session,
         duplicate       |-> succeeded /\ session = "Paid",
         amount_mismatch |-> succeeded /\ session = "Open" /\ ~result.exact]

SessionPaid(resolution) ==
    resolution.session_status = "Paid" /\ ~resolution.duplicate

VoidPaid(resolution) ==
    resolution.session_status = "Void" /\ resolution.attempt_status = "Succeeded"

(* Dropped case: money received on a Void session is told to nobody.       *)
AlertDueIfNotVoid(resolution) == resolution.duplicate \/ resolution.amount_mismatch

(* Does one of the one-shot alerts of reconcile._record follow?            *)
AlertDue(resolution) ==
    resolution.duplicate \/ resolution.amount_mismatch \/ VoidPaid(resolution)
=============================================================================
