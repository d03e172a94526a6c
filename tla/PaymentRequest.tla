---------------------------- MODULE PaymentRequest ----------------------------
(***************************************************************************)
(* One ERPNext Payment Request and the payment sessions made for it:       *)
(* gateway.get_payment_url, which finds or creates a session, the hook     *)
(* erpnext.on_payment_authorized, which books the request from within      *)
(* reconcile.authorize, and erpnext.void_open_sessions, the hook of the    *)
(* request's cancellation.                                                 *)
(*                                                                         *)
(* The row locks are the subject.  An authorization locks its session,     *)
(* then wants the request; a cancellation holds the request, then wants    *)
(* every session of it.  What a session does before it is paid is          *)
(* LocalPayment's subject, and one step here.                              *)
(***************************************************************************)
EXTENDS Naturals, FiniteSets

CONSTANTS
    Sessions,       \* the Local Payment documents that may be created
    Callers,        \* the processes that may ask for a payment URL
    Offers,         \* a gateway, an amount and a currency a session is made for
    NoOffer,
    Direct          \* a trigger of the hook other than a session's authorization

ASSUME NoOfferAssumption == NoOffer \notin Offers
ASSUME DirectAssumption == Direct \notin Sessions

VARIABLES
    request,        \* the Payment Request: status, and entries booked for it
    sessions,       \* session -> its fields
    trigger,        \* session, or Direct -> the request its hook has in memory
    cancel,         \* the cancellation: the sessions it has listed, and those of
                    \* them saved since by somebody else
    caller          \* caller -> the offer it found no open session for

vars == <<request, sessions, trigger, cancel, caller>>

RequestStatuses == {"Requested", "Paid", "Cancelled"}

Triggers == Sessions \cup {Direct}

SessionType ==
    [status        : {"Absent", "Open", "Paid", "Void"},
     authorization : {"None", "Pending", "Done", "Failed"},
     offer         : Offers \cup {NoOffer}]

Init ==
    /\ request = [status |-> "Requested", entries |-> 0]
    /\ sessions = [s \in Sessions |->
                     [status |-> "Absent", authorization |-> "None", offer |-> NoOffer]]
    /\ trigger = [t \in Triggers |-> "None"]
    /\ cancel = [running |-> FALSE, names |-> {}, changed |-> {}]
    /\ caller = [c \in Callers |-> NoOffer]

(* docstatus is 1 until the request is cancelled.                          *)
Submitted(status) == status \in {"Requested", "Paid"}

(* The row locks: authorize holds its session's while its hook runs, and a *)
(* cancellation the request's.                                             *)
SessionLocked(s) == trigger[s] # "None"

RequestLocked == cancel.running

-----------------------------------------------------------------------------
(* A session is made, and paid.                                            *)

FindOpenSession(offer) ==
    {s \in Sessions : sessions[s].status = "Open" /\ sessions[s].offer = offer}

(* get_payment_url: an Open session is reused, and nothing changes.  When  *)
(* there is none, one is created, in a later statement.                    *)
GetPaymentUrl(c, offer) ==
    /\ caller[c] = NoOffer
    /\ FindOpenSession(offer) = {}
    /\ caller' = [caller EXCEPT ![c] = offer]
    /\ UNCHANGED <<request, sessions, trigger, cancel>>

CreateSession(c, s) ==
    /\ caller[c] # NoOffer
    /\ sessions[s].status = "Absent"
    /\ sessions' = [sessions EXCEPT ![s].status = "Open", ![s].offer = caller[c]]
    /\ caller' = [caller EXCEPT ![c] = NoOffer]
    /\ UNCHANGED <<request, trigger, cancel>>

(* start_attempt and reconcile save a session that stays Open: its payer   *)
(* tries, or an attempt moves.  Only a cancellation that runs sees it.     *)
SaveOpenSession(s) ==
    /\ sessions[s].status = "Open" /\ cancel.running /\ s \in cancel.names
    /\ cancel' = [cancel EXCEPT !.changed = @ \cup {s}]
    /\ UNCHANGED <<request, sessions, trigger, caller>>

(* reconcile._record, with a result that pays the session.                 *)
Pay(s) ==
    /\ sessions[s].status = "Open"
    /\ sessions' = [sessions EXCEPT ![s].status = "Paid", ![s].authorization = "Pending"]
    /\ UNCHANGED <<request, trigger, cancel, caller>>

-----------------------------------------------------------------------------
(* The request is booked.                                                  *)

(* A bug: a request that is not submitted is skipped rather than refused.  *)
SettlementActionNoRefusal(status) == IF Submitted(status) /\ status # "Paid"
                                     THEN "settle" ELSE "skip"

SettlementAction(status) ==
    CASE status = "Paid"        -> "skip"
      [] ~Submitted(status)     -> "refuse"
      [] OTHER                  -> "settle"

HasPaidSession == \E s \in Sessions : sessions[s].status = "Paid"

(* authorize takes the session's lock, and the consumer is loaded.         *)
Authorize(s) ==
    /\ ~SessionLocked(s)
    /\ sessions[s].status = "Paid" /\ sessions[s].authorization # "Done"
    /\ trigger' = [trigger EXCEPT ![s] = request.status]
    /\ UNCHANGED <<request, sessions, cancel, caller>>

(* Anything else that runs the method of the document: an upstream         *)
(* controller, another application, a script.                              *)
CallDirectly ==
    /\ trigger[Direct] = "None"
    /\ trigger' = [trigger EXCEPT ![Direct] = request.status]
    /\ UNCHANGED <<request, sessions, cancel, caller>>

(* A bug: the outcome is written to another field of the session.          *)
EndHookInStatus(t, outcome) ==
    /\ sessions' = IF t = Direct THEN sessions
                   ELSE [sessions EXCEPT ![t].status = outcome]
    /\ trigger' = [trigger EXCEPT ![t] = "None"]
    /\ UNCHANGED <<cancel, caller>>

(* The transaction of the hook ends: what it did to the request, and the   *)
(* outcome for its session, commit together.                               *)
EndHook(t, outcome) ==
    /\ sessions' = IF t = Direct THEN sessions
                   ELSE [sessions EXCEPT ![t].authorization = outcome]
    /\ trigger' = [trigger EXCEPT ![t] = "None"]
    /\ UNCHANGED <<cancel, caller>>

(* The guards that need no lock: the document in memory, a paid session.   *)
SkipsUnlocked(t) == SettlementAction(trigger[t]) = "skip" \/ ~HasPaidSession

SkipUnlocked(t) ==
    /\ trigger[t] # "None" /\ SkipsUnlocked(t)
    /\ EndHook(t, "Done")
    /\ UNCHANGED request

(* A bug: what to do is decided on the request in memory.                  *)
RequestInMemory(t) == trigger[t]

(* The request as it is read again, under its lock.                        *)
RequestUnderLock(t) == request.status

(* The lock is free: the rest of the hook, in which set_as_paid may raise. *)
Settle(t) ==
    /\ trigger[t] # "None" /\ ~SkipsUnlocked(t)
    /\ ~RequestLocked
    /\ LET action == SettlementAction(RequestUnderLock(t))
       IN  \/ /\ action = "settle"
              /\ request' = [status  |-> "Paid",
                             entries |-> IF request.entries < 2
                                         THEN request.entries + 1 ELSE 2]
              /\ EndHook(t, "Done")
           \/ action = "skip" /\ EndHook(t, "Done") /\ UNCHANGED request
           \/ action # "skip" /\ EndHook(t, "Failed") /\ UNCHANGED request

(* The wait for the request's lock times out, which the hook raises.       *)
LockWaitTimesOut(t) ==
    /\ trigger[t] # "None" /\ ~SkipsUnlocked(t)
    /\ RequestLocked
    /\ EndHook(t, "Failed")
    /\ UNCHANGED request

(* The process dies: its transaction is rolled back.                       *)
HookDies(t) ==
    /\ trigger[t] # "None"
    /\ trigger' = [trigger EXCEPT ![t] = "None"]
    /\ UNCHANGED <<request, sessions, cancel, caller>>

(* ERPNext books the request by itself: an entry made by hand, say.        *)
BookElsewhere ==
    /\ request.status = "Requested" /\ ~RequestLocked
    /\ request' = [status |-> "Paid", entries |-> 1]
    /\ UNCHANGED <<sessions, trigger, cancel, caller>>

-----------------------------------------------------------------------------
(* The request is cancelled.                                               *)

(* ERPNext has locked the request and its own on_cancel has run; the       *)
(* sessions of the request are listed, with no lock on them yet.           *)
BeginCancel ==
    /\ ~RequestLocked
    /\ Submitted(request.status)
    /\ cancel' = [running |-> TRUE, changed |-> {},
                  names   |-> {s \in Sessions : sessions[s].status # "Absent"}]
    /\ UNCHANGED <<request, sessions, trigger, caller>>

(* A bug: only a payment nobody tried to book yet is in the way.           *)
PendingSessions(names) ==
    {s \in names : sessions[s].status = "Paid" /\ sessions[s].authorization = "Pending"}

UnbookedSessions(names) ==
    {s \in names : sessions[s].status = "Paid" /\ sessions[s].authorization # "Done"}

RowsLocked(names) == \E s \in names : SessionLocked(s)

(* A bug: the locks of the rows are waited for.                            *)
NeverAtOnce(names) == FALSE

RefusedAtOnce(names) == RowsLocked(names)

(* A bug: whatever was listed is closed.                                   *)
ListedSessions(names) == names

OpenSessions(names) == {s \in names : sessions[s].status = "Open"}

(* A session is loaded from the snapshot the listing was read in, and      *)
(* save_state throws if the row has been saved since.                      *)
StaleSessions == OpenSessions(cancel.names) \cap cancel.changed

(* void_open_sessions: every listed row locks at once, or none.            *)
VoidOpenSessions ==
    /\ cancel.running
    /\ ~RowsLocked(cancel.names)
    /\ UnbookedSessions(cancel.names) = {} /\ StaleSessions = {}
    /\ sessions' = [s \in Sessions |->
                      IF s \in OpenSessions(cancel.names)
                      THEN [sessions[s] EXCEPT !.status = "Void"] ELSE sessions[s]]
    /\ request' = [request EXCEPT !.status = "Cancelled"]
    /\ cancel' = [cancel EXCEPT !.running = FALSE]
    /\ UNCHANGED <<trigger, caller>>

(* It throws, and the whole cancellation is undone.                        *)
CancelIsRefused ==
    /\ cancel.running
    /\ \/ RefusedAtOnce(cancel.names)
       \/ ~RowsLocked(cancel.names) /\ UnbookedSessions(cancel.names) # {}
       \/ ~RowsLocked(cancel.names) /\ StaleSessions # {}
    /\ cancel' = [running |-> FALSE, names |-> {}, changed |-> {}]
    /\ UNCHANGED <<request, sessions, trigger, caller>>

-----------------------------------------------------------------------------
TriggerStep(t) == SkipUnlocked(t) \/ Settle(t) \/ LockWaitTimesOut(t) \/ HookDies(t)

Next ==
    \/ \E c \in Callers, offer \in Offers : GetPaymentUrl(c, offer)
    \/ \E c \in Callers, s \in Sessions : CreateSession(c, s)
    \/ \E s \in Sessions : SaveOpenSession(s) \/ Pay(s) \/ Authorize(s)
    \/ CallDirectly
    \/ \E t \in Triggers : TriggerStep(t)
    \/ BookElsewhere
    \/ BeginCancel
    \/ VoidOpenSessions
    \/ CancelIsRefused

Spec == Init /\ [][Next]_vars

(* A cancellation, and a hook that has its locks, run to their end; nobody *)
(* counts on a lock wait to time out or on a process to die.               *)
FairSpec ==
    /\ Spec
    /\ WF_vars(VoidOpenSessions \/ CancelIsRefused)
    /\ \A t \in Triggers : WF_vars(SkipUnlocked(t) \/ Settle(t))

-----------------------------------------------------------------------------
(* Every field holds a value of its type.                                  *)
TypeOK ==
    /\ request \in [status : RequestStatuses, entries : 0 .. 2]
    /\ sessions \in [Sessions -> SessionType]
    /\ trigger \in [Triggers -> RequestStatuses \cup {"None"}]
    /\ cancel \in [running : BOOLEAN, names : SUBSET Sessions, changed : SUBSET Sessions]
    /\ caller \in [Callers -> Offers \cup {NoOffer}]

(* However many sessions of a request are paid, authorized at once, or     *)
(* raced by an entry made elsewhere, the request is booked at most once,   *)
(* and is Paid only if it is booked (settlement_action, read under lock).  *)
BookedAtMostOnce ==
    /\ request.entries <= 1
    /\ request.status = "Paid" => request.entries = 1

(* A session whose authorization is Done is of a request that is booked:   *)
(* no skipped, refused or stale call of the hook reads as done             *)
(* (on_payment_authorized, authorize).                                     *)
DoneMeansBooked ==
    \A s \in Sessions : sessions[s].authorization = "Done" => request.entries > 0

(* Once a request is cancelled, every session the cancellation listed is   *)
(* closed: it is Void, or its payment is booked.  None is left payable,    *)
(* and no received payment stays behind, whatever authorizations ran       *)
(* meanwhile (void_open_sessions, unbooked_sessions).                      *)
CancelClosesListed ==
    request.status = "Cancelled" =>
        \A s \in cancel.names :
            sessions[s].status = "Void" \/ sessions[s].authorization = "Done"

(* Seen from one session, with its payment for the only attempt.           *)
Promise(s) == INSTANCE Settlement WITH
    Attempts <- {s},
    state    <- IF sessions[s].status = "Absent" THEN "Open" ELSE sessions[s].status,
    money    <- [a \in {s} |-> IF sessions[s].status = "Paid" THEN "Pays" ELSE "None"],
    booked   <- (sessions[s].authorization = "Done")

(* Sessions that share a request, its lock and its cancellation each keep  *)
(* Settlement's promise still: none is Done before it is paid, and no      *)
(* payment is lost to a cancellation (authorize, void_open_sessions).      *)
SessionsKeepPromise ==
    /\ \A s \in Sessions : Promise(s)!Init
    /\ [][\A s \in Sessions : [Promise(s)!Next]_(Promise(s)!vars)]_vars

(* A cancellation always ends, done or refused, though it wants locks in   *)
(* the opposite order of an authorization (the lock without waiting).      *)
CancelEnds == cancel.running ~> ~cancel.running

-----------------------------------------------------------------------------
(* What the documents say and the code does not do.                        *)

(* If an Open session already exists for the same reference, gateway,      *)
(* amount and currency, "its URL is returned instead of creating a second  *)
(* one" (docs/ARCHITECTURE.md, Contract with consumers).                   *)
OneOpenSession == \A offer \in Offers : Cardinality(FindOpenSession(offer)) <= 1

(* "No payment ends up on a cancelled request without an entry"            *)
(* (docs/decisions/0002-payment-request-authorization-hook.md).            *)
CancelledMeansBooked ==
    request.status = "Cancelled" /\ HasPaidSession => request.entries > 0
=============================================================================
