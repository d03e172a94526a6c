------------------------- MODULE PaymentRequestProofs -------------------------
(***************************************************************************)
(* For any number of sessions, callers and offers: the request is booked   *)
(* at most once, Done means booked, and a cancellation leaves nothing open *)
(* or unbooked behind among the sessions it listed.                        *)
(***************************************************************************)
EXTENDS PaymentRequest, TLAPS

(* What the hook has in memory may be stale, but a Paid request was booked *)
(* by then; a session whose authorization runs is Paid and not Done, and   *)
(* one that is not Paid was never authorized.                              *)
MemoryInv ==
    /\ \A s \in Sessions : sessions[s].status # "Paid" => sessions[s].authorization = "None"
    /\ \A t \in Triggers : trigger[t] = "Paid" => request.entries = 1
    /\ \A s \in Sessions : trigger[s] # "None" =>
          sessions[s].status = "Paid" /\ sessions[s].authorization # "Done"

(* One entry exactly, once the request is Paid; none while it is not.      *)
EntryInv ==
    /\ request.entries \in {0, 1}
    /\ request.status = "Paid" => request.entries = 1
    /\ request.status = "Requested" => request.entries = 0
    /\ \A s \in Sessions : sessions[s].authorization = "Done" => request.entries = 1

(* A cancellation runs on a request that is not cancelled yet, and lists   *)
(* sessions that exist.                                                    *)
CancelInv ==
    /\ cancel.running => request.status # "Cancelled"
    /\ \A s \in cancel.names : sessions[s].status # "Absent"
    /\ CancelClosesListed

IInv == TypeOK /\ MemoryInv /\ EntryInv /\ CancelInv

-----------------------------------------------------------------------------
LEMMA InitIInv == Init => IInv
  BY NoOfferAssumption, DirectAssumption
  DEF Init, IInv, TypeOK, MemoryInv, EntryInv, CancelInv, CancelClosesListed,
      SessionType, RequestStatuses, Triggers

(* The end of the hook, for the parts of the invariant on the sessions.    *)
LEMMA EndHookType ==
  ASSUME TypeOK, NEW t \in Triggers, NEW outcome \in {"Done", "Failed"},
         EndHook(t, outcome)
  PROVE  /\ sessions' \in [Sessions -> SessionType]
         /\ trigger' \in [Triggers -> RequestStatuses \cup {"None"}]
         /\ cancel' = cancel /\ caller' = caller
         /\ \A s \in Sessions : sessions'[s].status = sessions[s].status
         /\ \A s \in Sessions : s # t => sessions'[s] = sessions[s]
         /\ \A u \in Triggers : u # t => trigger'[u] = trigger[u]
         /\ trigger'[t] = "None"
         /\ t \in Sessions => sessions'[t].authorization = outcome
  BY DirectAssumption DEF EndHook, TypeOK, SessionType, Triggers

(* A hook that ends for a session of a booked request, or fails, keeps the *)
(* invariant, if it leaves the request booked as it was, or books it.      *)
LEMMA EndHookKeeps ==
  ASSUME IInv, NEW t \in Triggers, NEW outcome \in {"Done", "Failed"},
         trigger[t] # "None", EndHook(t, outcome),
         \/ UNCHANGED request
         \/ /\ request.status = "Requested" /\ ~cancel.running
            /\ request' = [status |-> "Paid", entries |-> 1],
         outcome = "Done" => request'.entries = 1
  PROVE  IInv'
<1> USE DEF IInv
<1>1. /\ sessions' \in [Sessions -> SessionType]
      /\ trigger' \in [Triggers -> RequestStatuses \cup {"None"}]
      /\ cancel' = cancel /\ caller' = caller
      /\ \A s \in Sessions : sessions'[s].status = sessions[s].status
      /\ \A s \in Sessions : s # t => sessions'[s] = sessions[s]
      /\ \A u \in Triggers : u # t => trigger'[u] = trigger[u]
      /\ trigger'[t] = "None"
      /\ t \in Sessions => sessions'[t].authorization = outcome
  BY EndHookType
<1>2. TypeOK'
  BY <1>1 DEF TypeOK, RequestStatuses
<1>3. request.entries = 1 => request'.entries = 1
  BY DEF EntryInv
<1>4. MemoryInv'
  BY <1>1, <1>3 DEF MemoryInv, Triggers
<1>5. EntryInv'
  BY <1>1, <1>3 DEF EntryInv
<1>6. CancelInv'
  <2>1. t \in Sessions => sessions[t].status = "Paid" /\ sessions[t].authorization # "Done"
    BY DEF MemoryInv
  <2>2. t \notin cancel.names \/ request.status # "Cancelled" \/ t \notin Sessions
    BY <2>1 DEF CancelInv, CancelClosesListed
  <2>3. cancel.names \subseteq Sessions
    BY DEF TypeOK
  <2> QED
    BY <1>1, <2>2, <2>3 DEF CancelInv, CancelClosesListed
<1> QED
  BY <1>2, <1>4, <1>5, <1>6

(* A direct call that ends without touching the request changes no session.*)
LEMMA DirectKeeps ==
  ASSUME IInv, EndHook(Direct, "Done"), UNCHANGED request
  PROVE  IInv'
<1> USE DEF IInv, EndHook
<1>1. TypeOK'
  BY DEF TypeOK, Triggers
<1>2. MemoryInv'
  BY DirectAssumption DEF MemoryInv, TypeOK, Triggers
<1>3. EntryInv' /\ CancelInv'
  BY DEF EntryInv, CancelInv, CancelClosesListed
<1> QED
  BY <1>1, <1>2, <1>3

-----------------------------------------------------------------------------
(* The steps of the payer and of ERPNext.                                  *)

LEMMA UrlKeeps ==
  ASSUME IInv, NEW c \in Callers, NEW offer \in Offers, GetPaymentUrl(c, offer)
  PROVE  IInv'
  BY DEF IInv, GetPaymentUrl, TypeOK, MemoryInv, EntryInv, CancelInv, CancelClosesListed

LEMMA CreateKeeps ==
  ASSUME IInv, NEW c \in Callers, NEW s \in Sessions, CreateSession(c, s)
  PROVE  IInv'
<1> USE DEF IInv, CreateSession
<1>1. /\ \A r \in Sessions : sessions'[r].authorization = sessions[r].authorization
      /\ \A r \in Sessions : r # s => sessions'[r] = sessions[r]
      /\ sessions'[s].status = "Open"
  BY DEF TypeOK, SessionType
<1>2. TypeOK'
  <2>1. caller[c] \in Offers \cup {NoOffer} /\ sessions[s] \in SessionType
    BY DEF TypeOK
  <2>2. [sessions[s] EXCEPT !.status = "Open", !.offer = caller[c]] \in SessionType
    BY <2>1 DEF SessionType
  <2>3. sessions' = [sessions EXCEPT ![s] =
                       [sessions[s] EXCEPT !.status = "Open", !.offer = caller[c]]]
    BY DEF TypeOK
  <2> QED
    BY <2>2, <2>3 DEF TypeOK
<1>3. MemoryInv'
  BY <1>1 DEF MemoryInv, Triggers
<1>4. EntryInv'
  BY <1>1 DEF EntryInv
<1>5. CancelInv'
  BY <1>1 DEF CancelInv, CancelClosesListed, TypeOK
<1> QED
  BY <1>2, <1>3, <1>4, <1>5

LEMMA PayKeeps ==
  ASSUME IInv, NEW s \in Sessions, Pay(s)
  PROVE  IInv'
<1> USE DEF IInv, Pay
<1>1. /\ \A r \in Sessions : r # s => sessions'[r] = sessions[r]
      /\ sessions'[s].status = "Paid" /\ sessions'[s].authorization = "Pending"
  BY DEF TypeOK, SessionType
<1>2. TypeOK'
  <2>1. [sessions[s] EXCEPT !.status = "Paid", !.authorization = "Pending"] \in SessionType
    BY DEF TypeOK, SessionType
  <2>2. sessions' = [sessions EXCEPT ![s] =
                       [sessions[s] EXCEPT !.status = "Paid", !.authorization = "Pending"]]
    BY DEF TypeOK
  <2> QED
    BY <2>1, <2>2 DEF TypeOK
<1>3. MemoryInv'
  BY <1>1 DEF MemoryInv, Triggers
<1>4. EntryInv'
  BY <1>1 DEF EntryInv
<1>5. CancelInv'
  <2>1. request.status = "Cancelled" => s \notin cancel.names
    BY DEF MemoryInv, CancelInv, CancelClosesListed
  <2> QED
    BY <1>1, <2>1 DEF CancelInv, CancelClosesListed, TypeOK
<1> QED
  BY <1>2, <1>3, <1>4, <1>5

LEMMA SaveKeeps ==
  ASSUME IInv, NEW s \in Sessions, SaveOpenSession(s)
  PROVE  IInv'
<1> USE DEF IInv, SaveOpenSession
<1>1. cancel' = [running |-> cancel.running, names |-> cancel.names,
                 changed |-> cancel.changed \cup {s}]
  BY DEF TypeOK
<1>2. TypeOK'
  BY <1>1 DEF TypeOK
<1>3. MemoryInv' /\ EntryInv'
  BY DEF MemoryInv, EntryInv
<1>4. CancelInv'
  BY <1>1 DEF CancelInv, CancelClosesListed
<1> QED
  BY <1>2, <1>3, <1>4

LEMMA ElsewhereKeeps ==
  ASSUME IInv, BookElsewhere
  PROVE  IInv'
<1> USE DEF IInv, BookElsewhere
<1>1. TypeOK'
  BY DEF TypeOK, RequestStatuses
<1>2. MemoryInv'
  BY DEF MemoryInv
<1>3. EntryInv'
  BY DEF EntryInv
<1>4. CancelInv'
  BY DEF CancelInv, CancelClosesListed, RequestLocked
<1> QED
  BY <1>1, <1>2, <1>3, <1>4

-----------------------------------------------------------------------------
(* The steps of the hook.                                                  *)

LEMMA StartKeeps ==
  ASSUME IInv, NEW t \in Triggers, trigger[t] = "None",
         t \in Sessions => sessions[t].status = "Paid" /\ sessions[t].authorization # "Done",
         trigger' = [trigger EXCEPT ![t] = request.status],
         UNCHANGED <<request, sessions, cancel, caller>>
  PROVE  IInv'
<1> USE DEF IInv
<1>1. TypeOK'
  BY DEF TypeOK
<1>2. MemoryInv'
  BY DEF MemoryInv, EntryInv, TypeOK, Triggers
<1>3. EntryInv' /\ CancelInv'
  BY DEF EntryInv, CancelInv, CancelClosesListed
<1> QED
  BY <1>1, <1>2, <1>3

LEMMA SkipKeeps ==
  ASSUME IInv, NEW t \in Triggers, SkipUnlocked(t)
  PROVE  IInv'
<1>1. trigger[t] # "None" /\ EndHook(t, "Done") /\ UNCHANGED request
  BY DEF SkipUnlocked
<1>2. CASE t = Direct
  BY <1>1, <1>2, DirectKeeps DEF Triggers
<1>3. CASE t \in Sessions
  <2>1. HasPaidSession
    BY <1>1, <1>3 DEF IInv, MemoryInv, HasPaidSession
  <2>2. SettlementAction(trigger[t]) = "skip"
    BY <2>1 DEF SkipUnlocked, SkipsUnlocked
  <2>3. trigger[t] = "Paid"
    BY <2>2 DEF SettlementAction
  <2>4. request'.entries = 1
    BY <1>1, <2>3 DEF IInv, MemoryInv
  <2> QED
    BY <1>1, <2>4, EndHookKeeps
<1> QED
  BY <1>2, <1>3 DEF Triggers

LEMMA SettleKeeps ==
  ASSUME IInv, NEW t \in Triggers, Settle(t)
  PROVE  IInv'
<1> DEFINE action == SettlementAction(RequestUnderLock(t))
<1>1. trigger[t] # "None" /\ ~cancel.running
  BY DEF Settle, RequestLocked
<1>2. CASE /\ action = "settle"
           /\ request' = [status  |-> "Paid",
                          entries |-> IF request.entries < 2
                                      THEN request.entries + 1 ELSE 2]
           /\ EndHook(t, "Done")
  <2>1. request.status = "Requested"
    BY <1>2 DEF SettlementAction, RequestUnderLock, Submitted
  <2>2. request.entries = 0
    BY <2>1 DEF IInv, EntryInv
  <2>3. request' = [status |-> "Paid", entries |-> 1]
    BY <1>2, <2>2
  <2> QED
    BY <1>1, <1>2, <2>1, <2>3, EndHookKeeps
<1>3. CASE action = "skip" /\ EndHook(t, "Done") /\ UNCHANGED request
  <2>1. request.status = "Paid"
    BY <1>3 DEF SettlementAction, RequestUnderLock
  <2>2. request'.entries = 1
    BY <1>3, <2>1 DEF IInv, EntryInv
  <2> QED
    BY <1>1, <1>3, <2>2, EndHookKeeps
<1>4. CASE action # "skip" /\ EndHook(t, "Failed") /\ UNCHANGED request
  BY <1>1, <1>4, EndHookKeeps
<1> QED
  BY <1>2, <1>3, <1>4 DEF Settle

LEMMA TimeOutKeeps ==
  ASSUME IInv, NEW t \in Triggers, LockWaitTimesOut(t)
  PROVE  IInv'
  BY EndHookKeeps DEF LockWaitTimesOut

LEMMA DieKeeps ==
  ASSUME IInv, NEW t \in Triggers, HookDies(t)
  PROVE  IInv'
<1> USE DEF IInv, HookDies
<1>1. TypeOK'
  BY DEF TypeOK
<1>2. MemoryInv'
  BY DEF MemoryInv, TypeOK, Triggers
<1>3. EntryInv' /\ CancelInv'
  BY DEF EntryInv, CancelInv, CancelClosesListed
<1> QED
  BY <1>1, <1>2, <1>3

-----------------------------------------------------------------------------
(* The steps of the cancellation.                                          *)

LEMMA BeginCancelKeeps ==
  ASSUME IInv, BeginCancel
  PROVE  IInv'
<1> USE DEF IInv, BeginCancel
<1>1. TypeOK' /\ MemoryInv' /\ EntryInv'
  BY DEF TypeOK, MemoryInv, EntryInv
<1>2. CancelInv'
  BY DEF CancelInv, CancelClosesListed, Submitted
<1> QED
  BY <1>1, <1>2

LEMMA VoidKeeps ==
  ASSUME IInv, VoidOpenSessions
  PROVE  IInv'
<1> USE DEF IInv, VoidOpenSessions, OpenSessions
<1>1. \A s \in Sessions :
        /\ sessions'[s].authorization = sessions[s].authorization
        /\ sessions'[s].status = IF s \in cancel.names /\ sessions[s].status = "Open"
                                 THEN "Void" ELSE sessions[s].status
        /\ sessions'[s] \in SessionType
  BY DEF TypeOK, SessionType
<1>2. request'.entries = request.entries /\ request'.status = "Cancelled"
  BY DEF TypeOK
<1>3. /\ cancel'.running = FALSE /\ cancel'.names = cancel.names
      /\ cancel'.changed = cancel.changed
  BY DEF TypeOK
<1>4. TypeOK'
  BY <1>1 DEF TypeOK, RequestStatuses
<1>5. MemoryInv'
  BY <1>1, <1>2 DEF MemoryInv
<1>6. EntryInv'
  BY <1>1, <1>2 DEF EntryInv
<1>7. CancelInv'
  <2>1. \A s \in cancel.names :
          s \in Sessions /\ (sessions[s].status = "Paid" => sessions[s].authorization = "Done")
    BY DEF UnbookedSessions, TypeOK
  <2>2. \A s \in cancel.names : sessions[s].status \in {"Open", "Paid", "Void"}
    BY <2>1 DEF CancelInv, TypeOK, SessionType
  <2> QED
    BY <1>1, <1>2, <1>3, <2>1, <2>2 DEF CancelInv, CancelClosesListed
<1> QED
  BY <1>4, <1>5, <1>6, <1>7

LEMMA RefusedKeeps ==
  ASSUME IInv, CancelIsRefused
  PROVE  IInv'
<1> USE DEF IInv, CancelIsRefused
<1>1. TypeOK' /\ MemoryInv' /\ EntryInv'
  BY DEF TypeOK, MemoryInv, EntryInv
<1>2. CancelInv'
  BY DEF CancelInv, CancelClosesListed
<1> QED
  BY <1>1, <1>2

-----------------------------------------------------------------------------
LEMMA NextIInv == IInv /\ [Next]_vars => IInv'
<1> SUFFICES ASSUME IInv, [Next]_vars PROVE IInv'
  OBVIOUS
<1>1. CASE \E c \in Callers, offer \in Offers : GetPaymentUrl(c, offer)
  BY <1>1, UrlKeeps
<1>2. CASE \E c \in Callers, s \in Sessions : CreateSession(c, s)
  BY <1>2, CreateKeeps
<1>3. CASE \E s \in Sessions : Pay(s)
  BY <1>3, PayKeeps
<1>12. CASE \E s \in Sessions : SaveOpenSession(s)
  BY <1>12, SaveKeeps
<1>4. CASE \E s \in Sessions : Authorize(s)
  BY <1>4, StartKeeps DEF Authorize, SessionLocked, Triggers
<1>5. CASE CallDirectly
  BY <1>5, StartKeeps, DirectAssumption DEF CallDirectly, Triggers
<1>6. CASE \E t \in Triggers : TriggerStep(t)
  BY <1>6, SkipKeeps, SettleKeeps, TimeOutKeeps, DieKeeps DEF TriggerStep
<1>7. CASE BookElsewhere
  BY <1>7, ElsewhereKeeps
<1>8. CASE BeginCancel
  BY <1>8, BeginCancelKeeps
<1>9. CASE VoidOpenSessions
  BY <1>9, VoidKeeps
<1>10. CASE CancelIsRefused
  BY <1>10, RefusedKeeps
<1>11. CASE UNCHANGED vars
  BY <1>11 DEF vars, IInv, TypeOK, MemoryInv, EntryInv, CancelInv, CancelClosesListed
<1> QED
  BY <1>1, <1>2, <1>3, <1>4, <1>5, <1>6, <1>7, <1>8, <1>9, <1>10, <1>11, <1>12 DEF Next

LEMMA Inductive == Spec => []IInv
  BY InitIInv, NextIInv, PTL DEF Spec

(* Every field of every session, trigger, caller and of the request holds  *)
(* a value of its type (gateway.py, erpnext.py).                           *)
THEOREM TypeCorrect == Spec => []TypeOK
<1>1. IInv => TypeOK
  BY DEF IInv
<1> QED
  BY <1>1, Inductive, PTL

(* A Payment Request is never booked twice, whatever sessions of it are    *)
(* paid and authorized at once (on_payment_authorized's read under lock).  *)
THEOREM BookedOnce == Spec => []BookedAtMostOnce
<1>1. IInv => BookedAtMostOnce
  BY DEF IInv, EntryInv, BookedAtMostOnce
<1> QED
  BY <1>1, Inductive, PTL

(* No session is Done unless its request is booked (settlement_action).    *)
THEOREM DoneIsBooked == Spec => []DoneMeansBooked
<1>1. IInv => DoneMeansBooked
  BY DEF IInv, EntryInv, DoneMeansBooked
<1> QED
  BY <1>1, Inductive, PTL

(* A cancelled request leaves no session it listed payable, nor paid and   *)
(* not booked (void_open_sessions).                                        *)
THEOREM CancelIsClean == Spec => []CancelClosesListed
<1>1. IInv => CancelClosesListed
  BY DEF IInv, CancelInv
<1> QED
  BY <1>1, Inductive, PTL

-----------------------------------------------------------------------------
(* Each session keeps Settlement's promise.                                *)

(* What a step may make of a session r.                                    *)
SettlesOn(r, q) ==
    \/ q.status = r.status /\ q.authorization = r.authorization
    \/ q.status = r.status /\ q.authorization # "Done" /\ r.authorization # "Done"
    \/ r.status = "Absent" /\ q.status = "Open" /\ q.authorization = r.authorization
    \/ r.status = "Open" /\ q.status = "Paid" /\ r.authorization # "Done"
                         /\ q.authorization # "Done"
    \/ r.status = "Paid" /\ q.status = "Paid" /\ r.authorization # "Done"
                         /\ q.authorization = "Done"
    \/ r.status = "Open" /\ q.status = "Void" /\ q.authorization = r.authorization

LEMMA SettlesOnIsSettlement ==
  ASSUME NEW s \in Sessions, SettlesOn(sessions[s], sessions'[s])
  PROVE  [Promise(s)!Next]_(Promise(s)!vars)
<1> DEFINE r == sessions[s]
           q == sessions'[s]
<1> USE DEF Promise!vars, Promise!Next, Promise!Pay, Promise!Book, Promise!Cancel
<1>1. CASE q.status = r.status /\ q.authorization = r.authorization
  BY <1>1
<1>2. CASE q.status = r.status /\ q.authorization # "Done" /\ r.authorization # "Done"
  BY <1>2
<1>3. CASE r.status = "Absent" /\ q.status = "Open" /\ q.authorization = r.authorization
  BY <1>3
<1>4. CASE /\ r.status = "Open" /\ q.status = "Paid"
           /\ r.authorization # "Done" /\ q.authorization # "Done"
  BY <1>4
<1>5. CASE /\ r.status = "Paid" /\ q.status = "Paid"
           /\ r.authorization # "Done" /\ q.authorization = "Done"
  BY <1>5
<1>6. CASE r.status = "Open" /\ q.status = "Void" /\ q.authorization = r.authorization
  BY <1>6
<1> QED
  BY <1>1, <1>2, <1>3, <1>4, <1>5, <1>6 DEF SettlesOn

(* Most steps leave the sessions alone, and the end of a hook settles its  *)
(* own, if at all.                                                         *)
LEMMA EndHookSettles ==
  ASSUME IInv, NEW t \in Triggers, NEW outcome \in {"Done", "Failed"},
         trigger[t] # "None", EndHook(t, outcome), NEW s \in Sessions
  PROVE  SettlesOn(sessions[s], sessions'[s])
<1>1. /\ sessions'[s].status = sessions[s].status
      /\ s # t => sessions'[s] = sessions[s]
      /\ s = t => sessions'[s].authorization = outcome
  BY EndHookType DEF IInv
<1>2. s = t => sessions[s].status = "Paid" /\ sessions[s].authorization # "Done"
  BY DEF IInv, MemoryInv
<1> QED
  BY <1>1, <1>2 DEF SettlesOn

LEMMA TriggerSettles ==
  ASSUME IInv, NEW t \in Triggers, TriggerStep(t), NEW s \in Sessions
  PROVE  SettlesOn(sessions[s], sessions'[s])
<1>1. CASE SkipUnlocked(t)
  BY <1>1, EndHookSettles DEF SkipUnlocked
<1>2. CASE Settle(t)
  <2>1. trigger[t] # "None" /\ \E outcome \in {"Done", "Failed"} : EndHook(t, outcome)
    BY <1>2 DEF Settle
  <2> QED
    BY <2>1, EndHookSettles
<1>3. CASE LockWaitTimesOut(t)
  BY <1>3, EndHookSettles DEF LockWaitTimesOut
<1>4. CASE HookDies(t)
  BY <1>4 DEF HookDies, SettlesOn
<1> QED
  BY <1>1, <1>2, <1>3, <1>4 DEF TriggerStep

LEMMA NextSettles ==
  ASSUME IInv, [Next]_vars, NEW s \in Sessions
  PROVE  SettlesOn(sessions[s], sessions'[s])
<1> USE DEF IInv
<1>1. CASE \E c \in Callers, v \in Sessions : CreateSession(c, v)
  <2> PICK c \in Callers, v \in Sessions : CreateSession(c, v)
    BY <1>1
  <2>1. /\ v # s => sessions'[s] = sessions[s]
        /\ v = s => /\ sessions[s].status = "Absent" /\ sessions'[s].status = "Open"
                    /\ sessions'[s].authorization = sessions[s].authorization
    BY DEF CreateSession, TypeOK, SessionType
  <2> QED
    BY <2>1 DEF SettlesOn
<1>2. CASE \E v \in Sessions : Pay(v)
  <2> PICK v \in Sessions : Pay(v)
    BY <1>2
  <2>1. /\ v # s => sessions'[s] = sessions[s]
        /\ v = s => /\ sessions[s].status = "Open" /\ sessions'[s].status = "Paid"
                    /\ sessions'[s].authorization = "Pending"
    BY DEF Pay, TypeOK, SessionType
  <2>2. sessions[s].status = "Open" => sessions[s].authorization # "Done"
    BY DEF MemoryInv
  <2> QED
    BY <2>1, <2>2 DEF SettlesOn
<1>3. CASE \E t \in Triggers : TriggerStep(t)
  BY <1>3, TriggerSettles
<1>4. CASE VoidOpenSessions
  <2>1. \/ sessions'[s] = sessions[s]
        \/ /\ sessions[s].status = "Open" /\ sessions'[s].status = "Void"
           /\ sessions'[s].authorization = sessions[s].authorization
    BY <1>4 DEF VoidOpenSessions, OpenSessions, TypeOK, SessionType
  <2> QED
    BY <2>1 DEF SettlesOn
<1>5. CASE UNCHANGED sessions
  BY <1>5 DEF SettlesOn
<1>6. \/ \E c \in Callers, offer \in Offers : GetPaymentUrl(c, offer)
      \/ \E v \in Sessions : SaveOpenSession(v) \/ Authorize(v)
      \/ CallDirectly \/ BookElsewhere \/ BeginCancel \/ CancelIsRefused
      \/ UNCHANGED vars
      => UNCHANGED sessions
  BY DEF GetPaymentUrl, SaveOpenSession, Authorize, CallDirectly, BookElsewhere, BeginCancel,
         CancelIsRefused, vars
<1> QED
  BY <1>1, <1>2, <1>3, <1>4, <1>5, <1>6 DEF Next

(* Each session of a request is a Settlement of its own: no step of the    *)
(* hook or of a cancellation makes it Done before it is paid, or closes it *)
(* over a payment (authorize, on_payment_authorized, void_open_sessions).  *)
THEOREM SessionsSettle == Spec => SessionsKeepPromise
<1>1. Init => \A s \in Sessions : Promise(s)!Init
  BY DEF Init, Promise!Init
<1>2. IInv /\ [Next]_vars => [\A s \in Sessions : [Promise(s)!Next]_(Promise(s)!vars)]_vars
  BY NextSettles, SettlesOnIsSettlement
<1> QED
  BY <1>1, <1>2, Inductive, PTL DEF Spec, SessionsKeepPromise
=============================================================================
