------------------------------ MODULE Settlement ------------------------------
(***************************************************************************)
(* What a payment session promises to whoever keeps the accounts, with no  *)
(* process, lock, date or provider in sight: every payment the provider    *)
(* confirms is classed once and for ever, at most one of them pays the     *)
(* session, and the payment is booked once the session is paid, never      *)
(* before.  LocalPayment implements it, and so does each of the sessions   *)
(* of PaymentRequest, which share a request and its locks.                 *)
(***************************************************************************)
CONSTANT Attempts

VARIABLES
    state,      \* Local Payment.status
    money,      \* attempt -> what the payment received for it is
    booked      \* have the consumer's effects been committed?

vars == <<state, money, booked>>

Init ==
    /\ state = "Open"
    /\ money = [a \in Attempts |-> "None"]
    /\ booked = FALSE

Pay(a) ==
    /\ state = "Open" /\ money[a] = "None"
    /\ state' = "Paid"
    /\ money' = [money EXCEPT ![a] = "Pays"]
    /\ UNCHANGED booked

(* Another amount, a second payment, or a payment of a voided session.     *)
ReceiveSurplus(a) ==
    /\ money[a] = "None"
    /\ money' = [money EXCEPT ![a] = "Surplus"]
    /\ UNCHANGED <<state, booked>>

Book ==
    /\ state = "Paid" /\ ~booked
    /\ booked' = TRUE
    /\ UNCHANGED <<state, money>>

Cancel ==
    /\ state = "Open"
    /\ state' = "Void"
    /\ UNCHANGED <<money, booked>>

Next == (\E a \in Attempts : Pay(a) \/ ReceiveSurplus(a)) \/ Book \/ Cancel

Spec == Init /\ [][Next]_vars
=============================================================================
