------------------------------- MODULE Provider -------------------------------
(***************************************************************************)
(* What api.py and reconcile.py need from a provider's initiate and        *)
(* check_status, with no token, cache, credential or retry in sight: each  *)
(* call takes effect at one instant, between its beginning and its end, at *)
(* which what it returns is so.  MtnMomoClient implements it; the steps    *)
(* of LocalPayment that reach the provider are these.                      *)
(***************************************************************************)
CONSTANT Workers    \* the processes, each initiating a request of its own or
                    \* asking about another's

VARIABLES
    held,           \* process -> what the provider holds of its request
    said            \* process -> what its call has returned, about whose request

vars == <<held, said>>

Returned(what, v) == [what |-> what, about |-> v]

Nothing(w) == Returned("nothing", w)

Init ==
    /\ held = [w \in Workers |-> "absent"]
    /\ said = [w \in Workers |-> Nothing(w)]

Say(w, what, v) ==
    /\ said[w] = Nothing(w)
    /\ said' = [said EXCEPT ![w] = Returned(what, v)]

Arrives(w) ==
    /\ held[w] = "absent"
    /\ held' = [held EXCEPT ![w] = "pending"]

(* SendAccepted, SendRefused and SendUnanswered of LocalPayment.           *)
TakeIn(w) == Arrives(w) /\ Say(w, "taken in", w)

Refuse(w) == held[w] = "absent" /\ Say(w, "refused", w) /\ UNCHANGED held

LoseTrack(w) == (Arrives(w) \/ UNCHANGED held) /\ Say(w, "unknown", w)

(* Its LateArrival.                                                        *)
ArriveLate(w) == said[w] = Returned("unknown", w) /\ Arrives(w) /\ UNCHANGED said

(* Its Hear.  A request the provider does not know reads as failed.        *)
AnswerFor(state) ==
    CASE state = "pending"    -> "Pending"
      [] state = "successful" -> "Succeeded"
      [] OTHER                -> "Failed"

Answer(w, v) ==
    /\ v # w
    /\ Say(w, AnswerFor(held[v]), v) \/ Say(w, "no answer", v)
    /\ UNCHANGED held

(* Its Decide.                                                             *)
Decide(w, verdict) ==
    /\ held[w] = "pending"
    /\ held' = [held EXCEPT ![w] = verdict]
    /\ UNCHANGED said

Next ==
    \E w \in Workers :
        \/ TakeIn(w) \/ Refuse(w) \/ LoseTrack(w) \/ ArriveLate(w)
        \/ \E v \in Workers : Answer(w, v)
        \/ \E verdict \in {"successful", "failed"} : Decide(w, verdict)

Spec == Init /\ [][Next]_vars
=============================================================================
